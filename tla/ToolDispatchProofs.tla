------------------------- MODULE ToolDispatchProofs -------------------------
(***************************************************************************)
(* Proofs about the tool dispatch engine, for every number of calls, every *)
(* set of registered and approval-gated tools, every approval mode and     *)
(* every execution policy: the type invariant, result parity, and then     *)
(* what may be executed, in which order the groups run and the events of a *)
(* call are emitted, and that an interrupt ends the batch.                 *)
(***************************************************************************)
EXTENDS ToolDispatch, FiniteSetTheorems, TLAPS

(* A set of calls has at most N members: what bounds the group number the  *)
(* Sequential policy gives a call.                                         *)
LEMMA CallsBound ==
  ASSUME NEW S \in SUBSET Calls
  PROVE  Cardinality(S) \in 0..N
<1>1. IsFiniteSet(Calls) /\ Cardinality(Calls) = N
  BY BatchAssumption, FS_Interval, 1 \in Int, N \in Int DEF Calls
<1>2. IsFiniteSet(S) /\ Cardinality(S) <= Cardinality(Calls)
  BY <1>1, FS_Subset
<1>3. Cardinality(S) \in Nat
  BY <1>2, FS_CardinalityType
<1> QED BY <1>1, <1>2, <1>3, BatchAssumption

(* Whatever the policy, the groups it computes have numbers in range.      *)
LEMMA GroupsType ==
  ASSUME TypeInvariant, compute_execution_groups
  PROVE  /\ groupOf' \in [Calls -> 0..(N + CustomGroups)]
         /\ groupCount' \in 0..(N + CustomGroups)
<1> USE BatchAssumption
<1>1. groupOf' \in [Calls -> 0..(N + CustomGroups)]
  <2>1. CASE groupOf' = [c \in Calls |-> IF c \in prepared THEN 1 ELSE 0]
    BY <2>1
  <2>2. CASE groupOf' = [c \in Calls |-> IF c \in prepared
                  THEN Cardinality({d \in prepared : d <= c}) ELSE 0]
    <3>1. \A c \in Calls : Cardinality({d \in prepared : d <= c}) \in 0..N
      BY CallsBound DEF TypeInvariant, TypeGate
    <3> QED BY <2>2, <3>1
  <2>3. CASE groupOf' \in [Calls -> 0..N]
    BY <2>3
  <2>4. CASE \E q \in SUBSET (Calls \X (1..CustomGroups)) : groupOf' = GroupsOf(q)
    BY <2>4 DEF GroupsOf
  <2> QED BY <2>1, <2>2, <2>3, <2>4 DEF compute_execution_groups
<1>2. groupCount' \in 1..(N + CustomGroups)
  BY DEF compute_execution_groups, GroupCounts
<1> QED BY <1>1, <1>2

(* The walk over the calls stays inside the batch.                         *)
LEMMA CallArith ==
  /\ 1 \in Calls
  /\ \A c \in Calls : c # N => c + 1 \in Calls
BY BatchAssumption DEF Calls

(* Emitting keeps the event log well typed, filling in results keeps the   *)
(* result table well typed.                                                *)
LEMMA EmitType ==
  ASSUME NEW evs \in [Calls -> Seq(Events)]
  PROVE  /\ \A c \in Calls, e \in Events : emit(evs, c, e) \in [Calls -> Seq(Events)]
         /\ \A S : emit_errors(evs, S) \in [Calls -> Seq(Events)]
<1>1. ASSUME NEW c \in Calls, NEW e \in Events
      PROVE  emit(evs, c, e) \in [Calls -> Seq(Events)]
  BY DEF emit
<1>2. ASSUME NEW S PROVE emit_errors(evs, S) \in [Calls -> Seq(Events)]
  <2>1. \A c \in Calls : Append(evs[c], "End") \in Seq(Events)
    BY DEF Events
  <2> QED BY <2>1 DEF emit_errors
<1> QED BY <1>1, <1>2

LEMMA TableType ==
  ASSUME TypeInvariant
  PROVE  /\ \A S, k : k \in Kinds => error_results(S, k) \in Table
         /\ \A t \in Table : fill_cancelled(t) \in OutTable /\ t \in OutTable
         /\ [c \in Calls |-> "none"] \in Table
BY DEF error_results, fill_cancelled, Table, OutTable, TypeInvariant,
       TypeOutcome

(* Returning an outcome keeps the types.                                   *)
LEMMA ReturnType ==
  ASSUME TypeInvariant, NEW kind, NEW res, NEW tr, Return(kind, res, tr),
         kind \in {"Completed", "Stopped", "Aborted", "SteeringInterrupt",
                   "ChannelClosed"},
         res \in OutTable, tr \in Calls \union {None}
  PROVE  /\ pc' \in PCs /\ results' \in Table
         /\ outcome' \in Outcomes
BY TableType DEF Return, PCs, Outcomes

(* TypeInvariant is inductive as it stands: one step per action, and under *)
(* it one per group of variables.                                          *)
THEOREM TypeCorrect == Spec => []TypeInvariant
<1>1. Init => TypeInvariant
  <2> SUFFICES ASSUME Init PROVE TypeInvariant
    OBVIOUS
  <2> USE BatchAssumption, CallArith DEF Init
  <2>1. TypeGate BY DEF TypeGate, PCs
  <2>2. TypeGroup BY DEF TypeGroup
  <2>3. TypeTask BY DEF TypeTask, TaskStates
  <2>4. TypeFlags BY DEF TypeFlags
  <2>5. TypeOutcome BY DEF TypeOutcome, NoOutcome, Table, Outcomes, OutTable
  <2>6. TypeEvents BY DEF TypeEvents
  <2> QED BY <2>1, <2>2, <2>3, <2>4, <2>5, <2>6 DEF TypeInvariant
<1>2. TypeInvariant /\ [Next]_vars => TypeInvariant'
  <2> SUFFICES ASSUME TypeInvariant, [Next]_vars PROVE TypeInvariant'
    OBVIOUS
  <2>1. CASE PoliciesCancelled
    <3>1. TypeGate'
      BY <2>1 DEF TypeInvariant, TypeGate, PoliciesCancelled, confVars,
         gateVars, PCs, build_aborted_outcome, Return
    <3>2. TypeOutcome'
      BY <2>1, ReturnType, TableType DEF TypeInvariant, TypeOutcome,
         PoliciesCancelled, build_aborted_outcome, TypeFlags, Kinds
    <3> QED BY <2>1, <3>1, <3>2 DEF TypeInvariant, TypeGroup,
           PoliciesCancelled, groupVars, TypeTask, taskVars, TypeFlags,
           flagVars, envVars, TypeEvents
  <2>2. CASE PoliciesPass
    <3>1. TypeGate'
      BY <2>2, CallArith DEF TypeInvariant, TypeGate, PoliciesPass, confVars,
         PCs
    <3> QED BY <2>2, <3>1 DEF TypeInvariant, TypeGroup, PoliciesPass,
           groupVars, TypeTask, taskVars, doneVars, TypeFlags, flagVars,
           envVars, TypeOutcome, TypeEvents
  <2>3. CASE PoliciesStop
    <3>1. TypeGate'
      BY <2>3 DEF TypeInvariant, TypeGate, PoliciesStop, confVars, gateVars,
         PCs, stopped_preprocess_outcome, Return
    <3>2. TypeOutcome'
      BY <2>3, ReturnType, TableType DEF TypeInvariant, TypeOutcome,
         PoliciesStop, stopped_preprocess_outcome,
         order_results_by_tool_calls, TypeFlags, Kinds
    <3>3. TypeEvents'
      BY <2>3, EmitType DEF TypeInvariant, TypeEvents, PoliciesStop, Events,
         TypeGate, stopped_preprocess_outcome
    <3> QED BY <2>3, <3>1, <3>2, <3>3 DEF TypeInvariant, TypeGroup,
           PoliciesStop, groupVars, TypeTask, taskVars, TypeFlags, flagVars,
           envVars
  <2>4. CASE GateCancelled
    <3>1. TypeGate'
      BY <2>4 DEF TypeInvariant, TypeGate, GateCancelled, confVars, gateVars,
         PCs, build_aborted_outcome, Return
    <3>2. TypeOutcome'
      BY <2>4, ReturnType, TableType DEF TypeInvariant, TypeOutcome,
         GateCancelled, build_aborted_outcome, TypeFlags, Kinds
    <3> QED BY <2>4, <3>1, <3>2 DEF TypeInvariant, TypeGroup, GateCancelled,
           groupVars, TypeTask, taskVars, TypeFlags, flagVars, envVars,
           TypeEvents
  <2>5. CASE GateSkipped
    <3>1. TypeGate'
      BY <2>5, CallArith DEF TypeInvariant, TypeGate, GateSkipped, confVars,
         PCs, NextCall
    <3>2. TypeOutcome'
      BY <2>5 DEF TypeInvariant, TypeOutcome, GateSkipped, doneVars,
         emit_error_result, Table, Kinds, TypeGate
    <3>3. TypeEvents'
      BY <2>5, EmitType DEF TypeInvariant, TypeEvents, GateSkipped, Events,
         TypeGate, emit_error_result
    <3> QED BY <2>5, <3>1, <3>2, <3>3 DEF TypeInvariant, TypeGroup,
           GateSkipped, groupVars, TypeTask, taskVars, doneVars, TypeFlags,
           flagVars, envVars
  <2>6. CASE GateOpen
    <3>1. TypeGate'
      BY <2>6, CallArith DEF TypeInvariant, TypeGate, GateOpen, confVars, PCs,
         NextCall
    <3> QED BY <2>6, <3>1 DEF TypeInvariant, TypeGroup, GateOpen, groupVars,
           TypeTask, taskVars, doneVars, TypeFlags, flagVars, envVars,
           TypeOutcome, TypeEvents
  <2>7. CASE RequestApproval
    <3>1. TypeGate'
      BY <2>7 DEF TypeInvariant, TypeGate, RequestApproval, confVars,
         gateVars, PCs, ReturnChannelClosed, Return
    <3>2. TypeOutcome'
      BY <2>7, ReturnType, TableType DEF TypeInvariant, TypeOutcome,
         RequestApproval, ReturnChannelClosed, TypeFlags, Kinds
    <3>3. TypeEvents'
      BY <2>7, EmitType DEF TypeInvariant, TypeEvents, RequestApproval,
         Events, TypeGate
    <3> QED BY <2>7, <3>1, <3>2, <3>3 DEF TypeInvariant, TypeGroup,
           RequestApproval, groupVars, TypeTask, taskVars, TypeFlags,
           flagVars, envVars
  <2>8. CASE ApprovalCancelled
    <3>1. TypeGate'
      BY <2>8 DEF TypeInvariant, TypeGate, ApprovalCancelled, confVars,
         gateVars, PCs, build_aborted_outcome, ReturnChannelClosed, Return
    <3>2. TypeOutcome'
      BY <2>8, ReturnType, TableType DEF TypeInvariant, TypeOutcome,
         ApprovalCancelled, build_aborted_outcome, ReturnChannelClosed,
         TypeFlags, Kinds
    <3>3. TypeEvents'
      BY <2>8, EmitType DEF TypeInvariant, TypeEvents, ApprovalCancelled,
         Events, TypeGate
    <3> QED BY <2>8, <3>1, <3>2, <3>3 DEF TypeInvariant, TypeGroup,
           ApprovalCancelled, groupVars, TypeTask, taskVars, TypeFlags,
           flagVars, envVars
  <2>9. CASE GroupsCancelled
    <3>1. TypeGate'
      BY <2>9 DEF TypeInvariant, TypeGate, GroupsCancelled, confVars,
         gateVars, PCs, build_aborted_outcome, Return
    <3>2. TypeOutcome'
      BY <2>9, ReturnType, TableType DEF TypeInvariant, TypeOutcome,
         GroupsCancelled, build_aborted_outcome, TypeFlags, Kinds
    <3> QED BY <2>9, <3>1, <3>2 DEF TypeInvariant, TypeGroup, GroupsCancelled,
           groupVars, TypeTask, taskVars, TypeFlags, flagVars, envVars,
           TypeEvents
  <2>10. CASE NothingPrepared
    <3>1. TypeGate'
      BY <2>10 DEF TypeInvariant, TypeGate, NothingPrepared, confVars,
         gateVars, PCs, Return
    <3>2. TypeOutcome'
      BY <2>10, ReturnType, TableType DEF TypeInvariant, TypeOutcome,
         NothingPrepared, order_results_by_tool_calls, TypeFlags, Kinds
    <3> QED BY <2>10, <3>1, <3>2 DEF TypeInvariant, TypeGroup,
           NothingPrepared, groupVars, TypeTask, taskVars, TypeFlags,
           flagVars, envVars, TypeEvents
  <2>11. CASE compute_execution_groups
    <3>1. TypeGate'
      BY <2>11 DEF TypeInvariant, TypeGate, compute_execution_groups,
         confVars, gateVars, PCs
    <3>2. TypeGroup'
      BY <2>11, GroupsType DEF TypeInvariant, TypeGroup,
         compute_execution_groups
    <3> QED BY <2>11, <3>1, <3>2 DEF TypeInvariant, TypeTask,
           compute_execution_groups, taskVars, doneVars, TypeFlags, flagVars,
           envVars, TypeOutcome, TypeEvents
  <2>12. CASE InvalidPartition
    <3>1. TypeGate'
      BY <2>12 DEF TypeInvariant, TypeGate, InvalidPartition, confVars,
         gateVars, PCs, Return
    <3>2. TypeOutcome'
      BY <2>12, ReturnType, TableType DEF TypeInvariant, TypeOutcome,
         InvalidPartition, order_results_by_tool_calls, TypeFlags, Kinds
    <3>3. TypeEvents'
      BY <2>12, EmitType DEF TypeInvariant, TypeEvents, InvalidPartition,
         Events, TypeGate
    <3> QED BY <2>12, <3>1, <3>2, <3>3 DEF TypeInvariant, TypeGroup,
           InvalidPartition, groupVars, TypeTask, taskVars, TypeFlags,
           flagVars, envVars
  <2>13. CASE BeginGroup
    <3>1. TypeGate'
      BY <2>13 DEF TypeInvariant, TypeGate, BeginGroup, confVars, gateVars,
         PCs, build_aborted_outcome, Return
    <3>2. TypeOutcome'
      BY <2>13, ReturnType, TableType DEF TypeInvariant, TypeOutcome,
         BeginGroup, build_aborted_outcome, TypeFlags, Kinds
    <3> QED BY <2>13, <3>1, <3>2 DEF TypeInvariant, TypeGroup, BeginGroup,
           groupVars, TypeTask, taskVars, TypeFlags, flagVars, envVars,
           TypeEvents
  <2>14. CASE AllGroupsDone
    <3>1. TypeGate'
      BY <2>14 DEF TypeInvariant, TypeGate, AllGroupsDone, confVars, gateVars,
         PCs, Return
    <3>2. TypeOutcome'
      BY <2>14, ReturnType, TableType DEF TypeInvariant, TypeOutcome,
         AllGroupsDone, order_results_by_tool_calls, TypeFlags, Kinds
    <3> QED BY <2>14, <3>1, <3>2 DEF TypeInvariant, TypeGroup, AllGroupsDone,
           groupVars, TypeTask, taskVars, TypeFlags, flagVars, envVars,
           TypeEvents
  <2>15. ASSUME NEW c \in Calls, CheckCancelled(c) PROVE TypeInvariant'
    <3>1. TypeGate'
      BY <2>15, CallArith DEF TypeInvariant, TypeGate, CheckCancelled,
         confVars, PCs
    <3>2. TypeOutcome'
      BY <2>15 DEF TypeInvariant, TypeOutcome, CheckCancelled
    <3> QED BY <2>15, <3>1, <3>2 DEF TypeInvariant, TypeGroup, CheckCancelled,
           groupVars, TypeTask, taskVars, TypeFlags, flagVars, envVars,
           TypeEvents
  <2>16. CASE DispatchUnknown
    <3>1. TypeGate'
      BY <2>16 DEF TypeInvariant, TypeGate, DispatchUnknown, confVars,
         gateVars, PCs
    <3>2. TypeGroup'
      BY <2>16 DEF TypeInvariant, TypeGroup, DispatchUnknown, TypeGate
    <3>3. TypeOutcome'
      BY <2>16 DEF TypeInvariant, TypeOutcome, DispatchUnknown, doneVars,
         emit_error_result, Table, Kinds, TypeGate
    <3>4. TypeEvents'
      BY <2>16, EmitType DEF TypeInvariant, TypeEvents, DispatchUnknown,
         Events, TypeGate, emit_error_result
    <3> QED BY <2>16, <3>1, <3>2, <3>3, <3>4 DEF TypeInvariant, TypeTask,
           DispatchUnknown, taskVars, doneVars, TypeFlags, flagVars, envVars
  <2>17. CASE DispatchInvalid
    <3>1. TypeGate'
      BY <2>17 DEF TypeInvariant, TypeGate, DispatchInvalid, confVars,
         gateVars, PCs
    <3>2. TypeGroup'
      BY <2>17 DEF TypeInvariant, TypeGroup, DispatchInvalid, TypeGate
    <3>3. TypeTask'
      BY <2>17 DEF TypeInvariant, TypeTask, DispatchInvalid, doneVars,
         TaskStates, TypeGate
    <3> QED BY <2>17, <3>1, <3>2, <3>3 DEF TypeInvariant, TypeFlags,
           DispatchInvalid, flagVars, envVars, TypeOutcome, doneVars,
           TypeEvents
  <2>18. CASE DispatchValid
    <3>1. TypeGate'
      BY <2>18 DEF TypeInvariant, TypeGate, DispatchValid, confVars, gateVars,
         PCs
    <3>2. TypeGroup'
      BY <2>18 DEF TypeInvariant, TypeGroup, DispatchValid, TypeGate
    <3>3. TypeTask'
      BY <2>18 DEF TypeInvariant, TypeTask, DispatchValid, doneVars,
         TaskStates, TypeGate
    <3>4. TypeEvents'
      BY <2>18, EmitType, SMTT(40) DEF TypeInvariant, TypeEvents, DispatchValid,
         Events, TypeGate
    <3> QED BY <2>18, <3>1, <3>2, <3>3, <3>4 DEF TypeInvariant, TypeFlags,
           DispatchValid, flagVars, envVars, TypeOutcome, doneVars
  <2>19. CASE DispatchUndelivered
    <3>1. TypeGate'
      BY <2>19 DEF TypeInvariant, TypeGate, DispatchUndelivered, confVars,
         gateVars, PCs
    <3>2. TypeFlags'
      BY <2>19 DEF TypeInvariant, TypeFlags, DispatchUndelivered, flagVars
    <3>3. TypeOutcome'
      BY <2>19 DEF TypeInvariant, TypeOutcome, DispatchUndelivered
    <3> QED BY <2>19, <3>1, <3>2, <3>3 DEF TypeInvariant, TypeGroup,
           DispatchUndelivered, groupVars, TypeTask, taskVars, TypeEvents
  <2>20. CASE GroupDispatched
    <3>1. TypeGate'
      BY <2>20 DEF TypeInvariant, TypeGate, GroupDispatched, confVars,
         gateVars, PCs
    <3> QED BY <2>20, <3>1 DEF TypeInvariant, TypeGroup, GroupDispatched,
           groupVars, TypeTask, taskVars, doneVars, TypeFlags, flagVars,
           envVars, TypeOutcome, TypeEvents
  <2>21. CASE GroupCollected
    <3>1. TypeGate'
      BY <2>21 DEF TypeInvariant, TypeGate, GroupCollected, confVars,
         gateVars, PCs
    <3>2. TypeGroup'
      BY <2>21 DEF TypeInvariant, TypeGroup, GroupCollected
    <3> QED BY <2>21, <3>1, <3>2 DEF TypeInvariant, TypeTask, GroupCollected,
           taskVars, doneVars, TypeFlags, flagVars, envVars, TypeOutcome,
           TypeEvents
  <2>22. CASE CollectCancelled
    <3>1. TypeGate'
      BY <2>22 DEF TypeInvariant, TypeGate, CollectCancelled, confVars,
         gateVars, PCs
    <3>2. TypeOutcome'
      BY <2>22 DEF TypeInvariant, TypeOutcome, CollectCancelled
    <3> QED BY <2>22, <3>1, <3>2 DEF TypeInvariant, TypeGroup,
           CollectCancelled, groupVars, TypeTask, taskVars, TypeFlags,
           flagVars, envVars, TypeEvents
  <2>23. ASSUME NEW c \in Calls, JoinPanicked(c) PROVE TypeInvariant'
    <3>1. TypeGroup'
      BY <2>23 DEF TypeInvariant, TypeGroup, JoinPanicked
    <3>2. TypeOutcome'
      BY <2>23 DEF TypeInvariant, TypeOutcome, JoinPanicked, doneVars,
         emit_error_result, Table, Kinds, TypeGate
    <3>3. TypeEvents'
      BY <2>23, EmitType DEF TypeInvariant, TypeEvents, JoinPanicked, Events,
         TypeGate, emit_error_result
    <3> QED BY <2>23, <3>1, <3>2, <3>3 DEF TypeInvariant, TypeGate,
           JoinPanicked, confVars, gateVars, TypeTask, taskVars, doneVars,
           TypeFlags, flagVars, envVars
  <2>24. ASSUME NEW c \in Calls, JoinDone(c) PROVE TypeInvariant'
    <3>1. TypeGate'
      BY <2>24 DEF TypeInvariant, TypeGate, JoinDone, confVars, gateVars, PCs
    <3>2. TypeGroup'
      BY <2>24 DEF TypeInvariant, TypeGroup, JoinDone
    <3>3. TypeFlags'
      BY <2>24 DEF TypeInvariant, TypeFlags, JoinDone, flagVars
    <3>4. TypeOutcome'
      BY <2>24 DEF TypeInvariant, TypeOutcome, JoinDone, Interrupt
    <3> QED BY <2>24, <3>1, <3>2, <3>3, <3>4 DEF TypeInvariant, TypeTask,
           JoinDone, taskVars, TypeEvents
  <2>25. CASE GraceOver
    <3>1. TypeGate'
      BY <2>25 DEF TypeInvariant, TypeGate, GraceOver, confVars, gateVars,
         PCs, ReturnChannelClosed, Return
    <3>2. TypeGroup'
      BY <2>25 DEF TypeInvariant, TypeGroup, GraceOver
    <3>3. TypeTask'
      BY <2>25 DEF TypeInvariant, TypeTask, GraceOver, taskVars, TaskStates,
         TypeGroup, ReturnChannelClosed, Return
    <3>4. TypeFlags'
      BY <2>25 DEF TypeInvariant, TypeFlags, GraceOver, flagVars
    <3>5. TypeOutcome'
      BY <2>25, ReturnType, TableType DEF TypeInvariant, TypeOutcome,
         GraceOver, ReturnChannelClosed, TypeFlags, Kinds
    <3>6. TypeEvents'
      <4>1. PICK S : ev' = emit_errors(ev, S)
        BY <2>25 DEF GraceOver
      <4> QED BY <2>25, <4>1, EmitType DEF TypeInvariant, TypeEvents, GraceOver
    <3> QED BY <2>25, <3>1, <3>2, <3>3, <3>4, <3>5, <3>6 DEF TypeInvariant
  <2>26. CASE Approve
    <3>1. TypeGate'
      BY <2>26, CallArith DEF TypeInvariant, TypeGate, Approve, confVars, PCs,
         NextCall
    <3>2. TypeEvents'
      BY <2>26, EmitType DEF TypeInvariant, TypeEvents, Approve, Events,
         TypeGate
    <3> QED BY <2>26, <3>1, <3>2 DEF TypeInvariant, TypeGroup, Approve,
           groupVars, TypeTask, taskVars, doneVars, TypeFlags, flagVars,
           envVars, TypeOutcome
  <2>27. CASE ApproveWith
    <3>1. TypeGate'
      BY <2>27, CallArith DEF TypeInvariant, TypeGate, ApproveWith, confVars,
         PCs, NextCall, stopped_preprocess_outcome, Return
    <3>2. TypeOutcome'
      BY <2>27, ReturnType, TableType DEF TypeInvariant, TypeOutcome,
         ApproveWith, emit_error_result, Table, Kinds, TypeGate,
         stopped_preprocess_outcome, order_results_by_tool_calls, TypeFlags
    <3>3. TypeEvents'
      <4>1. emit(ev, i, "Approved") \in [Calls -> Seq(Events)]
        BY EmitType DEF TypeInvariant, TypeEvents, TypeGate, Events
      <4>2. PICK S : ev' \in {emit(ev, i, "Approved"),
              emit(emit(ev, i, "Approved"), i, "End"),
              emit_errors(emit(ev, i, "Approved"), S)}
        BY <2>27 DEF ApproveWith, emit_error_result, stopped_preprocess_outcome
      <4>3. emit(emit(ev, i, "Approved"), i, "End") \in [Calls -> Seq(Events)]
        BY <4>1, EmitType DEF TypeInvariant, TypeGate, Events
      <4>4. emit_errors(emit(ev, i, "Approved"), S) \in [Calls -> Seq(Events)]
        BY <4>1, EmitType
      <4> QED BY <2>27, <4>1, <4>2, <4>3, <4>4
              DEF TypeInvariant, TypeEvents, ApproveWith
    <3> QED BY <2>27, <3>1, <3>2, <3>3 DEF TypeInvariant, TypeGroup,
           ApproveWith, groupVars, TypeTask, taskVars, TypeFlags, flagVars,
           envVars
  <2>28. CASE Reject
    <3>1. TypeGate'
      BY <2>28, CallArith DEF TypeInvariant, TypeGate, Reject, confVars, PCs,
         NextCall
    <3>2. TypeOutcome'
      BY <2>28 DEF TypeInvariant, TypeOutcome, Reject, doneVars,
         emit_error_result, Table, Kinds, TypeGate
    <3>3. TypeEvents'
      BY <2>28, EmitType DEF TypeInvariant, TypeEvents, Reject, Events,
         TypeGate, emit_error_result
    <3> QED BY <2>28, <3>1, <3>2, <3>3 DEF TypeInvariant, TypeGroup, Reject,
           groupVars, TypeTask, taskVars, doneVars, TypeFlags, flagVars,
           envVars
  <2>29. CASE DecisionUndelivered
    <3>1. TypeGate'
      BY <2>29 DEF TypeInvariant, TypeGate, DecisionUndelivered, confVars,
         gateVars, PCs, ReturnChannelClosed, Return
    <3>2. TypeOutcome'
      BY <2>29, ReturnType, TableType DEF TypeInvariant, TypeOutcome,
         DecisionUndelivered, ReturnChannelClosed, TypeFlags, Kinds
    <3> QED BY <2>29, <3>1, <3>2 DEF TypeInvariant, TypeGroup,
           DecisionUndelivered, groupVars, TypeTask, taskVars, TypeFlags,
           flagVars, envVars, TypeEvents
  <2>30. ASSUME NEW c \in Calls, TaskFail(c) PROVE TypeInvariant'
    <3>1. TypeTask'
      BY <2>30 DEF TypeInvariant, TypeTask, TaskFail, doneVars, TaskStates
    <3> QED BY <2>30, <3>1 DEF TypeInvariant, TypeGate, TaskFail, confVars,
           gateVars, TypeGroup, groupVars, TypeFlags, flagVars, envVars,
           TypeOutcome, doneVars, TypeEvents
  <2>31. ASSUME NEW c \in Calls, TaskExecute(c) PROVE TypeInvariant'
    <3>1. TypeTask'
      BY <2>31 DEF TypeInvariant, TypeTask, TaskExecute, doneVars, TaskStates
    <3> QED BY <2>31, <3>1 DEF TypeInvariant, TypeGate, TaskExecute, confVars,
           gateVars, TypeGroup, groupVars, TypeFlags, flagVars, envVars,
           TypeOutcome, doneVars, TypeEvents
  <2>32. ASSUME NEW c \in Calls, TaskReturn(c) PROVE TypeInvariant'
    <3>1. TypeTask'
      BY <2>32 DEF TypeInvariant, TypeTask, TaskReturn, doneVars, TaskStates
    <3>2. TypeFlags'
      BY <2>32 DEF TypeInvariant, TypeFlags, TaskReturn, envVars
    <3> QED BY <2>32, <3>1, <3>2 DEF TypeInvariant, TypeGate, TaskReturn,
           confVars, gateVars, TypeGroup, groupVars, TypeOutcome, doneVars,
           TypeEvents
  <2>33. ASSUME NEW c \in Calls, TaskPanic(c) PROVE TypeInvariant'
    <3>1. TypeTask'
      BY <2>33 DEF TypeInvariant, TypeTask, TaskPanic, doneVars, TaskStates
    <3> QED BY <2>33, <3>1 DEF TypeInvariant, TypeGate, TaskPanic, confVars,
           gateVars, TypeGroup, groupVars, TypeFlags, flagVars, envVars,
           TypeOutcome, doneVars, TypeEvents
  <2>34. ASSUME NEW c \in Calls, TaskEnd(c) PROVE TypeInvariant'
    <3>1. TypeTask'
      BY <2>34 DEF TypeInvariant, TypeTask, TaskEnd, doneVars, TaskStates
    <3>2. TypeEvents'
      BY <2>34, EmitType DEF TypeInvariant, TypeEvents, TaskEnd, Events,
         TypeGate
    <3> QED BY <2>34, <3>1, <3>2 DEF TypeInvariant, TypeGate, TaskEnd,
           confVars, gateVars, TypeGroup, groupVars, TypeFlags, flagVars,
           envVars, TypeOutcome, doneVars
  <2>35. ASSUME NEW c \in Calls, TaskPush(c) PROVE TypeInvariant'
    <3>1. TypeTask'
      BY <2>35 DEF TypeInvariant, TypeTask, TaskPush, doneVars, TaskStates
    <3>2. TypeFlags'
      BY <2>35 DEF TypeInvariant, TypeFlags, TaskPush, envVars
    <3>3. TypeOutcome'
      BY <2>35 DEF TypeInvariant, TypeOutcome, TaskPush, doneVars, Table,
         Kinds, TypeTask
    <3> QED BY <2>35, <3>1, <3>2, <3>3 DEF TypeInvariant, TypeGate, TaskPush,
           confVars, gateVars, TypeGroup, groupVars, TypeEvents
  <2>36. ASSUME NEW c \in Calls, TaskKilled(c) PROVE TypeInvariant'
    <3>1. TypeTask'
      BY <2>36 DEF TypeInvariant, TypeTask, TaskKilled, doneVars, TaskStates
    <3> QED BY <2>36, <3>1 DEF TypeInvariant, TypeGate, TaskKilled, confVars,
           gateVars, TypeGroup, groupVars, TypeFlags, flagVars, envVars,
           TypeOutcome, doneVars, TypeEvents
  <2>37. CASE Cancel
    <3>1. TypeFlags'
      BY <2>37 DEF TypeInvariant, TypeFlags, Cancel, flagVars
    <3> QED BY <2>37, <3>1 DEF TypeInvariant, TypeGate, Cancel, confVars,
           gateVars, TypeGroup, groupVars, TypeTask, taskVars, doneVars,
           TypeOutcome, TypeEvents
  <2>38. CASE Steer
    <3>1. TypeFlags'
      BY <2>38 DEF TypeInvariant, TypeFlags, Steer, flagVars
    <3> QED BY <2>38, <3>1 DEF TypeInvariant, TypeGate, Steer, confVars,
           gateVars, TypeGroup, groupVars, TypeTask, taskVars, doneVars,
           TypeOutcome, TypeEvents
  <2>39. CASE DropReceiver
    <3>1. TypeFlags'
      BY <2>39 DEF TypeInvariant, TypeFlags, DropReceiver, flagVars
    <3> QED BY <2>39, <3>1 DEF TypeInvariant, TypeGate, DropReceiver,
           confVars, gateVars, TypeGroup, groupVars, TypeTask, taskVars,
           doneVars, TypeOutcome, TypeEvents
  <2>40. CASE UNCHANGED vars
    BY <2>40 DEF TypeInvariant, TypeGate, TypeGroup, TypeTask, TypeFlags,
        TypeOutcome, TypeEvents, vars
  <2> QED BY <2>1, <2>2, <2>3, <2>4, <2>5, <2>6, <2>7, <2>8, <2>9, <2>10,
             <2>11, <2>12, <2>13, <2>14, <2>15, <2>16, <2>17, <2>18, <2>19,
             <2>20, <2>21, <2>22, <2>23, <2>24, <2>25, <2>26, <2>27, <2>28,
             <2>29, <2>30, <2>31, <2>32, <2>33, <2>34, <2>35, <2>36, <2>37,
             <2>38, <2>39, <2>40
          DEF Next, Coordinator, Decision, TaskStep
<1> QED BY <1>1, <1>2, PTL DEF Spec

(* Returning an outcome that answers every call establishes parity; the    *)
(* tasks left behind cannot disturb it.                                    *)
LEMMA ReturnAccounted ==
  ASSUME TypeInvariant, Accounted, NEW kind, NEW res, NEW tr,
         Return(kind, res, tr), UNCHANGED <<task, ret>>,
         kind # "ChannelClosed" => \A c \in Calls : res[c] # "none"
  PROVE  Accounted' /\ ResultParity'
<1>1. Accounted'
  BY DEF Accounted, GatesAccounted, GroupsAccounted, TasksAccounted, Return
<1>2. ResultParity'
  BY DEF ResultParity, Return
<1> QED BY <1>1, <1>2

(* Every prepared call is given a group, and one that will be run.         *)
LEMMA GroupsCover ==
  ASSUME TypeInvariant, compute_execution_groups
  PROVE  \A c \in prepared : 1 <= groupOf'[c] /\ groupOf'[c] <= groupCount'
<1> SUFFICES ASSUME NEW c \in prepared
             PROVE  1 <= groupOf'[c] /\ groupOf'[c] <= groupCount'
  OBVIOUS
<1>1. c \in Calls
  BY DEF TypeInvariant, TypeGate
<1>2. groupOf'[c] <= groupCount'
  BY <1>1 DEF compute_execution_groups, GroupCounts
<1>3. 1 <= groupOf'[c]
  <2>1. CASE groupOf' = [d \in Calls |-> IF d \in prepared THEN 1 ELSE 0]
    BY <1>1, <2>1
  <2>2. CASE groupOf' = [d \in Calls |-> IF d \in prepared
                  THEN Cardinality({e \in prepared : e <= d}) ELSE 0]
    <3> DEFINE S == {e \in prepared : e <= c}
    <3>1. c \in S
      BY <1>1, BatchAssumption DEF Calls
    <3>2. IsFiniteSet(Calls)
      BY BatchAssumption, FS_Interval, 1 \in Int, N \in Int DEF Calls
    <3>3. S \subseteq Calls
      BY DEF TypeInvariant, TypeGate
    <3>4. IsFiniteSet(S)
      BY <3>2, <3>3, FS_Subset
    <3>5. Cardinality(S) # 0
      BY <3>1, <3>4, FS_EmptySet
    <3>6. Cardinality(S) \in Nat
      BY <3>4, FS_CardinalityType
    <3>7. groupOf'[c] = Cardinality(S)
      BY <1>1, <2>2
    <3> QED BY <3>5, <3>6, <3>7
  <2>3. CASE /\ groupOf' \in [Calls -> 0..N]
             /\ \A d \in Calls : d \in prepared <=> groupOf'[d] > 0
    BY <1>1, <2>3, BatchAssumption
  <2>4. CASE \E q \in SUBSET (Calls \X (1..CustomGroups)) :
               validate_custom_execution_groups(q) /\ groupOf' = GroupsOf(q)
    <3>1. PICK q \in SUBSET (Calls \X (1..CustomGroups)) :
               validate_custom_execution_groups(q) /\ groupOf' = GroupsOf(q)
      BY <2>4
    <3>2. PICK r \in q : r[1] = c
      BY <3>1 DEF validate_custom_execution_groups
    <3>3. r[2] \in 1..CustomGroups /\ <<c, r[2]>> \in q
      BY <3>2
    <3>4. GroupsOf(q)[c] \in 1..CustomGroups
      BY <1>1, <3>3 DEF GroupsOf
    <3> QED BY <3>1, <3>4, BatchAssumption
  <2> QED BY <2>1, <2>2, <2>3, <2>4 DEF compute_execution_groups
<1> QED BY <1>2, <1>3

(* The outcome builders leave no call without a result.                    *)
LEMMA FilledTable ==
  ASSUME NEW t \in Table
  PROVE  \A c \in Calls : fill_cancelled(t)[c] # "none"
BY DEF fill_cancelled

(* One step preserves the accounting and establishes parity.               *)
LEMMA AccountedStep ==
  ASSUME TypeInvariant, Accounted, ResultParity, [Next]_vars
  PROVE  Accounted' /\ ResultParity'
<1>1. CASE PoliciesCancelled
  BY <1>1, ReturnAccounted, FilledTable DEF PoliciesCancelled,
     build_aborted_outcome, TypeInvariant, TypeOutcome, taskVars
<1>2. CASE PoliciesPass
  BY <1>2, BatchAssumption DEF PoliciesPass, confVars, groupVars, taskVars,
     flagVars, envVars, doneVars, Accounted, GatesAccounted, GroupsAccounted,
     TasksAccounted, Settled, ResultParity, Calls, TypeInvariant, TypeGate
<1>3. CASE PoliciesStop
  BY <1>3, ReturnAccounted DEF PoliciesStop, stopped_preprocess_outcome,
     error_results, order_results_by_tool_calls, taskVars
<1>4. CASE GateCancelled
  BY <1>4, ReturnAccounted, FilledTable DEF GateCancelled,
     build_aborted_outcome, TypeInvariant, TypeOutcome, taskVars
<1>5. CASE GateSkipped
  BY <1>5, BatchAssumption DEF GateSkipped, emit_error_result, NextCall,
     confVars, groupVars, taskVars, flagVars, envVars, doneVars, Accounted,
     GatesAccounted, GroupsAccounted, TasksAccounted, Settled, ResultParity,
     Calls, TypeInvariant, TypeGate, TypeOutcome, Table
<1>6. CASE GateOpen
  BY <1>6, BatchAssumption DEF GateOpen, NextCall, confVars, groupVars,
     taskVars, flagVars, envVars, doneVars, Accounted, GatesAccounted,
     GroupsAccounted, TasksAccounted, Settled, ResultParity, Calls,
     TypeInvariant, TypeGate
<1>7. CASE RequestApproval
  <2>1. CASE ReturnChannelClosed
    BY <1>7, <2>1, ReturnAccounted DEF RequestApproval, ReturnChannelClosed,
       taskVars
  <2>2. CASE pc' # "done"
    <3>1. GatesAccounted'
      BY <1>7, <2>2, BatchAssumption DEF RequestApproval, ReturnChannelClosed,
         Return, Accounted, GatesAccounted, Settled, TypeInvariant, TypeGate,
         TypeGroup, TypeTask, TypeOutcome, Table, Calls, confVars, gateVars,
         groupVars, taskVars, flagVars, envVars
    <3>2. GroupsAccounted'
      BY <1>7, <2>2, BatchAssumption DEF RequestApproval, ReturnChannelClosed,
         Return, Accounted, GroupsAccounted, Settled, TypeInvariant, TypeGate,
         TypeGroup, TypeTask, TypeOutcome, Table, Calls, confVars, gateVars,
         groupVars, taskVars, flagVars, envVars
    <3>3. TasksAccounted'
      BY <1>7, <2>2, BatchAssumption DEF RequestApproval, ReturnChannelClosed,
         Return, Accounted, TasksAccounted, Settled, TypeInvariant, TypeGate,
         TypeGroup, TypeTask, TypeOutcome, Table, Calls, confVars, gateVars,
         groupVars, taskVars, flagVars, envVars
    <3> QED BY <2>2, <3>1, <3>2, <3>3 DEF Accounted, ResultParity
  <2> QED BY <1>7, <2>1, <2>2 DEF RequestApproval
<1>8. CASE ApprovalCancelled
  BY <1>8, ReturnAccounted, FilledTable DEF ApprovalCancelled,
     ReturnChannelClosed, build_aborted_outcome, TypeInvariant, TypeOutcome,
     taskVars
<1>9. CASE GroupsCancelled
  BY <1>9, ReturnAccounted, FilledTable DEF GroupsCancelled,
     build_aborted_outcome, TypeInvariant, TypeOutcome, taskVars
<1>10. CASE NothingPrepared
  BY <1>10, ReturnAccounted DEF NothingPrepared, order_results_by_tool_calls,
     Accounted, GatesAccounted, Settled, taskVars
<1>11. CASE compute_execution_groups
  <2>1. /\ pc = "groups" /\ pc' = "group" /\ group' = 1
        /\ UNCHANGED <<prepared, dispatched, handles, task, ret, results>>
    BY <1>11 DEF compute_execution_groups, gateVars, taskVars
  <2>2. \A c \in prepared : group' <= groupOf'[c] /\ groupOf'[c] <= groupCount'
    BY <1>11, <2>1, GroupsCover
  <2>3. \A c \in Calls : Settled(c) \/ c \in prepared
    BY <2>1 DEF Accounted, GatesAccounted
  <2>4. handles = {} /\ dispatched = {}
    BY <2>1 DEF Accounted, GatesAccounted
  <2>5. GatesAccounted'
    BY <2>1 DEF GatesAccounted
  <2>6. GroupsAccounted'
    BY <2>1, <2>2, <2>3, <2>4 DEF GroupsAccounted, Settled
  <2>7. TasksAccounted'
    BY <2>1 DEF Accounted, TasksAccounted, Settled
  <2> QED BY <2>1, <2>5, <2>6, <2>7 DEF Accounted, ResultParity
<1>12. CASE InvalidPartition
  BY <1>12, ReturnAccounted DEF InvalidPartition, order_results_by_tool_calls,
     error_results, Accounted, GatesAccounted, Settled, taskVars
<1>13. CASE BeginGroup
  <2>1. CASE build_aborted_outcome
    BY <1>13, <2>1, ReturnAccounted, FilledTable DEF BeginGroup,
       build_aborted_outcome, TypeInvariant, TypeOutcome, taskVars
  <2>2. CASE pc' # "done"
    <3>1. GatesAccounted'
      BY <1>13, <2>2, BatchAssumption DEF BeginGroup, build_aborted_outcome,
         Return, Accounted, GatesAccounted, Settled, TypeInvariant, TypeGate,
         TypeGroup, TypeTask, TypeOutcome, Table, Calls, confVars, gateVars,
         groupVars, taskVars, flagVars, envVars
    <3>2. GroupsAccounted'
      BY <1>13, <2>2, BatchAssumption DEF BeginGroup, build_aborted_outcome,
         Return, Accounted, GroupsAccounted, Settled, TypeInvariant, TypeGate,
         TypeGroup, TypeTask, TypeOutcome, Table, Calls, confVars, gateVars,
         groupVars, taskVars, flagVars, envVars
    <3>3. TasksAccounted'
      BY <1>13, <2>2, BatchAssumption DEF BeginGroup, build_aborted_outcome,
         Return, Accounted, TasksAccounted, Settled, TypeInvariant, TypeGate,
         TypeGroup, TypeTask, TypeOutcome, Table, Calls, confVars, gateVars,
         groupVars, taskVars, flagVars, envVars
    <3> QED BY <2>2, <3>1, <3>2, <3>3 DEF Accounted, ResultParity
  <2> QED BY <1>13, <2>1, <2>2 DEF BeginGroup
<1>14. CASE AllGroupsDone
  <2>1. ASSUME NEW c \in Calls PROVE results[c] # "none"
    <3>1. SUFFICES ASSUME results[c] = "none" PROVE FALSE
      OBVIOUS
    <3>2. group <= groupOf[c] /\ groupOf[c] <= groupCount
      BY <1>14, <3>1 DEF AllGroupsDone, Accounted, GroupsAccounted, Settled
    <3> QED BY <1>14, <3>2, BatchAssumption DEF AllGroupsDone, TypeInvariant,
       TypeGroup
  <2> QED BY <1>14, <2>1, ReturnAccounted
          DEF AllGroupsDone, order_results_by_tool_calls, taskVars
<1>15. ASSUME NEW c \in Calls, CheckCancelled(c) PROVE Accounted' /\ ResultParity'
  BY <1>15, BatchAssumption DEF CheckCancelled, confVars, groupVars, taskVars,
     flagVars, envVars, Accounted, GatesAccounted, GroupsAccounted,
     TasksAccounted, Settled, ResultParity, Calls, TypeInvariant, TypeGate
<1>16. CASE DispatchUnknown
  BY <1>16 DEF DispatchUnknown, emit_error_result, confVars, gateVars,
     taskVars, flagVars, envVars, doneVars, Accounted, GatesAccounted,
     GroupsAccounted, TasksAccounted, Settled, ResultParity, TypeInvariant,
     TypeGroup, TypeOutcome, Table
<1>17. CASE DispatchInvalid
  BY <1>17 DEF DispatchInvalid, confVars, gateVars, flagVars, envVars,
     doneVars, Accounted, GatesAccounted, GroupsAccounted, TasksAccounted,
     Settled, ResultParity, TypeInvariant, TypeGroup, TypeTask
<1>18. CASE DispatchValid
  BY <1>18 DEF DispatchValid, confVars, gateVars, flagVars, envVars, doneVars,
     Accounted, GatesAccounted, GroupsAccounted, TasksAccounted, Settled,
     ResultParity, TypeInvariant, TypeGroup, TypeTask
<1>19. CASE DispatchUndelivered
  BY <1>19 DEF DispatchUndelivered, confVars, gateVars, groupVars, taskVars,
     flagVars, Accounted, GatesAccounted, GroupsAccounted, TasksAccounted,
     Settled, ResultParity, TypeInvariant
<1>20. CASE GroupDispatched
  BY <1>20 DEF GroupDispatched, Undispatched, confVars, gateVars, groupVars,
     taskVars, flagVars, envVars, doneVars, Accounted, GatesAccounted,
     GroupsAccounted, TasksAccounted, Settled, ResultParity, TypeInvariant,
     TypeGroup
<1>21. CASE GroupCollected
  BY <1>21 DEF GroupCollected, AllJoined, confVars, gateVars, taskVars,
     flagVars, envVars, doneVars, Accounted, GatesAccounted, GroupsAccounted,
     TasksAccounted, Settled, ResultParity, TypeInvariant, TypeGroup
<1>22. CASE CollectCancelled
  BY <1>22 DEF CollectCancelled, confVars, gateVars, groupVars, taskVars,
     flagVars, envVars, Accounted, GatesAccounted, GroupsAccounted,
     TasksAccounted, Settled, ResultParity, TypeInvariant
<1>23. ASSUME NEW c \in Calls, JoinPanicked(c) PROVE Accounted' /\ ResultParity'
  BY <1>23 DEF JoinPanicked, emit_error_result, confVars, gateVars, taskVars,
     flagVars, envVars, doneVars, Accounted, GatesAccounted, GroupsAccounted,
     TasksAccounted, Settled, ResultParity, TypeInvariant, TypeGroup,
     TypeOutcome, Table
<1>24. ASSUME NEW c \in Calls, JoinDone(c) PROVE Accounted' /\ ResultParity'
  BY <1>24 DEF JoinDone, Interrupt, confVars, gateVars, taskVars, flagVars,
     Accounted, GatesAccounted, GroupsAccounted, TasksAccounted, Settled,
     ResultParity, TypeInvariant, TypeGroup
<1>25. CASE GraceOver
  <2>1. PICK bad : \/ \E kind, tr : Return(kind, fill_cancelled(error_results(bad, "error")), tr)
                   \/ ReturnChannelClosed
    BY <1>25 DEF GraceOver
  <2>2. error_results(bad, "error") \in Table
    BY TableType DEF Kinds
  <2> QED BY <1>25, <2>1, <2>2, ReturnAccounted, FilledTable
          DEF GraceOver, ReturnChannelClosed, taskVars
<1>26. CASE Approve
  BY <1>26, BatchAssumption DEF Approve, NextCall, confVars, groupVars,
     taskVars, flagVars, envVars, doneVars, Accounted, GatesAccounted,
     GroupsAccounted, TasksAccounted, Settled, ResultParity, Calls,
     TypeInvariant, TypeGate
<1>27. CASE ApproveWith
  <2>1. CASE stopped_preprocess_outcome(emit(ev, i, "Approved"))
    BY <1>27, <2>1, ReturnAccounted DEF ApproveWith, stopped_preprocess_outcome,
       error_results, order_results_by_tool_calls, taskVars
  <2>2. CASE pc' # "done"
    <3>1. GatesAccounted'
      BY <1>27, <2>2, BatchAssumption, SMTT(40) DEF ApproveWith, emit_error_result,
         NextCall, stopped_preprocess_outcome, Return, Accounted,
         GatesAccounted, Settled, TypeInvariant, TypeGate, TypeGroup,
         TypeTask, TypeOutcome, Table, Calls, confVars, groupVars, taskVars,
         flagVars, envVars
    <3>2. GroupsAccounted'
      BY <1>27, <2>2, BatchAssumption DEF ApproveWith, emit_error_result,
         NextCall, stopped_preprocess_outcome, Return, Accounted,
         GroupsAccounted, Settled, TypeInvariant, TypeGate, TypeGroup,
         TypeTask, TypeOutcome, Table, Calls, confVars, groupVars, taskVars,
         flagVars, envVars
    <3>3. TasksAccounted'
      BY <1>27, <2>2, BatchAssumption DEF ApproveWith, emit_error_result,
         NextCall, stopped_preprocess_outcome, Return, Accounted,
         TasksAccounted, Settled, TypeInvariant, TypeGate, TypeGroup,
         TypeTask, TypeOutcome, Table, Calls, confVars, groupVars, taskVars,
         flagVars, envVars
    <3> QED BY <2>2, <3>1, <3>2, <3>3 DEF Accounted, ResultParity
  <2> QED BY <1>27, <2>1, <2>2 DEF ApproveWith, emit_error_result, NextCall
<1>28. CASE Reject
  BY <1>28, BatchAssumption DEF Reject, emit_error_result, NextCall, confVars,
     groupVars, taskVars, flagVars, envVars, doneVars, Accounted,
     GatesAccounted, GroupsAccounted, TasksAccounted, Settled, ResultParity,
     Calls, TypeInvariant, TypeGate, TypeOutcome, Table
<1>29. CASE DecisionUndelivered
  BY <1>29, ReturnAccounted DEF DecisionUndelivered, ReturnChannelClosed,
     taskVars
<1>30. ASSUME NEW c \in Calls, TaskFail(c) PROVE Accounted' /\ ResultParity'
  BY <1>30 DEF TaskFail, confVars, gateVars, groupVars, flagVars, envVars,
     doneVars, Accounted, GatesAccounted, GroupsAccounted, TasksAccounted,
     Settled, ResultParity, TypeInvariant, TypeTask
<1>31. ASSUME NEW c \in Calls, TaskExecute(c) PROVE Accounted' /\ ResultParity'
  BY <1>31 DEF TaskExecute, confVars, gateVars, groupVars, flagVars, envVars,
     doneVars, Accounted, GatesAccounted, GroupsAccounted, TasksAccounted,
     Settled, ResultParity, TypeInvariant, TypeTask
<1>32. ASSUME NEW c \in Calls, TaskReturn(c) PROVE Accounted' /\ ResultParity'
  BY <1>32 DEF TaskReturn, confVars, gateVars, groupVars, envVars, doneVars,
     Accounted, GatesAccounted, GroupsAccounted, TasksAccounted, Settled,
     ResultParity, TypeInvariant, TypeTask
<1>33. ASSUME NEW c \in Calls, TaskPanic(c) PROVE Accounted' /\ ResultParity'
  BY <1>33 DEF TaskPanic, confVars, gateVars, groupVars, flagVars, envVars,
     doneVars, Accounted, GatesAccounted, GroupsAccounted, TasksAccounted,
     Settled, ResultParity, TypeInvariant, TypeTask
<1>34. ASSUME NEW c \in Calls, TaskEnd(c) PROVE Accounted' /\ ResultParity'
  BY <1>34 DEF TaskEnd, confVars, gateVars, groupVars, flagVars, envVars,
     doneVars, Accounted, GatesAccounted, GroupsAccounted, TasksAccounted,
     Settled, ResultParity, TypeInvariant, TypeTask
<1>35. ASSUME NEW c \in Calls, TaskPush(c) PROVE Accounted' /\ ResultParity'
  BY <1>35 DEF TaskPush, confVars, gateVars, groupVars, envVars, doneVars,
     Accounted, GatesAccounted, GroupsAccounted, TasksAccounted, Settled,
     ResultParity, TypeInvariant, TypeTask, TypeOutcome, Table
<1>36. ASSUME NEW c \in Calls, TaskKilled(c) PROVE Accounted' /\ ResultParity'
  BY <1>36 DEF TaskKilled, confVars, gateVars, groupVars, flagVars, envVars,
     doneVars, Accounted, GatesAccounted, GroupsAccounted, TasksAccounted,
     Settled, ResultParity, TypeInvariant, TypeTask
<1>37. CASE Cancel
  BY <1>37 DEF Cancel, confVars, gateVars, groupVars, taskVars, flagVars,
     doneVars, Accounted, GatesAccounted, GroupsAccounted, TasksAccounted,
     Settled, ResultParity, TypeInvariant
<1>38. CASE Steer
  BY <1>38 DEF Steer, confVars, gateVars, groupVars, taskVars, flagVars,
     doneVars, Accounted, GatesAccounted, GroupsAccounted, TasksAccounted,
     Settled, ResultParity, TypeInvariant
<1>39. CASE DropReceiver
  BY <1>39 DEF DropReceiver, confVars, gateVars, groupVars, taskVars,
     flagVars, doneVars, Accounted, GatesAccounted, GroupsAccounted,
     TasksAccounted, Settled, ResultParity, TypeInvariant
<1>40. CASE UNCHANGED vars
  BY <1>40 DEF vars, Accounted, GatesAccounted, GroupsAccounted, TasksAccounted,
     Settled, ResultParity
<1> QED BY <1>1, <1>2, <1>3, <1>4, <1>5, <1>6, <1>7, <1>8, <1>9, <1>10, <1>11,
           <1>12, <1>13, <1>14, <1>15, <1>16, <1>17, <1>18, <1>19, <1>20,
           <1>21, <1>22, <1>23, <1>24, <1>25, <1>26, <1>27, <1>28, <1>29,
           <1>30, <1>31, <1>32, <1>33, <1>34, <1>35, <1>36, <1>37, <1>38,
           <1>39, <1>40
        DEF Next, Coordinator, Decision, TaskStep

(* No tool call is left without a result, for every batch.                 *)
THEOREM Parity == Spec => []ResultParity
<1>1. Init => Accounted /\ ResultParity
  BY DEF Init, Accounted, GatesAccounted, GroupsAccounted, TasksAccounted,
         ResultParity
<1>2. TypeInvariant /\ Accounted /\ ResultParity /\ [Next]_vars
        => Accounted' /\ ResultParity'
  BY AccountedStep
<1> QED BY <1>1, <1>2, TypeCorrect, PTL DEF Spec

-----------------------------------------------------------------------------
(* Clearance, groups, flags and events.                                    *)
Preprocessing == {"policies", "gate", "approval", "groups"}
InGroups == {"group", "dispatch", "spawn", "collect"}

(* The strengthenings.  Bookkeeping: only prepared calls are dispatched,   *)
(* each once, and only dispatched calls have a task or a handle.           *)
Tracked ==
  /\ handles \subseteq dispatched /\ dispatched \subseteq prepared
  /\ \A c \in Calls : task[c] # "none" => c \in dispatched
  /\ pc = "spawn" => i \in prepared \ dispatched /\ groupOf[i] = group
  /\ pc # "done" => aborted = {}

(* ExecutionCleared: a prepared call has passed the policies and, where it *)
(* is gated, the approver; a call the walk has not reached was looked at   *)
(* with the arguments it still has.                                        *)
Cleared(c) ==
  /\ c \notin skipped /\ cleared[c] = args[c]
  /\ should_call_approval(c) => c \in granted
Judged(c) == c \in skipped \/ cleared[c] = args[c]
GatesCleared ==
  /\ \A c \in prepared : Cleared(c)
  /\ \A c \in executed : c \in prepared
  /\ pc = "policies" => prepared = {} /\ \A c \in Calls : c < i => Judged(c)
  /\ pc \in {"gate", "approval"} =>
       /\ \A c \in prepared : c < i
       /\ \A c \in Calls : i <= c => Judged(c)
  /\ pc = "approval" => i \notin skipped

(* GroupBarrier: no call of a later group has a task, and the calls of the *)
(* earlier groups are settled and joined.                                  *)
GroupsInOrder ==
  /\ pc \in InGroups \union {"grace"} =>
       /\ \A c \in prepared : groupOf[c] < group => Settled(c) /\ c \notin handles
       /\ \A c \in Calls : task[c] # "none" => groupOf[c] <= group
  /\ pc = "group" => \A c \in Calls : task[c] # "none" => groupOf[c] < group

(* InterruptEndsBatch: while a group runs, the task that raised a flag has *)
(* not been joined, and between groups no flag is up.                      *)
FlagsHeld ==
  /\ pc \in Preprocessing \union {"group"} => ~steerFlag /\ ~transferFlag
  /\ pc \in InGroups => \A c \in Calls : task[c] \in Abortable => c \in handles
  /\ pc \in InGroups /\ (steerFlag \/ transferFlag) =>
       \E c \in handles : task[c] \in {"returned", "ended", "done"}

(* CanonicalOrder: which events a call can have had so far, and so which   *)
(* it can still get.                                                       *)
Ordered(s) == \A m \in 1..(Len(s) - 1) : Rank(s[m]) < Rank(s[m + 1])
Only(s, E) == \A m \in 1..Len(s) : s[m] \in E
Occurs(s, e) == \E m \in 1..Len(s) : s[m] = e
Asked == {"Requested"}
Decided == {"Requested", "Approved", "Denied"}
Started == {"Requested", "Approved", "Denied", "Start"}
Unseen(c) == \/ pc = "policies"
             \/ pc = "gate" /\ i <= c
             \/ pc = "approval" /\ i < c
Ending(c) == \/ task[c] \in {"invalid", "spawned", "running", "returned"}
             \/ task[c] = "panicked" /\ c \in handles
InOrder(c) ==
  /\ Ordered(ev[c])
  /\ Unseen(c) => Only(ev[c], {})
  /\ pc = "approval" /\ c = i => Only(ev[c], Asked)
  /\ pc # "done" /\ c \in prepared \ dispatched => Only(ev[c], Decided)
  /\ Ending(c) => Only(ev[c], Started)
  /\ c \in prepared => ~Occurs(ev[c], "Denied")
  /\ Occurs(ev[c], "Start") => ~Occurs(ev[c], "Denied")
EventsInOrder == \A c \in Calls : InOrder(c)
LateStarts ==
  /\ lateStarts \in {0, 1}
  /\ lateStarts = 1 => cancelled /\ pc # "spawn"

DispatchSafe ==
  Tracked /\ GatesCleared /\ GroupsInOrder /\ FlagsHeld /\ EventsInOrder /\ LateStarts

(* Bookkeeping.                                                            *)
LEMMA TrackedStep ==
  ASSUME TypeInvariant, Accounted, DispatchSafe, [Next]_vars
  PROVE  Tracked'
<1>1. CASE PoliciesCancelled
  BY <1>1, BatchAssumption DEF DispatchSafe, PoliciesCancelled,
     build_aborted_outcome, Return, gateVars, groupVars, taskVars, Tracked,
     Calls, TypeInvariant, TypeGate, TypeGroup, TypeTask, Accounted,
     GatesAccounted
<1>2. CASE PoliciesPass
  BY <1>2, BatchAssumption DEF DispatchSafe, PoliciesPass, groupVars,
     taskVars, doneVars, Tracked, Calls, TypeInvariant, TypeGate, TypeGroup,
     TypeTask, Accounted, GatesAccounted
<1>3. CASE PoliciesStop
  BY <1>3, BatchAssumption DEF DispatchSafe, PoliciesStop,
     stopped_preprocess_outcome, Calls, Return, gateVars, groupVars, taskVars,
     Tracked, TypeInvariant, TypeGate, TypeGroup, TypeTask, Accounted,
     GatesAccounted
<1>4. CASE GateCancelled
  BY <1>4, BatchAssumption DEF DispatchSafe, GateCancelled,
     build_aborted_outcome, Return, gateVars, groupVars, taskVars, Tracked,
     Calls, TypeInvariant, TypeGate, TypeGroup, TypeTask, Accounted,
     GatesAccounted
<1>5. CASE GateSkipped
  BY <1>5, BatchAssumption DEF DispatchSafe, GateSkipped, emit_error_result,
     NextCall, groupVars, taskVars, doneVars, Tracked, Calls, TypeInvariant,
     TypeGate, TypeGroup, TypeTask, Accounted, GatesAccounted
<1>6. CASE GateOpen
  BY <1>6, BatchAssumption DEF DispatchSafe, GateOpen, should_call_approval,
     NextCall, groupVars, taskVars, doneVars, Tracked, Calls, TypeInvariant,
     TypeGate, TypeGroup, TypeTask, Accounted, GatesAccounted
<1>7. CASE RequestApproval
  BY <1>7, BatchAssumption DEF DispatchSafe, RequestApproval,
     should_call_approval, ReturnChannelClosed, Return, gateVars, groupVars,
     taskVars, Tracked, Calls, TypeInvariant, TypeGate, TypeGroup, TypeTask,
     Accounted, GatesAccounted
<1>8. CASE ApprovalCancelled
  BY <1>8, BatchAssumption DEF DispatchSafe, ApprovalCancelled,
     ReturnChannelClosed, Return, build_aborted_outcome, gateVars, groupVars,
     taskVars, Tracked, Calls, TypeInvariant, TypeGate, TypeGroup, TypeTask,
     Accounted, GatesAccounted
<1>9. CASE GroupsCancelled
  BY <1>9, BatchAssumption DEF DispatchSafe, GroupsCancelled,
     build_aborted_outcome, Return, gateVars, groupVars, taskVars, Tracked,
     Calls, TypeInvariant, TypeGate, TypeGroup, TypeTask, Accounted,
     GatesAccounted
<1>10. CASE NothingPrepared
  BY <1>10, BatchAssumption DEF DispatchSafe, NothingPrepared, Return,
     gateVars, groupVars, taskVars, Tracked, Calls, TypeInvariant, TypeGate,
     TypeGroup, TypeTask, Accounted, GatesAccounted
<1>11. CASE compute_execution_groups
  BY <1>11, BatchAssumption DEF DispatchSafe, compute_execution_groups, Calls,
     gateVars, taskVars, doneVars, Tracked, TypeInvariant, TypeGate,
     TypeGroup, TypeTask, Accounted, GatesAccounted
<1>12. CASE InvalidPartition
  BY <1>12, BatchAssumption DEF DispatchSafe, InvalidPartition, Calls, Return,
     gateVars, groupVars, taskVars, Tracked, TypeInvariant, TypeGate,
     TypeGroup, TypeTask, Accounted, GatesAccounted
<1>13. CASE BeginGroup
  BY <1>13, BatchAssumption DEF DispatchSafe, BeginGroup,
     build_aborted_outcome, Return, gateVars, groupVars, taskVars, Tracked,
     Calls, TypeInvariant, TypeGate, TypeGroup, TypeTask, Accounted,
     GatesAccounted
<1>14. CASE AllGroupsDone
  BY <1>14, BatchAssumption DEF DispatchSafe, AllGroupsDone, Return, gateVars,
     groupVars, taskVars, Tracked, Calls, TypeInvariant, TypeGate, TypeGroup,
     TypeTask, Accounted, GatesAccounted
<1>15. ASSUME NEW c \in Calls, CheckCancelled(c) PROVE Tracked'
  BY <1>15, BatchAssumption DEF DispatchSafe, CheckCancelled, NextToDispatch,
     Undispatched, groupVars, taskVars, Tracked, Calls, TypeInvariant,
     TypeGate, TypeGroup, TypeTask, Accounted, GatesAccounted
<1>16. CASE DispatchUnknown
  BY <1>16, BatchAssumption DEF DispatchSafe, DispatchUnknown,
     emit_error_result, gateVars, taskVars, doneVars, Tracked, Calls,
     TypeInvariant, TypeGate, TypeGroup, TypeTask, Accounted, GatesAccounted
<1>17. CASE DispatchInvalid
  BY <1>17, BatchAssumption DEF DispatchSafe, DispatchInvalid, gateVars,
     doneVars, Tracked, Calls, TypeInvariant, TypeGate, TypeGroup, TypeTask,
     Accounted, GatesAccounted
<1>18. CASE DispatchValid
  BY <1>18, BatchAssumption DEF DispatchSafe, DispatchValid, gateVars,
     doneVars, Tracked, Calls, TypeInvariant, TypeGate, TypeGroup, TypeTask,
     Accounted, GatesAccounted
<1>19. CASE DispatchUndelivered
  BY <1>19, BatchAssumption DEF DispatchSafe, DispatchUndelivered, gateVars,
     groupVars, taskVars, Tracked, Calls, TypeInvariant, TypeGate, TypeGroup,
     TypeTask, Accounted, GatesAccounted
<1>20. CASE GroupDispatched
  BY <1>20, BatchAssumption DEF DispatchSafe, GroupDispatched, Undispatched,
     gateVars, groupVars, taskVars, doneVars, Tracked, Calls, TypeInvariant,
     TypeGate, TypeGroup, TypeTask, Accounted, GatesAccounted
<1>21. CASE GroupCollected
  BY <1>21, BatchAssumption DEF DispatchSafe, GroupCollected, AllJoined,
     gateVars, taskVars, doneVars, Tracked, Calls, TypeInvariant, TypeGate,
     TypeGroup, TypeTask, Accounted, GatesAccounted
<1>22. CASE CollectCancelled
  BY <1>22, BatchAssumption DEF DispatchSafe, CollectCancelled, gateVars,
     groupVars, taskVars, Tracked, Calls, TypeInvariant, TypeGate, TypeGroup,
     TypeTask, Accounted, GatesAccounted
<1>23. ASSUME NEW c \in Calls, JoinPanicked(c) PROVE Tracked'
  BY <1>23, BatchAssumption DEF DispatchSafe, JoinPanicked, emit_error_result,
     gateVars, taskVars, doneVars, Tracked, Calls, TypeInvariant, TypeGate,
     TypeGroup, TypeTask, Accounted, GatesAccounted
<1>24. ASSUME NEW c \in Calls, JoinDone(c) PROVE Tracked'
  BY <1>24, BatchAssumption DEF DispatchSafe, JoinDone, Interrupt, gateVars,
     taskVars, Tracked, Calls, TypeInvariant, TypeGate, TypeGroup, TypeTask,
     Accounted, GatesAccounted
<1>25. CASE GraceOver
  BY <1>25, BatchAssumption DEF DispatchSafe, GraceOver, Finished,
     join_failures, Return, ReturnChannelClosed, gateVars, taskVars, Tracked,
     Calls, TypeInvariant, TypeGate, TypeGroup, TypeTask, Accounted,
     GatesAccounted
<1>26. CASE Approve
  BY <1>26, BatchAssumption DEF DispatchSafe, Approve, NextCall, groupVars,
     taskVars, doneVars, Tracked, Calls, TypeInvariant, TypeGate, TypeGroup,
     TypeTask, Accounted, GatesAccounted
<1>27. CASE ApproveWith
  BY <1>27, BatchAssumption DEF DispatchSafe, ApproveWith, NextCall,
     emit_error_result, stopped_preprocess_outcome, Calls, Return, groupVars,
     taskVars, Tracked, TypeInvariant, TypeGate, TypeGroup, TypeTask,
     Accounted, GatesAccounted
<1>28. CASE Reject
  BY <1>28, BatchAssumption DEF DispatchSafe, Reject, emit_error_result,
     NextCall, groupVars, taskVars, doneVars, Tracked, Calls, TypeInvariant,
     TypeGate, TypeGroup, TypeTask, Accounted, GatesAccounted
<1>29. CASE DecisionUndelivered
  BY <1>29, BatchAssumption DEF DispatchSafe, DecisionUndelivered,
     ReturnChannelClosed, Return, gateVars, groupVars, taskVars, Tracked,
     Calls, TypeInvariant, TypeGate, TypeGroup, TypeTask, Accounted,
     GatesAccounted
<1>30. ASSUME NEW c \in Calls, TaskFail(c) PROVE Tracked'
  BY <1>30, BatchAssumption DEF DispatchSafe, TaskFail, gateVars, groupVars,
     doneVars, Tracked, Calls, TypeInvariant, TypeGate, TypeGroup, TypeTask,
     Accounted, GatesAccounted
<1>31. ASSUME NEW c \in Calls, TaskExecute(c) PROVE Tracked'
  BY <1>31, BatchAssumption DEF DispatchSafe, TaskExecute, gateVars,
     groupVars, doneVars, Tracked, Calls, TypeInvariant, TypeGate, TypeGroup,
     TypeTask, Accounted, GatesAccounted
<1>32. ASSUME NEW c \in Calls, TaskReturn(c) PROVE Tracked'
  BY <1>32, BatchAssumption DEF DispatchSafe, TaskReturn, gateVars, groupVars,
     doneVars, Tracked, Calls, TypeInvariant, TypeGate, TypeGroup, TypeTask,
     Accounted, GatesAccounted
<1>33. ASSUME NEW c \in Calls, TaskPanic(c) PROVE Tracked'
  BY <1>33, BatchAssumption DEF DispatchSafe, TaskPanic, gateVars, groupVars,
     doneVars, Tracked, Calls, TypeInvariant, TypeGate, TypeGroup, TypeTask,
     Accounted, GatesAccounted
<1>34. ASSUME NEW c \in Calls, TaskEnd(c) PROVE Tracked'
  BY <1>34, BatchAssumption DEF DispatchSafe, TaskEnd, gateVars, groupVars,
     doneVars, Tracked, Calls, TypeInvariant, TypeGate, TypeGroup, TypeTask,
     Accounted, GatesAccounted
<1>35. ASSUME NEW c \in Calls, TaskPush(c) PROVE Tracked'
  BY <1>35, BatchAssumption DEF DispatchSafe, TaskPush, gateVars, groupVars,
     doneVars, Tracked, Calls, TypeInvariant, TypeGate, TypeGroup, TypeTask,
     Accounted, GatesAccounted
<1>36. ASSUME NEW c \in Calls, TaskKilled(c) PROVE Tracked'
  BY <1>36, BatchAssumption DEF DispatchSafe, TaskKilled, Abortable, gateVars,
     groupVars, doneVars, Tracked, Calls, TypeInvariant, TypeGate, TypeGroup,
     TypeTask, Accounted, GatesAccounted
<1>37. CASE Cancel
  BY <1>37 DEF DispatchSafe, Cancel, gateVars, groupVars, taskVars, doneVars,
     Tracked
<1>38. CASE Steer
  BY <1>38 DEF DispatchSafe, Steer, gateVars, groupVars, taskVars, doneVars,
     Tracked
<1>39. CASE DropReceiver
  BY <1>39 DEF DispatchSafe, DropReceiver, gateVars, groupVars, taskVars,
     doneVars, Tracked
<1>40. CASE UNCHANGED vars
  BY <1>40 DEF vars, DispatchSafe, Tracked
<1> QED BY <1>1, <1>2, <1>3, <1>4, <1>5, <1>6, <1>7, <1>8, <1>9, <1>10, <1>11,
   <1>12, <1>13, <1>14, <1>15, <1>16, <1>17, <1>18, <1>19, <1>20, <1>21,
   <1>22, <1>23, <1>24, <1>25, <1>26, <1>27, <1>28, <1>29, <1>30, <1>31,
   <1>32, <1>33, <1>34, <1>35, <1>36, <1>37, <1>38, <1>39, <1>40 DEF Next,
   Coordinator, Decision, TaskStep

(* The gates.                                                              *)
LEMMA ClearedStep ==
  ASSUME TypeInvariant, Accounted, DispatchSafe, [Next]_vars
  PROVE  GatesCleared'
<1>1. CASE PoliciesCancelled
  BY <1>1, BatchAssumption DEF DispatchSafe, PoliciesCancelled,
     build_aborted_outcome, Return, confVars, gateVars, taskVars,
     GatesCleared, Cleared, should_call_approval, Calls, Judged,
     TypeInvariant, TypeGate, TypeTask, Tracked
<1>2. CASE PoliciesPass
  <2>1. prepared = {} /\ executed = {} /\ UNCHANGED <<prepared, executed, args, mode>>
    BY <1>2 DEF PoliciesPass, DispatchSafe, GatesCleared, confVars, taskVars
  <2>2. \A c \in Calls : c <= i => Judged(c)'
    BY <1>2, <2>1, BatchAssumption DEF PoliciesPass, DispatchSafe, GatesCleared,
       Judged, Calls, TypeInvariant, TypeGate
  <2> QED BY <1>2, <2>1, <2>2, BatchAssumption DEF PoliciesPass, GatesCleared,
     Calls, TypeInvariant, TypeGate
<1>3. CASE PoliciesStop
  BY <1>3, BatchAssumption DEF DispatchSafe, PoliciesStop,
     stopped_preprocess_outcome, Calls, Return, confVars, gateVars, taskVars,
     GatesCleared, Cleared, should_call_approval, Judged, TypeInvariant,
     TypeGate, TypeTask, Tracked
<1>4. CASE GateCancelled
  BY <1>4, BatchAssumption DEF DispatchSafe, GateCancelled,
     build_aborted_outcome, Return, confVars, gateVars, taskVars,
     GatesCleared, Cleared, should_call_approval, Calls, Judged,
     TypeInvariant, TypeGate, TypeTask, Tracked
<1>5. CASE GateSkipped
  BY <1>5, BatchAssumption DEF DispatchSafe, GateSkipped, emit_error_result,
     NextCall, confVars, taskVars, GatesCleared, Cleared,
     should_call_approval, Calls, Judged, TypeInvariant, TypeGate, TypeTask,
     Tracked
<1>6. CASE GateOpen
  BY <1>6, BatchAssumption DEF DispatchSafe, GateOpen, should_call_approval,
     NextCall, confVars, taskVars, GatesCleared, Cleared, Calls, Judged,
     TypeInvariant, TypeGate, TypeTask, Tracked
<1>7. CASE RequestApproval
  BY <1>7, BatchAssumption DEF DispatchSafe, RequestApproval,
     should_call_approval, ReturnChannelClosed, Return, confVars, gateVars,
     taskVars, GatesCleared, Cleared, Calls, Judged, TypeInvariant, TypeGate,
     TypeTask, Tracked
<1>8. CASE ApprovalCancelled
  BY <1>8, BatchAssumption DEF DispatchSafe, ApprovalCancelled,
     ReturnChannelClosed, Return, build_aborted_outcome, confVars, gateVars,
     taskVars, GatesCleared, Cleared, should_call_approval, Calls, Judged,
     TypeInvariant, TypeGate, TypeTask, Tracked
<1>9. CASE GroupsCancelled
  BY <1>9, BatchAssumption DEF DispatchSafe, GroupsCancelled,
     build_aborted_outcome, Return, confVars, gateVars, taskVars,
     GatesCleared, Cleared, should_call_approval, Calls, Judged,
     TypeInvariant, TypeGate, TypeTask, Tracked
<1>10. CASE NothingPrepared
  BY <1>10, BatchAssumption DEF DispatchSafe, NothingPrepared, Return,
     confVars, gateVars, taskVars, GatesCleared, Cleared,
     should_call_approval, Calls, Judged, TypeInvariant, TypeGate, TypeTask,
     Tracked
<1>11. CASE compute_execution_groups
  BY <1>11, BatchAssumption DEF DispatchSafe, compute_execution_groups, Calls,
     confVars, gateVars, taskVars, GatesCleared, Cleared,
     should_call_approval, Judged, TypeInvariant, TypeGate, TypeTask, Tracked
<1>12. CASE InvalidPartition
  BY <1>12, BatchAssumption DEF DispatchSafe, InvalidPartition, Calls, Return,
     confVars, gateVars, taskVars, GatesCleared, Cleared,
     should_call_approval, Judged, TypeInvariant, TypeGate, TypeTask, Tracked
<1>13. CASE BeginGroup
  BY <1>13, BatchAssumption DEF DispatchSafe, BeginGroup,
     build_aborted_outcome, Return, confVars, gateVars, taskVars,
     GatesCleared, Cleared, should_call_approval, Calls, Judged,
     TypeInvariant, TypeGate, TypeTask, Tracked
<1>14. CASE AllGroupsDone
  BY <1>14, BatchAssumption DEF DispatchSafe, AllGroupsDone, Return, confVars,
     gateVars, taskVars, GatesCleared, Cleared, should_call_approval, Calls,
     Judged, TypeInvariant, TypeGate, TypeTask, Tracked
<1>15. ASSUME NEW c \in Calls, CheckCancelled(c) PROVE GatesCleared'
  BY <1>15, BatchAssumption DEF DispatchSafe, CheckCancelled, NextToDispatch,
     Undispatched, confVars, taskVars, GatesCleared, Cleared,
     should_call_approval, Calls, Judged, TypeInvariant, TypeGate, TypeTask,
     Tracked
<1>16. CASE DispatchUnknown
  BY <1>16, BatchAssumption DEF DispatchSafe, DispatchUnknown,
     emit_error_result, confVars, gateVars, taskVars, GatesCleared, Cleared,
     should_call_approval, Calls, Judged, TypeInvariant, TypeGate, TypeTask,
     Tracked
<1>17. CASE DispatchInvalid
  BY <1>17, BatchAssumption DEF DispatchSafe, DispatchInvalid, confVars,
     gateVars, GatesCleared, Cleared, should_call_approval, Calls, Judged,
     TypeInvariant, TypeGate, TypeTask, Tracked
<1>18. CASE DispatchValid
  BY <1>18, BatchAssumption DEF DispatchSafe, DispatchValid, confVars,
     gateVars, GatesCleared, Cleared, should_call_approval, Calls, Judged,
     TypeInvariant, TypeGate, TypeTask, Tracked
<1>19. CASE DispatchUndelivered
  BY <1>19, BatchAssumption DEF DispatchSafe, DispatchUndelivered, confVars,
     gateVars, taskVars, GatesCleared, Cleared, should_call_approval, Calls,
     Judged, TypeInvariant, TypeGate, TypeTask, Tracked
<1>20. CASE GroupDispatched
  BY <1>20, BatchAssumption DEF DispatchSafe, GroupDispatched, Undispatched,
     confVars, gateVars, taskVars, GatesCleared, Cleared,
     should_call_approval, Calls, Judged, TypeInvariant, TypeGate, TypeTask,
     Tracked
<1>21. CASE GroupCollected
  BY <1>21, BatchAssumption DEF DispatchSafe, GroupCollected, AllJoined,
     confVars, gateVars, taskVars, GatesCleared, Cleared,
     should_call_approval, Calls, Judged, TypeInvariant, TypeGate, TypeTask,
     Tracked
<1>22. CASE CollectCancelled
  BY <1>22, BatchAssumption DEF DispatchSafe, CollectCancelled, confVars,
     gateVars, taskVars, GatesCleared, Cleared, should_call_approval, Calls,
     Judged, TypeInvariant, TypeGate, TypeTask, Tracked
<1>23. ASSUME NEW c \in Calls, JoinPanicked(c) PROVE GatesCleared'
  BY <1>23 DEF DispatchSafe, JoinPanicked, confVars, gateVars, taskVars,
     GatesCleared, Cleared, should_call_approval, Judged
<1>24. ASSUME NEW c \in Calls, JoinDone(c) PROVE GatesCleared'
  BY <1>24, BatchAssumption DEF DispatchSafe, JoinDone, Interrupt, confVars,
     gateVars, taskVars, GatesCleared, Cleared, should_call_approval, Calls,
     Judged, TypeInvariant, TypeGate, TypeTask, Tracked
<1>25. CASE GraceOver
  BY <1>25, BatchAssumption DEF DispatchSafe, GraceOver, Finished,
     join_failures, Return, ReturnChannelClosed, confVars, gateVars, taskVars,
     GatesCleared, Cleared, should_call_approval, Calls, Judged,
     TypeInvariant, TypeGate, TypeTask, Tracked
<1>26. CASE Approve
  BY <1>26, BatchAssumption DEF DispatchSafe, Approve, NextCall, confVars,
     taskVars, GatesCleared, Cleared, should_call_approval, Calls, Judged,
     TypeInvariant, TypeGate, TypeTask, Tracked
<1>27. CASE ApproveWith
  <2>1. /\ pc = "approval" /\ i \notin prepared /\ i \in Calls
        /\ UNCHANGED <<mode, skipped, executed>>
        /\ granted' = granted \union {i} /\ args' = [args EXCEPT ![i] = "edited"]
    BY <1>27, BatchAssumption DEF ApproveWith, DispatchSafe, GatesCleared,
       confVars, taskVars, TypeInvariant, TypeGate, Calls
  <2>2. \A c \in prepared : Cleared(c)'
    BY <1>27, <2>1 DEF ApproveWith, DispatchSafe, GatesCleared, Cleared,
       should_call_approval, TypeInvariant, TypeGate
  <2>3. \A c \in Calls : i < c => Judged(c)'
    BY <1>27, <2>1, BatchAssumption DEF ApproveWith, DispatchSafe, GatesCleared,
       Judged, TypeInvariant, TypeGate, Calls
  <2>4. CASE prepared' = prepared \union {i} /\ cleared' = [cleared EXCEPT ![i] = "edited"]
             /\ NextCall
    <3>1. \A c \in prepared' : Cleared(c)'
      BY <2>1, <2>2, <2>4 DEF DispatchSafe, GatesCleared, Cleared,
         should_call_approval, TypeInvariant, TypeGate
    <3> QED BY <2>1, <2>3, <2>4, <3>1, BatchAssumption DEF DispatchSafe,
       GatesCleared, NextCall, TypeInvariant, TypeGate, Calls
  <2>5. CASE UNCHANGED prepared /\ NextCall
    BY <2>1, <2>2, <2>3, <2>5, BatchAssumption DEF DispatchSafe, GatesCleared,
       NextCall, TypeInvariant, TypeGate, Calls
  <2>6. CASE UNCHANGED prepared /\ pc' = "done"
    BY <2>1, <2>2, <2>6 DEF DispatchSafe, GatesCleared
  <2> QED BY <1>27, <2>4, <2>5, <2>6 DEF ApproveWith,
     stopped_preprocess_outcome, Return
<1>28. CASE Reject
  BY <1>28, BatchAssumption DEF DispatchSafe, Reject, emit_error_result,
     NextCall, confVars, taskVars, GatesCleared, Cleared,
     should_call_approval, Calls, Judged, TypeInvariant, TypeGate, TypeTask,
     Tracked
<1>29. CASE DecisionUndelivered
  BY <1>29, BatchAssumption DEF DispatchSafe, DecisionUndelivered,
     ReturnChannelClosed, Return, confVars, gateVars, taskVars, GatesCleared,
     Cleared, should_call_approval, Calls, Judged, TypeInvariant, TypeGate,
     TypeTask, Tracked
<1>30. ASSUME NEW c \in Calls, TaskFail(c) PROVE GatesCleared'
  BY <1>30 DEF DispatchSafe, TaskFail, confVars, gateVars, GatesCleared,
     Cleared, should_call_approval, Judged
<1>31. ASSUME NEW c \in Calls, TaskExecute(c) PROVE GatesCleared'
  BY <1>31, BatchAssumption DEF DispatchSafe, TaskExecute, confVars, gateVars,
     GatesCleared, Cleared, should_call_approval, Calls, Judged,
     TypeInvariant, TypeGate, TypeTask, Tracked
<1>32. ASSUME NEW c \in Calls, TaskReturn(c) PROVE GatesCleared'
  BY <1>32 DEF DispatchSafe, TaskReturn, confVars, gateVars, GatesCleared,
     Cleared, should_call_approval, Judged
<1>33. ASSUME NEW c \in Calls, TaskPanic(c) PROVE GatesCleared'
  BY <1>33 DEF DispatchSafe, TaskPanic, confVars, gateVars, GatesCleared,
     Cleared, should_call_approval, Judged
<1>34. ASSUME NEW c \in Calls, TaskEnd(c) PROVE GatesCleared'
  BY <1>34 DEF DispatchSafe, TaskEnd, confVars, gateVars, GatesCleared,
     Cleared, should_call_approval, Judged
<1>35. ASSUME NEW c \in Calls, TaskPush(c) PROVE GatesCleared'
  BY <1>35 DEF DispatchSafe, TaskPush, confVars, gateVars, GatesCleared,
     Cleared, should_call_approval, Judged
<1>36. ASSUME NEW c \in Calls, TaskKilled(c) PROVE GatesCleared'
  BY <1>36 DEF DispatchSafe, TaskKilled, confVars, gateVars, GatesCleared,
     Cleared, should_call_approval, Judged
<1>37. CASE Cancel
  BY <1>37 DEF DispatchSafe, Cancel, confVars, gateVars, taskVars,
     GatesCleared, Cleared, should_call_approval, Judged
<1>38. CASE Steer
  BY <1>38 DEF DispatchSafe, Steer, confVars, gateVars, taskVars,
     GatesCleared, Cleared, should_call_approval, Judged
<1>39. CASE DropReceiver
  BY <1>39 DEF DispatchSafe, DropReceiver, confVars, gateVars, taskVars,
     GatesCleared, Cleared, should_call_approval, Judged
<1>40. CASE UNCHANGED vars
  BY <1>40 DEF vars, DispatchSafe, GatesCleared, Cleared,
     should_call_approval, Judged
<1> QED BY <1>1, <1>2, <1>3, <1>4, <1>5, <1>6, <1>7, <1>8, <1>9, <1>10, <1>11,
   <1>12, <1>13, <1>14, <1>15, <1>16, <1>17, <1>18, <1>19, <1>20, <1>21,
   <1>22, <1>23, <1>24, <1>25, <1>26, <1>27, <1>28, <1>29, <1>30, <1>31,
   <1>32, <1>33, <1>34, <1>35, <1>36, <1>37, <1>38, <1>39, <1>40 DEF Next,
   Coordinator, Decision, TaskStep

(* The groups.                                                             *)
LEMMA GroupsStep ==
  ASSUME TypeInvariant, Accounted, DispatchSafe, [Next]_vars
  PROVE  GroupsInOrder'
<1>1. CASE PoliciesCancelled
  BY <1>1, BatchAssumption DEF DispatchSafe, PoliciesCancelled,
     build_aborted_outcome, Return, gateVars, groupVars, taskVars,
     GroupsInOrder, InGroups, Settled, Calls, TypeInvariant, TypeGate,
     TypeGroup, TypeTask, TypeOutcome, Table, Tracked, Accounted,
     GatesAccounted, GroupsAccounted, TasksAccounted
<1>2. CASE PoliciesPass
  BY <1>2, BatchAssumption DEF DispatchSafe, PoliciesPass, groupVars,
     taskVars, GroupsInOrder, InGroups, Settled, Calls, TypeInvariant,
     TypeGate, TypeGroup, TypeTask, TypeOutcome, Table, Tracked, Accounted,
     GatesAccounted, GroupsAccounted, TasksAccounted
<1>3. CASE PoliciesStop
  BY <1>3, BatchAssumption DEF DispatchSafe, PoliciesStop,
     stopped_preprocess_outcome, Calls, Return, gateVars, groupVars, taskVars,
     GroupsInOrder, InGroups, Settled, TypeInvariant, TypeGate, TypeGroup,
     TypeTask, TypeOutcome, Table, Tracked, Accounted, GatesAccounted,
     GroupsAccounted, TasksAccounted
<1>4. CASE GateCancelled
  BY <1>4, BatchAssumption DEF DispatchSafe, GateCancelled,
     build_aborted_outcome, Return, gateVars, groupVars, taskVars,
     GroupsInOrder, InGroups, Settled, Calls, TypeInvariant, TypeGate,
     TypeGroup, TypeTask, TypeOutcome, Table, Tracked, Accounted,
     GatesAccounted, GroupsAccounted, TasksAccounted
<1>5. CASE GateSkipped
  BY <1>5, BatchAssumption DEF DispatchSafe, GateSkipped, emit_error_result,
     NextCall, groupVars, taskVars, GroupsInOrder, InGroups, Settled, Calls,
     TypeInvariant, TypeGate, TypeGroup, TypeTask, TypeOutcome, Table,
     Tracked, Accounted, GatesAccounted, GroupsAccounted, TasksAccounted
<1>6. CASE GateOpen
  BY <1>6, BatchAssumption DEF DispatchSafe, GateOpen, should_call_approval,
     NextCall, groupVars, taskVars, GroupsInOrder, InGroups, Settled, Calls,
     TypeInvariant, TypeGate, TypeGroup, TypeTask, TypeOutcome, Table,
     Tracked, Accounted, GatesAccounted, GroupsAccounted, TasksAccounted
<1>7. CASE RequestApproval
  BY <1>7, BatchAssumption DEF DispatchSafe, RequestApproval,
     should_call_approval, ReturnChannelClosed, Return, gateVars, groupVars,
     taskVars, GroupsInOrder, InGroups, Settled, Calls, TypeInvariant,
     TypeGate, TypeGroup, TypeTask, TypeOutcome, Table, Tracked, Accounted,
     GatesAccounted, GroupsAccounted, TasksAccounted
<1>8. CASE ApprovalCancelled
  BY <1>8, BatchAssumption DEF DispatchSafe, ApprovalCancelled,
     ReturnChannelClosed, Return, build_aborted_outcome, gateVars, groupVars,
     taskVars, GroupsInOrder, InGroups, Settled, Calls, TypeInvariant,
     TypeGate, TypeGroup, TypeTask, TypeOutcome, Table, Tracked, Accounted,
     GatesAccounted, GroupsAccounted, TasksAccounted
<1>9. CASE GroupsCancelled
  BY <1>9, BatchAssumption DEF DispatchSafe, GroupsCancelled,
     build_aborted_outcome, Return, gateVars, groupVars, taskVars,
     GroupsInOrder, InGroups, Settled, Calls, TypeInvariant, TypeGate,
     TypeGroup, TypeTask, TypeOutcome, Table, Tracked, Accounted,
     GatesAccounted, GroupsAccounted, TasksAccounted
<1>10. CASE NothingPrepared
  BY <1>10, BatchAssumption DEF DispatchSafe, NothingPrepared, Return,
     gateVars, groupVars, taskVars, GroupsInOrder, InGroups, Settled, Calls,
     TypeInvariant, TypeGate, TypeGroup, TypeTask, TypeOutcome, Table,
     Tracked, Accounted, GatesAccounted, GroupsAccounted, TasksAccounted
<1>11. CASE compute_execution_groups
  <2>1. /\ pc = "groups" /\ pc' = "group" /\ group' = 1
        /\ UNCHANGED <<prepared, task>>
    BY <1>11 DEF compute_execution_groups, gateVars, taskVars
  <2>2. \A c \in Calls : task[c] = "none"
    BY <2>1 DEF DispatchSafe, Tracked, Accounted, GatesAccounted
  <2>3. \A c \in prepared : ~(groupOf'[c] < group')
    BY <1>11, <2>1, GroupsCover, GroupsType, BatchAssumption DEF TypeInvariant,
       TypeGate
  <2> QED BY <2>1, <2>2, <2>3 DEF GroupsInOrder
<1>12. CASE InvalidPartition
  BY <1>12, BatchAssumption DEF DispatchSafe, InvalidPartition, Calls, Return,
     gateVars, groupVars, taskVars, GroupsInOrder, InGroups, Settled,
     TypeInvariant, TypeGate, TypeGroup, TypeTask, TypeOutcome, Table,
     Tracked, Accounted, GatesAccounted, GroupsAccounted, TasksAccounted
<1>13. CASE BeginGroup
  BY <1>13, BatchAssumption DEF DispatchSafe, BeginGroup,
     build_aborted_outcome, Return, gateVars, groupVars, taskVars,
     GroupsInOrder, InGroups, Settled, Calls, TypeInvariant, TypeGate,
     TypeGroup, TypeTask, TypeOutcome, Table, Tracked, Accounted,
     GatesAccounted, GroupsAccounted, TasksAccounted
<1>14. CASE AllGroupsDone
  BY <1>14, BatchAssumption DEF DispatchSafe, AllGroupsDone, Return, gateVars,
     groupVars, taskVars, GroupsInOrder, InGroups, Settled, Calls,
     TypeInvariant, TypeGate, TypeGroup, TypeTask, TypeOutcome, Table,
     Tracked, Accounted, GatesAccounted, GroupsAccounted, TasksAccounted
<1>15. ASSUME NEW c \in Calls, CheckCancelled(c) PROVE GroupsInOrder'
  BY <1>15, BatchAssumption DEF DispatchSafe, CheckCancelled, NextToDispatch,
     Undispatched, groupVars, taskVars, GroupsInOrder, InGroups, Settled,
     Calls, TypeInvariant, TypeGate, TypeGroup, TypeTask, TypeOutcome, Table,
     Tracked, Accounted, GatesAccounted, GroupsAccounted, TasksAccounted
<1>16. CASE DispatchUnknown
  BY <1>16, BatchAssumption DEF DispatchSafe, DispatchUnknown,
     emit_error_result, gateVars, taskVars, GroupsInOrder, InGroups, Settled,
     Calls, TypeInvariant, TypeGate, TypeGroup, TypeTask, TypeOutcome, Table,
     Tracked, Accounted, GatesAccounted, GroupsAccounted, TasksAccounted
<1>17. CASE DispatchInvalid
  BY <1>17, BatchAssumption DEF DispatchSafe, DispatchInvalid, gateVars,
     GroupsInOrder, InGroups, Settled, Calls, TypeInvariant, TypeGate,
     TypeGroup, TypeTask, TypeOutcome, Table, Tracked, Accounted,
     GatesAccounted, GroupsAccounted, TasksAccounted
<1>18. CASE DispatchValid
  BY <1>18, BatchAssumption DEF DispatchSafe, DispatchValid, gateVars,
     GroupsInOrder, InGroups, Settled, Calls, TypeInvariant, TypeGate,
     TypeGroup, TypeTask, TypeOutcome, Table, Tracked, Accounted,
     GatesAccounted, GroupsAccounted, TasksAccounted
<1>19. CASE DispatchUndelivered
  BY <1>19, BatchAssumption DEF DispatchSafe, DispatchUndelivered, gateVars,
     groupVars, taskVars, GroupsInOrder, InGroups, Settled, Calls,
     TypeInvariant, TypeGate, TypeGroup, TypeTask, TypeOutcome, Table,
     Tracked, Accounted, GatesAccounted, GroupsAccounted, TasksAccounted
<1>20. CASE GroupDispatched
  BY <1>20, BatchAssumption DEF DispatchSafe, GroupDispatched, Undispatched,
     gateVars, groupVars, taskVars, GroupsInOrder, InGroups, Settled, Calls,
     TypeInvariant, TypeGate, TypeGroup, TypeTask, TypeOutcome, Table,
     Tracked, Accounted, GatesAccounted, GroupsAccounted, TasksAccounted
<1>21. CASE GroupCollected
  BY <1>21, BatchAssumption DEF DispatchSafe, GroupCollected, AllJoined,
     gateVars, taskVars, GroupsInOrder, InGroups, Settled, Calls,
     TypeInvariant, TypeGate, TypeGroup, TypeTask, TypeOutcome, Table,
     Tracked, Accounted, GatesAccounted, GroupsAccounted, TasksAccounted
<1>22. CASE CollectCancelled
  BY <1>22, BatchAssumption DEF DispatchSafe, CollectCancelled, gateVars,
     groupVars, taskVars, GroupsInOrder, InGroups, Settled, Calls,
     TypeInvariant, TypeGate, TypeGroup, TypeTask, TypeOutcome, Table,
     Tracked, Accounted, GatesAccounted, GroupsAccounted, TasksAccounted
<1>23. ASSUME NEW c \in Calls, JoinPanicked(c) PROVE GroupsInOrder'
  BY <1>23, BatchAssumption DEF DispatchSafe, JoinPanicked, emit_error_result,
     gateVars, taskVars, GroupsInOrder, InGroups, Settled, Calls,
     TypeInvariant, TypeGate, TypeGroup, TypeTask, TypeOutcome, Table,
     Tracked, Accounted, GatesAccounted, GroupsAccounted, TasksAccounted
<1>24. ASSUME NEW c \in Calls, JoinDone(c) PROVE GroupsInOrder'
  BY <1>24, BatchAssumption DEF DispatchSafe, JoinDone, Interrupt, gateVars,
     taskVars, GroupsInOrder, InGroups, Settled, Calls, TypeInvariant,
     TypeGate, TypeGroup, TypeTask, TypeOutcome, Table, Tracked, Accounted,
     GatesAccounted, GroupsAccounted, TasksAccounted
<1>25. CASE GraceOver
  BY <1>25, BatchAssumption DEF DispatchSafe, GraceOver, Finished,
     join_failures, Return, ReturnChannelClosed, gateVars, taskVars,
     GroupsInOrder, InGroups, Settled, Calls, TypeInvariant, TypeGate,
     TypeGroup, TypeTask, TypeOutcome, Table, Tracked, Accounted,
     GatesAccounted, GroupsAccounted, TasksAccounted
<1>26. CASE Approve
  BY <1>26, BatchAssumption DEF DispatchSafe, Approve, NextCall, groupVars,
     taskVars, GroupsInOrder, InGroups, Settled, Calls, TypeInvariant,
     TypeGate, TypeGroup, TypeTask, TypeOutcome, Table, Tracked, Accounted,
     GatesAccounted, GroupsAccounted, TasksAccounted
<1>27. CASE ApproveWith
  BY <1>27, BatchAssumption DEF DispatchSafe, ApproveWith, NextCall,
     emit_error_result, stopped_preprocess_outcome, Calls, Return, groupVars,
     taskVars, GroupsInOrder, InGroups, Settled, TypeInvariant, TypeGate,
     TypeGroup, TypeTask, TypeOutcome, Table, Tracked, Accounted,
     GatesAccounted, GroupsAccounted, TasksAccounted
<1>28. CASE Reject
  BY <1>28, BatchAssumption DEF DispatchSafe, Reject, emit_error_result,
     NextCall, groupVars, taskVars, GroupsInOrder, InGroups, Settled, Calls,
     TypeInvariant, TypeGate, TypeGroup, TypeTask, TypeOutcome, Table,
     Tracked, Accounted, GatesAccounted, GroupsAccounted, TasksAccounted
<1>29. CASE DecisionUndelivered
  BY <1>29, BatchAssumption DEF DispatchSafe, DecisionUndelivered,
     ReturnChannelClosed, Return, gateVars, groupVars, taskVars,
     GroupsInOrder, InGroups, Settled, Calls, TypeInvariant, TypeGate,
     TypeGroup, TypeTask, TypeOutcome, Table, Tracked, Accounted,
     GatesAccounted, GroupsAccounted, TasksAccounted
<1>30. ASSUME NEW c \in Calls, TaskFail(c) PROVE GroupsInOrder'
  BY <1>30, BatchAssumption DEF DispatchSafe, TaskFail, gateVars, groupVars,
     GroupsInOrder, InGroups, Settled, Calls, TypeInvariant, TypeGate,
     TypeGroup, TypeTask, TypeOutcome, Table, Tracked, Accounted,
     GatesAccounted, GroupsAccounted, TasksAccounted
<1>31. ASSUME NEW c \in Calls, TaskExecute(c) PROVE GroupsInOrder'
  BY <1>31, BatchAssumption DEF DispatchSafe, TaskExecute, gateVars,
     groupVars, GroupsInOrder, InGroups, Settled, Calls, TypeInvariant,
     TypeGate, TypeGroup, TypeTask, TypeOutcome, Table, Tracked, Accounted,
     GatesAccounted, GroupsAccounted, TasksAccounted
<1>32. ASSUME NEW c \in Calls, TaskReturn(c) PROVE GroupsInOrder'
  BY <1>32, BatchAssumption DEF DispatchSafe, TaskReturn, gateVars, groupVars,
     GroupsInOrder, InGroups, Settled, Calls, TypeInvariant, TypeGate,
     TypeGroup, TypeTask, TypeOutcome, Table, Tracked, Accounted,
     GatesAccounted, GroupsAccounted, TasksAccounted
<1>33. ASSUME NEW c \in Calls, TaskPanic(c) PROVE GroupsInOrder'
  BY <1>33, BatchAssumption DEF DispatchSafe, TaskPanic, gateVars, groupVars,
     GroupsInOrder, InGroups, Settled, Calls, TypeInvariant, TypeGate,
     TypeGroup, TypeTask, TypeOutcome, Table, Tracked, Accounted,
     GatesAccounted, GroupsAccounted, TasksAccounted
<1>34. ASSUME NEW c \in Calls, TaskEnd(c) PROVE GroupsInOrder'
  BY <1>34, BatchAssumption DEF DispatchSafe, TaskEnd, gateVars, groupVars,
     GroupsInOrder, InGroups, Settled, Calls, TypeInvariant, TypeGate,
     TypeGroup, TypeTask, TypeOutcome, Table, Tracked, Accounted,
     GatesAccounted, GroupsAccounted, TasksAccounted
<1>35. ASSUME NEW c \in Calls, TaskPush(c) PROVE GroupsInOrder'
  BY <1>35, BatchAssumption DEF DispatchSafe, TaskPush, gateVars, groupVars,
     GroupsInOrder, InGroups, Settled, Calls, TypeInvariant, TypeGate,
     TypeGroup, TypeTask, TypeOutcome, Table, Tracked, Accounted,
     GatesAccounted, GroupsAccounted, TasksAccounted
<1>36. ASSUME NEW c \in Calls, TaskKilled(c) PROVE GroupsInOrder'
  BY <1>36, BatchAssumption DEF DispatchSafe, TaskKilled, Abortable, gateVars,
     groupVars, GroupsInOrder, InGroups, Settled, Calls, TypeInvariant,
     TypeGate, TypeGroup, TypeTask, TypeOutcome, Table, Tracked, Accounted,
     GatesAccounted, GroupsAccounted, TasksAccounted
<1>37. CASE Cancel
  BY <1>37 DEF DispatchSafe, Cancel, gateVars, groupVars, taskVars,
     GroupsInOrder, Settled
<1>38. CASE Steer
  BY <1>38 DEF DispatchSafe, Steer, gateVars, groupVars, taskVars,
     GroupsInOrder, Settled
<1>39. CASE DropReceiver
  BY <1>39 DEF DispatchSafe, DropReceiver, gateVars, groupVars, taskVars,
     GroupsInOrder, Settled
<1>40. CASE UNCHANGED vars
  BY <1>40 DEF vars, DispatchSafe, GroupsInOrder, Settled
<1> QED BY <1>1, <1>2, <1>3, <1>4, <1>5, <1>6, <1>7, <1>8, <1>9, <1>10, <1>11,
   <1>12, <1>13, <1>14, <1>15, <1>16, <1>17, <1>18, <1>19, <1>20, <1>21,
   <1>22, <1>23, <1>24, <1>25, <1>26, <1>27, <1>28, <1>29, <1>30, <1>31,
   <1>32, <1>33, <1>34, <1>35, <1>36, <1>37, <1>38, <1>39, <1>40 DEF Next,
   Coordinator, Decision, TaskStep

(* The flags.                                                              *)
LEMMA FlagsStep ==
  ASSUME TypeInvariant, Accounted, DispatchSafe, [Next]_vars
  PROVE  FlagsHeld'
<1>1. CASE PoliciesCancelled
  BY <1>1, BatchAssumption DEF DispatchSafe, PoliciesCancelled,
     build_aborted_outcome, Return, groupVars, taskVars, flagVars, FlagsHeld,
     Preprocessing, InGroups, Calls, Abortable, TypeInvariant, TypeGroup,
     TypeTask, Tracked, Accounted, GatesAccounted, GroupsAccounted
<1>2. CASE PoliciesPass
  BY <1>2, BatchAssumption DEF DispatchSafe, PoliciesPass, groupVars,
     taskVars, flagVars, FlagsHeld, Preprocessing, InGroups, Calls, Abortable,
     TypeInvariant, TypeGroup, TypeTask, Tracked, Accounted, GatesAccounted,
     GroupsAccounted
<1>3. CASE PoliciesStop
  BY <1>3, BatchAssumption DEF DispatchSafe, PoliciesStop,
     stopped_preprocess_outcome, Calls, Return, groupVars, taskVars, flagVars,
     FlagsHeld, Preprocessing, InGroups, Abortable, TypeInvariant, TypeGroup,
     TypeTask, Tracked, Accounted, GatesAccounted, GroupsAccounted
<1>4. CASE GateCancelled
  BY <1>4, BatchAssumption DEF DispatchSafe, GateCancelled,
     build_aborted_outcome, Return, groupVars, taskVars, flagVars, FlagsHeld,
     Preprocessing, InGroups, Calls, Abortable, TypeInvariant, TypeGroup,
     TypeTask, Tracked, Accounted, GatesAccounted, GroupsAccounted
<1>5. CASE GateSkipped
  BY <1>5, BatchAssumption DEF DispatchSafe, GateSkipped, emit_error_result,
     NextCall, groupVars, taskVars, flagVars, FlagsHeld, Preprocessing,
     InGroups, Calls, Abortable, TypeInvariant, TypeGroup, TypeTask, Tracked,
     Accounted, GatesAccounted, GroupsAccounted
<1>6. CASE GateOpen
  BY <1>6, BatchAssumption DEF DispatchSafe, GateOpen, should_call_approval,
     NextCall, groupVars, taskVars, flagVars, FlagsHeld, Preprocessing,
     InGroups, Calls, Abortable, TypeInvariant, TypeGroup, TypeTask, Tracked,
     Accounted, GatesAccounted, GroupsAccounted
<1>7. CASE RequestApproval
  BY <1>7, BatchAssumption DEF DispatchSafe, RequestApproval,
     should_call_approval, ReturnChannelClosed, Return, groupVars, taskVars,
     flagVars, FlagsHeld, Preprocessing, InGroups, Calls, Abortable,
     TypeInvariant, TypeGroup, TypeTask, Tracked, Accounted, GatesAccounted,
     GroupsAccounted
<1>8. CASE ApprovalCancelled
  BY <1>8, BatchAssumption DEF DispatchSafe, ApprovalCancelled,
     ReturnChannelClosed, Return, build_aborted_outcome, groupVars, taskVars,
     flagVars, FlagsHeld, Preprocessing, InGroups, Calls, Abortable,
     TypeInvariant, TypeGroup, TypeTask, Tracked, Accounted, GatesAccounted,
     GroupsAccounted
<1>9. CASE GroupsCancelled
  BY <1>9, BatchAssumption DEF DispatchSafe, GroupsCancelled,
     build_aborted_outcome, Return, groupVars, taskVars, flagVars, FlagsHeld,
     Preprocessing, InGroups, Calls, Abortable, TypeInvariant, TypeGroup,
     TypeTask, Tracked, Accounted, GatesAccounted, GroupsAccounted
<1>10. CASE NothingPrepared
  BY <1>10, BatchAssumption DEF DispatchSafe, NothingPrepared, Return,
     groupVars, taskVars, flagVars, FlagsHeld, Preprocessing, InGroups, Calls,
     Abortable, TypeInvariant, TypeGroup, TypeTask, Tracked, Accounted,
     GatesAccounted, GroupsAccounted
<1>11. CASE compute_execution_groups
  BY <1>11, BatchAssumption DEF DispatchSafe, compute_execution_groups, Calls,
     taskVars, flagVars, FlagsHeld, Preprocessing, InGroups, Abortable,
     TypeInvariant, TypeGroup, TypeTask, Tracked, Accounted, GatesAccounted,
     GroupsAccounted
<1>12. CASE InvalidPartition
  BY <1>12, BatchAssumption DEF DispatchSafe, InvalidPartition, Calls, Return,
     groupVars, taskVars, flagVars, FlagsHeld, Preprocessing, InGroups,
     Abortable, TypeInvariant, TypeGroup, TypeTask, Tracked, Accounted,
     GatesAccounted, GroupsAccounted
<1>13. CASE BeginGroup
  BY <1>13, BatchAssumption DEF DispatchSafe, BeginGroup,
     build_aborted_outcome, Return, groupVars, taskVars, flagVars, FlagsHeld,
     Preprocessing, InGroups, Calls, Abortable, TypeInvariant, TypeGroup,
     TypeTask, Tracked, Accounted, GatesAccounted, GroupsAccounted
<1>14. CASE AllGroupsDone
  BY <1>14, BatchAssumption DEF DispatchSafe, AllGroupsDone, Return,
     groupVars, taskVars, flagVars, FlagsHeld, Preprocessing, InGroups, Calls,
     Abortable, TypeInvariant, TypeGroup, TypeTask, Tracked, Accounted,
     GatesAccounted, GroupsAccounted
<1>15. ASSUME NEW c \in Calls, CheckCancelled(c) PROVE FlagsHeld'
  BY <1>15, BatchAssumption DEF DispatchSafe, CheckCancelled, NextToDispatch,
     Undispatched, groupVars, taskVars, flagVars, FlagsHeld, Preprocessing,
     InGroups, Calls, Abortable, TypeInvariant, TypeGroup, TypeTask, Tracked,
     Accounted, GatesAccounted, GroupsAccounted
<1>16. CASE DispatchUnknown
  BY <1>16, BatchAssumption DEF DispatchSafe, DispatchUnknown,
     emit_error_result, taskVars, flagVars, FlagsHeld, Preprocessing,
     InGroups, Calls, Abortable, TypeInvariant, TypeGroup, TypeTask, Tracked,
     Accounted, GatesAccounted, GroupsAccounted
<1>17. CASE DispatchInvalid
  BY <1>17, BatchAssumption DEF DispatchSafe, DispatchInvalid, flagVars,
     FlagsHeld, Preprocessing, InGroups, Calls, Abortable, TypeInvariant,
     TypeGroup, TypeTask, Tracked, Accounted, GatesAccounted, GroupsAccounted
<1>18. CASE DispatchValid
  BY <1>18, BatchAssumption DEF DispatchSafe, DispatchValid, flagVars,
     FlagsHeld, Preprocessing, InGroups, Calls, Abortable, TypeInvariant,
     TypeGroup, TypeTask, Tracked, Accounted, GatesAccounted, GroupsAccounted
<1>19. CASE DispatchUndelivered
  BY <1>19, BatchAssumption DEF DispatchSafe, DispatchUndelivered, groupVars,
     taskVars, flagVars, FlagsHeld, Preprocessing, InGroups, Calls, Abortable,
     TypeInvariant, TypeGroup, TypeTask, Tracked, Accounted, GatesAccounted,
     GroupsAccounted
<1>20. CASE GroupDispatched
  BY <1>20, BatchAssumption DEF DispatchSafe, GroupDispatched, Undispatched,
     groupVars, taskVars, flagVars, FlagsHeld, Preprocessing, InGroups, Calls,
     Abortable, TypeInvariant, TypeGroup, TypeTask, Tracked, Accounted,
     GatesAccounted, GroupsAccounted
<1>21. CASE GroupCollected
  BY <1>21, BatchAssumption DEF DispatchSafe, GroupCollected, AllJoined,
     taskVars, flagVars, FlagsHeld, Preprocessing, InGroups, Calls, Abortable,
     TypeInvariant, TypeGroup, TypeTask, Tracked, Accounted, GatesAccounted,
     GroupsAccounted
<1>22. CASE CollectCancelled
  BY <1>22, BatchAssumption DEF DispatchSafe, CollectCancelled, groupVars,
     taskVars, flagVars, FlagsHeld, Preprocessing, InGroups, Calls, Abortable,
     TypeInvariant, TypeGroup, TypeTask, Tracked, Accounted, GatesAccounted,
     GroupsAccounted
<1>23. ASSUME NEW c \in Calls, JoinPanicked(c) PROVE FlagsHeld'
  BY <1>23, BatchAssumption DEF DispatchSafe, JoinPanicked, emit_error_result,
     taskVars, flagVars, FlagsHeld, Preprocessing, InGroups, Calls, Abortable,
     TypeInvariant, TypeGroup, TypeTask, Tracked, Accounted, GatesAccounted,
     GroupsAccounted
<1>24. ASSUME NEW c \in Calls, JoinDone(c) PROVE FlagsHeld'
  BY <1>24, BatchAssumption DEF DispatchSafe, JoinDone, Interrupt, taskVars,
     flagVars, FlagsHeld, Preprocessing, InGroups, Calls, Abortable,
     TypeInvariant, TypeGroup, TypeTask, Tracked, Accounted, GatesAccounted,
     GroupsAccounted
<1>25. CASE GraceOver
  BY <1>25, BatchAssumption DEF DispatchSafe, GraceOver, Finished,
     join_failures, Return, ReturnChannelClosed, taskVars, flagVars,
     FlagsHeld, Preprocessing, InGroups, Calls, Abortable, TypeInvariant,
     TypeGroup, TypeTask, Tracked, Accounted, GatesAccounted, GroupsAccounted
<1>26. CASE Approve
  BY <1>26, BatchAssumption DEF DispatchSafe, Approve, NextCall, groupVars,
     taskVars, flagVars, FlagsHeld, Preprocessing, InGroups, Calls, Abortable,
     TypeInvariant, TypeGroup, TypeTask, Tracked, Accounted, GatesAccounted,
     GroupsAccounted
<1>27. CASE ApproveWith
  BY <1>27, BatchAssumption DEF DispatchSafe, ApproveWith, NextCall,
     emit_error_result, stopped_preprocess_outcome, Calls, Return, groupVars,
     taskVars, flagVars, FlagsHeld, Preprocessing, InGroups, Abortable,
     TypeInvariant, TypeGroup, TypeTask, Tracked, Accounted, GatesAccounted,
     GroupsAccounted
<1>28. CASE Reject
  BY <1>28, BatchAssumption DEF DispatchSafe, Reject, emit_error_result,
     NextCall, groupVars, taskVars, flagVars, FlagsHeld, Preprocessing,
     InGroups, Calls, Abortable, TypeInvariant, TypeGroup, TypeTask, Tracked,
     Accounted, GatesAccounted, GroupsAccounted
<1>29. CASE DecisionUndelivered
  BY <1>29, BatchAssumption DEF DispatchSafe, DecisionUndelivered,
     ReturnChannelClosed, Return, groupVars, taskVars, flagVars, FlagsHeld,
     Preprocessing, InGroups, Calls, Abortable, TypeInvariant, TypeGroup,
     TypeTask, Tracked, Accounted, GatesAccounted, GroupsAccounted
<1>30. ASSUME NEW c \in Calls, TaskFail(c) PROVE FlagsHeld'
  BY <1>30, BatchAssumption DEF DispatchSafe, TaskFail, groupVars, flagVars,
     FlagsHeld, Preprocessing, InGroups, Calls, Abortable, TypeInvariant,
     TypeGroup, TypeTask, Tracked, Accounted, GatesAccounted, GroupsAccounted
<1>31. ASSUME NEW c \in Calls, TaskExecute(c) PROVE FlagsHeld'
  BY <1>31, BatchAssumption DEF DispatchSafe, TaskExecute, groupVars,
     flagVars, FlagsHeld, Preprocessing, InGroups, Calls, Abortable,
     TypeInvariant, TypeGroup, TypeTask, Tracked, Accounted, GatesAccounted,
     GroupsAccounted
<1>32. ASSUME NEW c \in Calls, TaskReturn(c) PROVE FlagsHeld'
  BY <1>32, BatchAssumption DEF DispatchSafe, TaskReturn, groupVars,
     FlagsHeld, Preprocessing, InGroups, Calls, Abortable, TypeInvariant,
     TypeGroup, TypeTask, Tracked, Accounted, GatesAccounted, GroupsAccounted
<1>33. ASSUME NEW c \in Calls, TaskPanic(c) PROVE FlagsHeld'
  BY <1>33, BatchAssumption DEF DispatchSafe, TaskPanic, groupVars, flagVars,
     FlagsHeld, Preprocessing, InGroups, Calls, Abortable, TypeInvariant,
     TypeGroup, TypeTask, Tracked, Accounted, GatesAccounted, GroupsAccounted
<1>34. ASSUME NEW c \in Calls, TaskEnd(c) PROVE FlagsHeld'
  BY <1>34, BatchAssumption DEF DispatchSafe, TaskEnd, groupVars, flagVars,
     FlagsHeld, Preprocessing, InGroups, Calls, Abortable, TypeInvariant,
     TypeGroup, TypeTask, Tracked, Accounted, GatesAccounted, GroupsAccounted
<1>35. ASSUME NEW c \in Calls, TaskPush(c) PROVE FlagsHeld'
  BY <1>35, BatchAssumption DEF DispatchSafe, TaskPush, groupVars, FlagsHeld,
     Preprocessing, InGroups, Calls, Abortable, TypeInvariant, TypeGroup,
     TypeTask, Tracked, Accounted, GatesAccounted, GroupsAccounted
<1>36. ASSUME NEW c \in Calls, TaskKilled(c) PROVE FlagsHeld'
  BY <1>36, BatchAssumption DEF DispatchSafe, TaskKilled, Abortable,
     groupVars, flagVars, FlagsHeld, Preprocessing, InGroups, Calls,
     TypeInvariant, TypeGroup, TypeTask, Tracked, Accounted, GatesAccounted,
     GroupsAccounted
<1>37. CASE Cancel
  BY <1>37 DEF DispatchSafe, Cancel, groupVars, taskVars, flagVars, FlagsHeld
<1>38. CASE Steer
  BY <1>38 DEF DispatchSafe, Steer, groupVars, taskVars, flagVars, FlagsHeld
<1>39. CASE DropReceiver
  BY <1>39 DEF DispatchSafe, DropReceiver, groupVars, taskVars, flagVars,
     FlagsHeld
<1>40. CASE UNCHANGED vars
  BY <1>40 DEF vars, DispatchSafe, FlagsHeld
<1> QED BY <1>1, <1>2, <1>3, <1>4, <1>5, <1>6, <1>7, <1>8, <1>9, <1>10, <1>11,
   <1>12, <1>13, <1>14, <1>15, <1>16, <1>17, <1>18, <1>19, <1>20, <1>21,
   <1>22, <1>23, <1>24, <1>25, <1>26, <1>27, <1>28, <1>29, <1>30, <1>31,
   <1>32, <1>33, <1>34, <1>35, <1>36, <1>37, <1>38, <1>39, <1>40 DEF Next,
   Coordinator, Decision, TaskStep

(* The starts after a cancellation.                                        *)
LEMMA LateStartsStep ==
  ASSUME TypeInvariant, Accounted, DispatchSafe, [Next]_vars
  PROVE  LateStarts'
<1>1. CASE PoliciesCancelled
  BY <1>1, BatchAssumption DEF DispatchSafe, PoliciesCancelled,
     build_aborted_outcome, Return, envVars, LateStarts, TypeInvariant,
     TypeEvents
<1>2. CASE PoliciesPass
  BY <1>2, BatchAssumption DEF DispatchSafe, PoliciesPass, envVars,
     LateStarts, TypeInvariant, TypeEvents
<1>3. CASE PoliciesStop
  BY <1>3, BatchAssumption DEF DispatchSafe, PoliciesStop,
     stopped_preprocess_outcome, Calls, Return, envVars, LateStarts,
     TypeInvariant, TypeEvents
<1>4. CASE GateCancelled
  BY <1>4, BatchAssumption DEF DispatchSafe, GateCancelled,
     build_aborted_outcome, Return, envVars, LateStarts, TypeInvariant,
     TypeEvents
<1>5. CASE GateSkipped
  BY <1>5, BatchAssumption DEF DispatchSafe, GateSkipped, emit_error_result,
     NextCall, envVars, LateStarts, TypeInvariant, TypeEvents
<1>6. CASE GateOpen
  BY <1>6, BatchAssumption DEF DispatchSafe, GateOpen, should_call_approval,
     NextCall, envVars, LateStarts, TypeInvariant, TypeEvents
<1>7. CASE RequestApproval
  BY <1>7, BatchAssumption DEF DispatchSafe, RequestApproval,
     should_call_approval, ReturnChannelClosed, Return, envVars, LateStarts,
     TypeInvariant, TypeEvents
<1>8. CASE ApprovalCancelled
  BY <1>8, BatchAssumption DEF DispatchSafe, ApprovalCancelled,
     ReturnChannelClosed, Return, build_aborted_outcome, envVars, LateStarts,
     TypeInvariant, TypeEvents
<1>9. CASE GroupsCancelled
  BY <1>9, BatchAssumption DEF DispatchSafe, GroupsCancelled,
     build_aborted_outcome, Return, envVars, LateStarts, TypeInvariant,
     TypeEvents
<1>10. CASE NothingPrepared
  BY <1>10, BatchAssumption DEF DispatchSafe, NothingPrepared, Return,
     envVars, LateStarts, TypeInvariant, TypeEvents
<1>11. CASE compute_execution_groups
  BY <1>11, BatchAssumption DEF DispatchSafe, compute_execution_groups, Calls,
     envVars, LateStarts, TypeInvariant, TypeEvents
<1>12. CASE InvalidPartition
  BY <1>12, BatchAssumption DEF DispatchSafe, InvalidPartition, Calls, Return,
     envVars, LateStarts, TypeInvariant, TypeEvents
<1>13. CASE BeginGroup
  BY <1>13, BatchAssumption DEF DispatchSafe, BeginGroup,
     build_aborted_outcome, Return, envVars, LateStarts, TypeInvariant,
     TypeEvents
<1>14. CASE AllGroupsDone
  BY <1>14, BatchAssumption DEF DispatchSafe, AllGroupsDone, Return, envVars,
     LateStarts, TypeInvariant, TypeEvents
<1>15. ASSUME NEW c \in Calls, CheckCancelled(c) PROVE LateStarts'
  BY <1>15, BatchAssumption DEF DispatchSafe, CheckCancelled, NextToDispatch,
     Undispatched, envVars, LateStarts, TypeInvariant, TypeEvents
<1>16. CASE DispatchUnknown
  BY <1>16, BatchAssumption DEF DispatchSafe, DispatchUnknown,
     emit_error_result, envVars, LateStarts, TypeInvariant, TypeEvents
<1>17. CASE DispatchInvalid
  BY <1>17, BatchAssumption DEF DispatchSafe, DispatchInvalid, envVars,
     LateStarts, TypeInvariant, TypeEvents
<1>18. CASE DispatchValid
  BY <1>18, BatchAssumption DEF DispatchSafe, DispatchValid, envVars,
     LateStarts, TypeInvariant, TypeEvents
<1>19. CASE DispatchUndelivered
  BY <1>19, BatchAssumption DEF DispatchSafe, DispatchUndelivered, LateStarts,
     TypeInvariant, TypeEvents
<1>20. CASE GroupDispatched
  BY <1>20, BatchAssumption DEF DispatchSafe, GroupDispatched, Undispatched,
     envVars, LateStarts, TypeInvariant, TypeEvents
<1>21. CASE GroupCollected
  BY <1>21, BatchAssumption DEF DispatchSafe, GroupCollected, AllJoined,
     envVars, LateStarts, TypeInvariant, TypeEvents
<1>22. CASE CollectCancelled
  BY <1>22, BatchAssumption DEF DispatchSafe, CollectCancelled, envVars,
     LateStarts, TypeInvariant, TypeEvents
<1>23. ASSUME NEW c \in Calls, JoinPanicked(c) PROVE LateStarts'
  BY <1>23 DEF DispatchSafe, JoinPanicked, envVars, LateStarts
<1>24. ASSUME NEW c \in Calls, JoinDone(c) PROVE LateStarts'
  BY <1>24, BatchAssumption DEF DispatchSafe, JoinDone, Interrupt, LateStarts,
     TypeInvariant, TypeEvents
<1>25. CASE GraceOver
  BY <1>25, BatchAssumption DEF DispatchSafe, GraceOver, Finished,
     join_failures, Return, ReturnChannelClosed, LateStarts, TypeInvariant,
     TypeEvents
<1>26. CASE Approve
  BY <1>26, BatchAssumption DEF DispatchSafe, Approve, NextCall, envVars,
     LateStarts, TypeInvariant, TypeEvents
<1>27. CASE ApproveWith
  BY <1>27, BatchAssumption DEF DispatchSafe, ApproveWith, NextCall,
     emit_error_result, stopped_preprocess_outcome, Calls, Return, envVars,
     LateStarts, TypeInvariant, TypeEvents
<1>28. CASE Reject
  BY <1>28, BatchAssumption DEF DispatchSafe, Reject, emit_error_result,
     NextCall, envVars, LateStarts, TypeInvariant, TypeEvents
<1>29. CASE DecisionUndelivered
  BY <1>29, BatchAssumption DEF DispatchSafe, DecisionUndelivered,
     ReturnChannelClosed, Return, envVars, LateStarts, TypeInvariant,
     TypeEvents
<1>30. ASSUME NEW c \in Calls, TaskFail(c) PROVE LateStarts'
  BY <1>30 DEF DispatchSafe, TaskFail, envVars, LateStarts
<1>31. ASSUME NEW c \in Calls, TaskExecute(c) PROVE LateStarts'
  BY <1>31 DEF DispatchSafe, TaskExecute, envVars, LateStarts
<1>32. ASSUME NEW c \in Calls, TaskReturn(c) PROVE LateStarts'
  BY <1>32 DEF DispatchSafe, TaskReturn, envVars, LateStarts
<1>33. ASSUME NEW c \in Calls, TaskPanic(c) PROVE LateStarts'
  BY <1>33 DEF DispatchSafe, TaskPanic, envVars, LateStarts
<1>34. ASSUME NEW c \in Calls, TaskEnd(c) PROVE LateStarts'
  BY <1>34 DEF DispatchSafe, TaskEnd, envVars, LateStarts
<1>35. ASSUME NEW c \in Calls, TaskPush(c) PROVE LateStarts'
  BY <1>35 DEF DispatchSafe, TaskPush, envVars, LateStarts
<1>36. ASSUME NEW c \in Calls, TaskKilled(c) PROVE LateStarts'
  BY <1>36 DEF DispatchSafe, TaskKilled, envVars, LateStarts
<1>37. CASE Cancel
  BY <1>37, BatchAssumption DEF DispatchSafe, Cancel, LateStarts,
     TypeInvariant, TypeEvents
<1>38. CASE Steer
  BY <1>38 DEF DispatchSafe, Steer, LateStarts
<1>39. CASE DropReceiver
  BY <1>39 DEF DispatchSafe, DropReceiver, LateStarts
<1>40. CASE UNCHANGED vars
  BY <1>40 DEF vars, DispatchSafe, LateStarts
<1> QED BY <1>1, <1>2, <1>3, <1>4, <1>5, <1>6, <1>7, <1>8, <1>9, <1>10, <1>11,
   <1>12, <1>13, <1>14, <1>15, <1>16, <1>17, <1>18, <1>19, <1>20, <1>21,
   <1>22, <1>23, <1>24, <1>25, <1>26, <1>27, <1>28, <1>29, <1>30, <1>31,
   <1>32, <1>33, <1>34, <1>35, <1>36, <1>37, <1>38, <1>39, <1>40 DEF Next,
   Coordinator, Decision, TaskStep

(* The ranks of the events.                                                *)
LEMMA Ranks ==
  /\ \A e \in Events : Rank(e) \in 1..4
  /\ \A e \in Asked : Rank(e) < 2
  /\ \A e \in Decided : Rank(e) < 3
  /\ \A e \in Started : Rank(e) < 4
  /\ Rank("Requested") = 1 /\ Rank("Approved") = 2 /\ Rank("Denied") = 2
  /\ Rank("Start") = 3 /\ Rank("End") = 4
BY DEF Rank, Events, Asked, Decided, Started

(* e may follow the events of E.                                           *)
Follows(e, E) == e \in Events /\ E \subseteq Events /\ \A x \in E : Rank(x) < Rank(e)

LEMMA WhatFollows ==
  /\ Follows("Requested", {})
  /\ Follows("Approved", Asked) /\ Follows("Denied", Asked)
  /\ Follows("Start", Decided)
  /\ Follows("End", {}) /\ Follows("End", Decided) /\ Follows("End", Started)
BY Ranks DEF Follows, Asked, Decided, Started, Events

(* An event that follows all events of a sequence keeps it in order.       *)
LEMMA AppendOrdered ==
  ASSUME NEW s \in Seq(Events), NEW e, NEW E, Ordered(s), Only(s, E), Follows(e, E)
  PROVE  /\ Ordered(Append(s, e)) /\ Only(Append(s, e), E \union {e})
         /\ \A x : Occurs(Append(s, e), x) => Occurs(s, x) \/ x = e
<1> DEFINE t == Append(s, e)
<1>1. /\ Len(t) = Len(s) + 1 /\ Len(s) \in Nat /\ t[Len(s) + 1] = e
      /\ \A m \in 1..Len(s) : t[m] = s[m]
  BY DEF Follows
<1>2. \A m \in 1..Len(s) : Rank(s[m]) < Rank(e)
  BY DEF Only, Follows
<1> HIDE DEF t
<1>3. Ordered(t)
  <2> SUFFICES ASSUME NEW m \in 1..(Len(t) - 1) PROVE Rank(t[m]) < Rank(t[m + 1])
    BY DEF Ordered
  <2>1. CASE m = Len(s)
    BY <1>1, <1>2, <2>1
  <2>2. CASE m # Len(s)
    <3>1. m \in 1..(Len(s) - 1) /\ m \in 1..Len(s) /\ m + 1 \in 1..Len(s)
      BY <1>1, <2>2
    <3> QED BY <1>1, <3>1 DEF Ordered
  <2> QED BY <2>1, <2>2
<1>4. Only(t, E \union {e})
  <2> SUFFICES ASSUME NEW m \in 1..Len(t) PROVE t[m] \in E \union {e}
    BY DEF Only
  <2>1. CASE m = Len(s) + 1
    BY <1>1, <2>1
  <2>2. CASE m \in 1..Len(s)
    BY <1>1, <2>2 DEF Only
  <2> QED BY <1>1, <2>1, <2>2
<1>5. \A x : Occurs(t, x) => Occurs(s, x) \/ x = e
  <2> SUFFICES ASSUME NEW x, NEW m \in 1..Len(t), t[m] = x PROVE Occurs(s, x) \/ x = e
    BY DEF Occurs
  <2>1. CASE m = Len(s) + 1
    BY <1>1, <2>1
  <2>2. CASE m \in 1..Len(s)
    BY <1>1, <2>2 DEF Occurs
  <2> QED BY <1>1, <2>1, <2>2
<1> QED BY <1>3, <1>4, <1>5 DEF t

(* What emitting does to the events of each call, whether or not anybody   *)
(* still receives them.                                                    *)
LEMMA EmitOne ==
  ASSUME NEW evs \in [Calls -> Seq(Events)], NEW c \in Calls, NEW e, NEW E,
         Ordered(evs[c]), Only(evs[c], E), Follows(e, E)
  PROVE  /\ emit(evs, c, e) \in [Calls -> Seq(Events)]
         /\ \A d \in Calls : d # c => emit(evs, c, e)[d] = evs[d]
         /\ Ordered(emit(evs, c, e)[c]) /\ Only(emit(evs, c, e)[c], E \union {e})
         /\ \A x : Occurs(emit(evs, c, e)[c], x) => Occurs(evs[c], x) \/ x = e
<1>1. CASE closed
  <2>1. emit(evs, c, e) = evs
    BY <1>1 DEF emit
  <2>2. Only(evs[c], E \union {e})
    BY DEF Only
  <2> QED BY <2>1, <2>2
<1>2. CASE ~closed
  <2>1. emit(evs, c, e)[c] = Append(evs[c], e)
    BY <1>2 DEF emit
  <2>2. \A d \in Calls : d # c => emit(evs, c, e)[d] = evs[d]
    BY <1>2 DEF emit
  <2>3. emit(evs, c, e) \in [Calls -> Seq(Events)]
    BY EmitType DEF Follows
  <2>4. evs[c] \in Seq(Events)
    OBVIOUS
  <2>5. /\ Ordered(Append(evs[c], e)) /\ Only(Append(evs[c], e), E \union {e})
        /\ \A x : Occurs(Append(evs[c], e), x) => Occurs(evs[c], x) \/ x = e
    BY <2>4, AppendOrdered
  <2> QED BY <2>1, <2>2, <2>3, <2>5
<1> QED BY <1>1, <1>2

LEMMA EmitMany ==
  ASSUME NEW evs \in [Calls -> Seq(Events)], NEW S \in SUBSET Calls,
         \A c \in Calls : Ordered(evs[c]),
         \A c \in S : Only(evs[c], Started)
  PROVE  \A c \in Calls :
           /\ Ordered(emit_errors(evs, S)[c])
           /\ c \notin S => emit_errors(evs, S)[c] = evs[c]
           /\ \A x : Occurs(emit_errors(evs, S)[c], x) => Occurs(evs[c], x) \/ x = "End"
<1> SUFFICES ASSUME NEW c \in Calls
             PROVE  /\ Ordered(emit_errors(evs, S)[c])
                    /\ c \notin S => emit_errors(evs, S)[c] = evs[c]
                    /\ \A x : Occurs(emit_errors(evs, S)[c], x) => Occurs(evs[c], x) \/ x = "End"
  OBVIOUS
<1>1. CASE closed \/ c \notin S
  <2>1. emit_errors(evs, S)[c] = evs[c]
    BY <1>1 DEF emit_errors
  <2> QED BY <2>1
<1>2. CASE ~closed /\ c \in S
  <2>1. emit_errors(evs, S)[c] = Append(evs[c], "End")
    BY <1>2 DEF emit_errors
  <2>2. evs[c] \in Seq(Events) /\ Ordered(evs[c]) /\ Only(evs[c], Started)
    BY <1>2
  <2> QED BY <1>2, <2>1, <2>2, WhatFollows, AppendOrdered
<1> QED BY <1>1, <1>2

(* What a bound on the events of a call implies.                           *)
LEMMA OnlyMore ==
  ASSUME NEW s, NEW E, Only(s, E)
  PROVE  /\ \A F : E \subseteq F => Only(s, F)
         /\ \A x : x \notin E => ~Occurs(s, x)
BY DEF Only, Occurs

(* The events.                                                             *)
LEMMA EventsStep ==
  ASSUME TypeInvariant, Accounted, DispatchSafe, [Next]_vars
  PROVE  EventsInOrder'
<1>1. CASE PoliciesCancelled
  BY <1>1, BatchAssumption DEF DispatchSafe, PoliciesCancelled,
     build_aborted_outcome, Return, gateVars, groupVars, taskVars,
     EventsInOrder, Calls, InOrder, Unseen, Ending, TypeInvariant, TypeGate,
     TypeGroup, TypeTask, TypeEvents, Tracked, Accounted, GatesAccounted
<1>2. CASE PoliciesPass
  BY <1>2, BatchAssumption DEF DispatchSafe, PoliciesPass, groupVars,
     taskVars, EventsInOrder, Calls, InOrder, Unseen, Ending, TypeInvariant,
     TypeGate, TypeGroup, TypeTask, TypeEvents, Tracked, Accounted,
     GatesAccounted
<1>3. CASE PoliciesStop
  <2> DEFINE open == {c \in Calls : results[c] = "none"}
  <2>1. /\ ev \in [Calls -> Seq(Events)] /\ pc' = "done" /\ ev' = emit_errors(ev, open)
        /\ \A c \in Calls : task[c] = "none"
    BY <1>3 DEF PoliciesStop, stopped_preprocess_outcome, Return, TypeInvariant,
       TypeEvents, DispatchSafe, Tracked, Accounted, GatesAccounted
  <2>2. \A c \in Calls : Ordered(ev[c]) /\ Only(ev[c], Started)
    BY <1>3, OnlyMore DEF PoliciesStop, DispatchSafe, EventsInOrder, InOrder, Unseen
  <2>3. \A c \in Calls : /\ Ordered(ev'[c])
                         /\ \A x : Occurs(ev'[c], x) => Occurs(ev[c], x) \/ x = "End"
    BY <2>1, <2>2, EmitMany
  <2> QED BY <1>3, <2>1, <2>3 DEF PoliciesStop, gateVars, taskVars,
     DispatchSafe, EventsInOrder, InOrder, Unseen, Ending
<1>4. CASE GateCancelled
  BY <1>4, BatchAssumption DEF DispatchSafe, GateCancelled,
     build_aborted_outcome, Return, gateVars, groupVars, taskVars,
     EventsInOrder, Calls, InOrder, Unseen, Ending, TypeInvariant, TypeGate,
     TypeGroup, TypeTask, TypeEvents, Tracked, Accounted, GatesAccounted
<1>5. CASE GateSkipped
  <2>1. /\ ev \in [Calls -> Seq(Events)] /\ i \in Calls /\ i \notin prepared
        /\ \A c \in Calls : task[c] = "none" /\ c \notin dispatched /\ c \notin handles
    BY <1>5, BatchAssumption DEF GateSkipped, TypeInvariant, TypeGate,
       TypeEvents, DispatchSafe, Tracked, GatesCleared, Accounted,
       GatesAccounted, Calls
  <2>2. ev' = emit(ev, i, "End") /\ Ordered(ev[i]) /\ Only(ev[i], {})
    BY <1>5, <2>1, BatchAssumption DEF GateSkipped, emit_error_result,
       DispatchSafe, EventsInOrder, InOrder, Unseen, Calls
  <2>3. /\ \A d \in Calls : d # i => ev'[d] = ev[d]
        /\ Ordered(ev'[i])
        /\ \A x : Occurs(ev'[i], x) => Occurs(ev[i], x) \/ x = "End"
    <3>1. Follows("End", {})
      BY WhatFollows
    <3>2. /\ \A d \in Calls : d # i => emit(ev, i, "End")[d] = ev[d]
          /\ Ordered(emit(ev, i, "End")[i])
          /\ \A x : Occurs(emit(ev, i, "End")[i], x) => Occurs(ev[i], x) \/ x = "End"
      BY <2>1, <2>2, <3>1, EmitOne, ZenonT(40)
    <3> QED BY <2>2, <3>2
  <2>4. ~Occurs(ev[i], "Start")
    BY <2>2, OnlyMore
  <2>5. /\ UNCHANGED <<task, prepared, dispatched, handles>>
        /\ pc = "gate" /\ pc' \in {"gate", "groups"}
        /\ pc' = "gate" => i' = i + 1
    BY <1>5 DEF GateSkipped, NextCall, taskVars, groupVars
  <2>6. /\ \A d \in Calls : Unseen(d)' => Unseen(d) /\ d # i
        /\ \A d \in Calls : ~Ending(d)'
    BY <2>1, <2>5, BatchAssumption DEF Unseen, Ending, Calls
  <2>7. ASSUME NEW d \in Calls, d # i PROVE InOrder(d)'
    <3>1. InOrder(d) /\ ev'[d] = ev[d]
      BY <2>3, <2>7 DEF DispatchSafe, EventsInOrder
    <3> QED BY <3>1, <2>1, <2>5, <2>6 DEF InOrder
  <2>8. ASSUME NEW d \in Calls, d = i PROVE InOrder(d)'
    BY <2>8, <2>1, <2>3, <2>4, <2>5, <2>6 DEF InOrder
  <2> QED BY <2>7, <2>8 DEF EventsInOrder
<1>6. CASE GateOpen
  <2>1. /\ ev \in [Calls -> Seq(Events)] /\ i \in Calls /\ i \notin prepared
        /\ \A c \in Calls : task[c] = "none" /\ c \notin dispatched /\ c \notin handles
    BY <1>6, BatchAssumption DEF GateOpen, TypeInvariant, TypeGate, TypeEvents,
       DispatchSafe, Tracked, GatesCleared, Accounted, GatesAccounted, Calls
  <2>2. Ordered(ev[i]) /\ Only(ev[i], {})
    BY <1>6, <2>1, BatchAssumption DEF GateOpen, DispatchSafe, EventsInOrder,
       InOrder, Unseen, Calls
  <2>3. Only(ev[i], Decided) /\ ~Occurs(ev[i], "Denied")
    BY <2>2, OnlyMore
  <2>4. ASSUME NEW d \in Calls, d # i PROVE InOrder(d)'
    BY <1>6, <2>4, <2>1, BatchAssumption DEF GateOpen, NextCall, taskVars,
       groupVars, DispatchSafe, EventsInOrder, InOrder, Unseen, Ending, Calls
  <2>5. ASSUME NEW d \in Calls, d = i PROVE InOrder(d)'
    BY <1>6, <2>5, <2>1, <2>2, <2>3, BatchAssumption DEF GateOpen, NextCall,
       taskVars, groupVars, DispatchSafe, EventsInOrder, InOrder, Unseen,
       Ending, Calls
  <2> QED BY <2>4, <2>5 DEF EventsInOrder
<1>7. CASE RequestApproval
  <2>1. /\ ev \in [Calls -> Seq(Events)] /\ i \in Calls /\ i \notin prepared
        /\ \A c \in Calls : task[c] = "none" /\ c \notin dispatched /\ c \notin handles
    BY <1>7, BatchAssumption DEF RequestApproval, TypeInvariant, TypeGate,
       TypeEvents, DispatchSafe, Tracked, GatesCleared, Accounted,
       GatesAccounted, Calls
  <2>2. ev' = emit(ev, i, "Requested") /\ Ordered(ev[i]) /\ Only(ev[i], {})
    BY <1>7, <2>1, BatchAssumption DEF RequestApproval, DispatchSafe,
       EventsInOrder, InOrder, Unseen, Calls
  <2>3. /\ \A d \in Calls : d # i => ev'[d] = ev[d]
        /\ Ordered(ev'[i]) /\ Only(ev'[i], Asked)
        /\ \A x : Occurs(ev'[i], x) => Occurs(ev[i], x) \/ x = "Requested"
    <3>1. {} \union {"Requested"} = Asked
      BY DEF Asked
    <3>2. Follows("Requested", {})
      BY WhatFollows
    <3>3. /\ \A d \in Calls : d # i => emit(ev, i, "Requested")[d] = ev[d]
          /\ Ordered(emit(ev, i, "Requested")[i])
          /\ Only(emit(ev, i, "Requested")[i], {} \union {"Requested"})
          /\ \A x : Occurs(emit(ev, i, "Requested")[i], x) => Occurs(ev[i], x) \/ x = "Requested"
      BY <2>1, <2>2, <3>2, EmitOne, ZenonT(40)
    <3> QED BY <2>2, <3>1, <3>3
  <2>4. ~Occurs(ev[i], "Start")
    BY <2>2, OnlyMore
  <2>5. /\ pc = "gate" /\ pc' \in {"approval", "done"}
        /\ UNCHANGED <<i, prepared, dispatched, handles, task>>
    BY <1>7 DEF RequestApproval, ReturnChannelClosed, Return, taskVars,
       groupVars, gateVars
  <2>6. ASSUME NEW d \in Calls, d # i PROVE InOrder(d)'
    BY <1>7, <2>6, <2>1, <2>3, <2>5, BatchAssumption DEF Preprocessing,
       DispatchSafe, EventsInOrder, InOrder, Unseen, Ending, Calls
  <2>7. ASSUME NEW d \in Calls, d = i PROVE InOrder(d)'
    BY <1>7, <2>7, <2>1, <2>3, <2>5, <2>4, BatchAssumption DEF Preprocessing,
       DispatchSafe, EventsInOrder, InOrder, Unseen, Ending, Calls
  <2> QED BY <2>6, <2>7 DEF EventsInOrder
<1>8. CASE ApprovalCancelled
  <2>1. /\ ev \in [Calls -> Seq(Events)] /\ i \in Calls /\ i \notin prepared
        /\ \A c \in Calls : task[c] = "none" /\ c \notin dispatched /\ c \notin handles
    BY <1>8, BatchAssumption DEF ApprovalCancelled, TypeInvariant, TypeGate,
       TypeEvents, DispatchSafe, Tracked, GatesCleared, Accounted,
       GatesAccounted, Calls
  <2>2. Ordered(ev[i]) /\ Only(ev[i], Asked)
    BY <1>8, <2>1 DEF ApprovalCancelled, DispatchSafe, EventsInOrder, InOrder
  <2>3. ~Occurs(ev[i], "Start") /\ ~Occurs(ev[i], "Denied")
    BY <2>2, OnlyMore DEF Asked
  <2> DEFINE evs == emit(ev, i, "Denied")
  <2>4. /\ evs \in [Calls -> Seq(Events)]
        /\ \A d \in Calls : d # i => evs[d] = ev[d]
        /\ Ordered(evs[i]) /\ Only(evs[i], Asked \union {"Denied"})
        /\ \A x : Occurs(evs[i], x) => Occurs(ev[i], x) \/ x = "Denied"
    BY <2>1, <2>2, WhatFollows, EmitOne
  <2>5. Only(evs[i], Decided)
    BY <2>4, OnlyMore DEF Asked, Decided
  <2> HIDE DEF evs
  <2>6. ev' = evs
    BY <1>8 DEF ApprovalCancelled, evs
  <2>7. ASSUME NEW d \in Calls, d # i PROVE InOrder(d)'
    BY <1>8, <2>7, <2>1, <2>4, <2>6, BatchAssumption DEF ApprovalCancelled,
       ReturnChannelClosed, build_aborted_outcome, Return, taskVars, groupVars,
       gateVars, DispatchSafe, EventsInOrder, InOrder, Unseen, Ending, Calls
  <2>8. ASSUME NEW d \in Calls, d = i PROVE InOrder(d)'
    BY <1>8, <2>8, <2>1, <2>4, <2>6, <2>3, BatchAssumption DEF
       ApprovalCancelled, ReturnChannelClosed, build_aborted_outcome, Return,
       taskVars, groupVars, gateVars, DispatchSafe, EventsInOrder, InOrder,
       Unseen, Ending, Calls
  <2> QED BY <2>7, <2>8 DEF EventsInOrder
<1>9. CASE GroupsCancelled
  BY <1>9, BatchAssumption DEF DispatchSafe, GroupsCancelled,
     build_aborted_outcome, Return, gateVars, groupVars, taskVars,
     EventsInOrder, Calls, InOrder, Unseen, Ending, TypeInvariant, TypeGate,
     TypeGroup, TypeTask, TypeEvents, Tracked, Accounted, GatesAccounted
<1>10. CASE NothingPrepared
  BY <1>10, BatchAssumption DEF DispatchSafe, NothingPrepared, Return,
     gateVars, groupVars, taskVars, EventsInOrder, Calls, InOrder, Unseen,
     Ending, TypeInvariant, TypeGate, TypeGroup, TypeTask, TypeEvents,
     Tracked, Accounted, GatesAccounted
<1>11. CASE compute_execution_groups
  BY <1>11, BatchAssumption DEF DispatchSafe, compute_execution_groups, Calls,
     gateVars, taskVars, EventsInOrder, InOrder, Unseen, Ending,
     TypeInvariant, TypeGate, TypeGroup, TypeTask, TypeEvents, Tracked,
     Accounted, GatesAccounted
<1>12. CASE InvalidPartition
  <2>1. /\ ev \in [Calls -> Seq(Events)] /\ pc' = "done" /\ ev' = emit_errors(ev, prepared)
        /\ prepared \subseteq Calls /\ \A c \in Calls : task[c] = "none" /\ c \notin dispatched
    BY <1>12 DEF InvalidPartition, Return, TypeInvariant, TypeGate, TypeEvents,
       DispatchSafe, Tracked, Accounted, GatesAccounted
  <2>2. /\ \A c \in Calls : Ordered(ev[c])
        /\ \A c \in prepared : Only(ev[c], Started)
    BY <1>12, <2>1, OnlyMore DEF InvalidPartition, DispatchSafe, EventsInOrder,
       InOrder, Decided, Started
  <2>3. \A c \in Calls : /\ Ordered(ev'[c])
                         /\ \A x : Occurs(ev'[c], x) => Occurs(ev[c], x) \/ x = "End"
    BY <2>1, <2>2, EmitMany
  <2> QED BY <1>12, <2>1, <2>3 DEF InvalidPartition, gateVars, taskVars,
     DispatchSafe, EventsInOrder, InOrder, Unseen, Ending
<1>13. CASE BeginGroup
  BY <1>13, BatchAssumption DEF DispatchSafe, BeginGroup,
     build_aborted_outcome, Return, gateVars, groupVars, taskVars,
     EventsInOrder, Calls, InOrder, Unseen, Ending, TypeInvariant, TypeGate,
     TypeGroup, TypeTask, TypeEvents, Tracked, Accounted, GatesAccounted
<1>14. CASE AllGroupsDone
  BY <1>14, BatchAssumption DEF DispatchSafe, AllGroupsDone, Return, gateVars,
     groupVars, taskVars, EventsInOrder, Calls, InOrder, Unseen, Ending,
     TypeInvariant, TypeGate, TypeGroup, TypeTask, TypeEvents, Tracked,
     Accounted, GatesAccounted
<1>15. ASSUME NEW c \in Calls, CheckCancelled(c) PROVE EventsInOrder'
  BY <1>15, BatchAssumption DEF DispatchSafe, CheckCancelled, NextToDispatch,
     Undispatched, groupVars, taskVars, EventsInOrder, Calls, InOrder, Unseen,
     Ending, TypeInvariant, TypeGate, TypeGroup, TypeTask, TypeEvents,
     Tracked, Accounted, GatesAccounted
<1>16. CASE DispatchUnknown
  <2>1. /\ ev \in [Calls -> Seq(Events)] /\ i \in prepared \ dispatched /\ i \in Calls
        /\ i \notin handles /\ task[i] = "none"
    BY <1>16 DEF DispatchUnknown, TypeInvariant, TypeGate, TypeEvents,
       DispatchSafe, Tracked
  <2>2. Ordered(ev[i]) /\ Only(ev[i], Decided) /\ ~Occurs(ev[i], "Denied")
    BY <1>16, <2>1 DEF DispatchUnknown, DispatchSafe, EventsInOrder, InOrder
  <2>3. ev' = emit(ev, i, "End")
    BY <1>16 DEF DispatchUnknown, emit_error_result
  <2>4. /\ \A d \in Calls : d # i => ev'[d] = ev[d]
        /\ Ordered(ev'[i])
        /\ \A x : Occurs(ev'[i], x) => Occurs(ev[i], x) \/ x = "End"
    <3>1. Follows("End", Decided)
      BY WhatFollows
    <3>2. /\ \A d \in Calls : d # i => emit(ev, i, "End")[d] = ev[d]
          /\ Ordered(emit(ev, i, "End")[i])
          /\ \A x : Occurs(emit(ev, i, "End")[i], x) => Occurs(ev[i], x) \/ x = "End"
      BY <2>1, <2>2, <3>1, EmitOne
    <3> QED BY <2>3, <3>2
  <2>5. ASSUME NEW d \in Calls, d # i PROVE InOrder(d)'
    BY <1>16, <2>5, <2>1, <2>4, BatchAssumption DEF DispatchUnknown, taskVars,
       gateVars, DispatchSafe, EventsInOrder, InOrder, Unseen, Ending, Calls
  <2>6. ASSUME NEW d \in Calls, d = i PROVE InOrder(d)'
    BY <1>16, <2>6, <2>1, <2>4, <2>2, BatchAssumption DEF DispatchUnknown,
       taskVars, gateVars, DispatchSafe, EventsInOrder, InOrder, Unseen, Ending,
       Calls
  <2> QED BY <2>5, <2>6 DEF EventsInOrder
<1>17. CASE DispatchInvalid
  <2>1. /\ ev \in [Calls -> Seq(Events)] /\ i \in prepared \ dispatched /\ i \in Calls
        /\ i \notin handles /\ task[i] = "none"
    BY <1>17 DEF DispatchInvalid, TypeInvariant, TypeGate, TypeEvents,
       DispatchSafe, Tracked
  <2>2. Ordered(ev[i]) /\ Only(ev[i], Decided) /\ ~Occurs(ev[i], "Denied")
    BY <1>17, <2>1 DEF DispatchInvalid, DispatchSafe, EventsInOrder, InOrder
  <2>3. Only(ev[i], Started)
    BY <2>2, OnlyMore DEF Decided, Started
  <2>4. ASSUME NEW d \in Calls, d # i PROVE InOrder(d)'
    BY <1>17, <2>4, <2>1, BatchAssumption DEF DispatchInvalid, gateVars,
       TypeInvariant, TypeTask, DispatchSafe, EventsInOrder, InOrder, Unseen,
       Ending, Calls
  <2>5. ASSUME NEW d \in Calls, d = i PROVE InOrder(d)'
    BY <1>17, <2>5, <2>1, <2>2, <2>3, BatchAssumption DEF DispatchInvalid,
       gateVars, TypeInvariant, TypeTask, DispatchSafe, EventsInOrder, InOrder,
       Unseen, Ending, Calls
  <2> QED BY <2>4, <2>5 DEF EventsInOrder
<1>18. CASE DispatchValid
  <2>1. /\ ev \in [Calls -> Seq(Events)] /\ i \in prepared \ dispatched /\ i \in Calls
        /\ i \notin handles /\ task[i] = "none"
    BY <1>18 DEF DispatchValid, TypeInvariant, TypeGate, TypeEvents,
       DispatchSafe, Tracked
  <2>2. Ordered(ev[i]) /\ Only(ev[i], Decided) /\ ~Occurs(ev[i], "Denied")
    BY <1>18, <2>1 DEF DispatchValid, DispatchSafe, EventsInOrder, InOrder
  <2>3. ev' = emit(ev, i, "Start")
    BY <1>18 DEF DispatchValid
  <2>4. /\ \A d \in Calls : d # i => ev'[d] = ev[d]
        /\ Ordered(ev'[i]) /\ Only(ev'[i], Decided \union {"Start"})
        /\ \A x : Occurs(ev'[i], x) => Occurs(ev[i], x) \/ x = "Start"
    <3>1. Follows("Start", Decided)
      BY WhatFollows
    <3>2. /\ \A d \in Calls : d # i => emit(ev, i, "Start")[d] = ev[d]
          /\ Ordered(emit(ev, i, "Start")[i])
          /\ Only(emit(ev, i, "Start")[i], Decided \union {"Start"})
          /\ \A x : Occurs(emit(ev, i, "Start")[i], x) => Occurs(ev[i], x) \/ x = "Start"
      BY <2>1, <2>2, <3>1, EmitOne
    <3> QED BY <2>3, <3>2
  <2>5. Only(ev'[i], Started)
    BY <2>4, OnlyMore DEF Decided, Started
  <2>6. ASSUME NEW d \in Calls, d # i PROVE InOrder(d)'
    BY <1>18, <2>6, <2>1, <2>4, BatchAssumption DEF DispatchValid, gateVars,
       TypeInvariant, TypeTask, DispatchSafe, EventsInOrder, InOrder, Unseen,
       Ending, Calls
  <2>7. ASSUME NEW d \in Calls, d = i PROVE InOrder(d)'
    BY <1>18, <2>7, <2>1, <2>4, <2>2, <2>5, BatchAssumption DEF DispatchValid,
       gateVars, TypeInvariant, TypeTask, DispatchSafe, EventsInOrder, InOrder,
       Unseen, Ending, Calls
  <2> QED BY <2>6, <2>7 DEF EventsInOrder
<1>19. CASE DispatchUndelivered
  BY <1>19, BatchAssumption DEF DispatchSafe, DispatchUndelivered, gateVars,
     groupVars, taskVars, EventsInOrder, Calls, InOrder, Unseen, Ending,
     TypeInvariant, TypeGate, TypeGroup, TypeTask, TypeEvents, Tracked,
     Accounted, GatesAccounted
<1>20. CASE GroupDispatched
  BY <1>20, BatchAssumption DEF DispatchSafe, GroupDispatched, Undispatched,
     gateVars, groupVars, taskVars, EventsInOrder, Calls, InOrder, Unseen,
     Ending, TypeInvariant, TypeGate, TypeGroup, TypeTask, TypeEvents,
     Tracked, Accounted, GatesAccounted
<1>21. CASE GroupCollected
  BY <1>21, BatchAssumption DEF DispatchSafe, GroupCollected, AllJoined,
     gateVars, taskVars, EventsInOrder, Calls, InOrder, Unseen, Ending,
     TypeInvariant, TypeGate, TypeGroup, TypeTask, TypeEvents, Tracked,
     Accounted, GatesAccounted
<1>22. CASE CollectCancelled
  BY <1>22, BatchAssumption DEF DispatchSafe, CollectCancelled, gateVars,
     groupVars, taskVars, EventsInOrder, Calls, InOrder, Unseen, Ending,
     TypeInvariant, TypeGate, TypeGroup, TypeTask, TypeEvents, Tracked,
     Accounted, GatesAccounted
<1>23. ASSUME NEW c \in Calls, JoinPanicked(c) PROVE EventsInOrder'
  <2>1. /\ ev \in [Calls -> Seq(Events)] /\ ev' = emit(ev, c, "End")
        /\ Ordered(ev[c]) /\ Only(ev[c], Started)
    BY <1>23 DEF JoinPanicked, emit_error_result, TypeInvariant, TypeEvents,
       DispatchSafe, EventsInOrder, InOrder, Ending
  <2>2. /\ \A d \in Calls : d # c => ev'[d] = ev[d]
        /\ Ordered(ev'[c])
        /\ \A x : Occurs(ev'[c], x) => Occurs(ev[c], x) \/ x = "End"
    BY <2>1, WhatFollows, EmitOne
  <2>3. c \in dispatched
    BY <1>23 DEF JoinPanicked, DispatchSafe, Tracked
  <2> QED BY <1>23, <2>2, <2>3 DEF JoinPanicked, taskVars, gateVars,
     DispatchSafe, EventsInOrder, InOrder, Unseen, Ending
<1>24. ASSUME NEW c \in Calls, JoinDone(c) PROVE EventsInOrder'
  BY <1>24, BatchAssumption DEF DispatchSafe, JoinDone, Interrupt, gateVars,
     taskVars, EventsInOrder, Calls, InOrder, Unseen, Ending, TypeInvariant,
     TypeGate, TypeGroup, TypeTask, TypeEvents, Tracked, Accounted,
     GatesAccounted
<1>25. CASE GraceOver
  <2>1. PICK bad \in SUBSET {c \in handles : task[c] = "panicked"} :
             ev' = emit_errors(ev, bad)
    BY <1>25 DEF GraceOver, join_failures
  <2>2. /\ ev \in [Calls -> Seq(Events)] /\ bad \in SUBSET Calls
        /\ \A c \in Calls : Ordered(ev[c])
        /\ \A c \in bad : Only(ev[c], Started)
    BY <2>1 DEF TypeInvariant, TypeGroup, TypeEvents, DispatchSafe,
       EventsInOrder, InOrder, Ending
  <2>3. \A c \in Calls : /\ Ordered(ev'[c]) /\ (c \notin bad => ev'[c] = ev[c])
                         /\ \A x : Occurs(ev'[c], x) => Occurs(ev[c], x) \/ x = "End"
    BY <2>1, <2>2, EmitMany
  <2>4. pc' = "done" /\ handles' = {} /\ UNCHANGED <<prepared, task>>
    BY <1>25 DEF GraceOver, ReturnChannelClosed, Return, gateVars, taskVars
  <2> QED BY <2>1, <2>3, <2>4 DEF DispatchSafe, EventsInOrder, InOrder, Unseen,
     Ending
<1>26. CASE Approve
  <2>1. /\ ev \in [Calls -> Seq(Events)] /\ i \in Calls /\ i \notin prepared
        /\ \A c \in Calls : task[c] = "none" /\ c \notin dispatched /\ c \notin handles
    BY <1>26, BatchAssumption DEF Approve, TypeInvariant, TypeGate, TypeEvents,
       DispatchSafe, Tracked, GatesCleared, Accounted, GatesAccounted, Calls
  <2>2. Ordered(ev[i]) /\ Only(ev[i], Asked)
    BY <1>26, <2>1 DEF Approve, DispatchSafe, EventsInOrder, InOrder
  <2>3. ~Occurs(ev[i], "Start") /\ ~Occurs(ev[i], "Denied")
    BY <2>2, OnlyMore DEF Asked
  <2> DEFINE evs == emit(ev, i, "Approved")
  <2>4. /\ evs \in [Calls -> Seq(Events)]
        /\ \A d \in Calls : d # i => evs[d] = ev[d]
        /\ Ordered(evs[i]) /\ Only(evs[i], Asked \union {"Approved"})
        /\ \A x : Occurs(evs[i], x) => Occurs(ev[i], x) \/ x = "Approved"
    BY <2>1, <2>2, WhatFollows, EmitOne
  <2>5. Only(evs[i], Decided)
    BY <2>4, OnlyMore DEF Asked, Decided
  <2> HIDE DEF evs
  <2>6. ev' = evs
    BY <1>26 DEF Approve, evs
  <2>7. ASSUME NEW d \in Calls, d # i PROVE InOrder(d)'
    BY <1>26, <2>7, <2>1, <2>4, <2>6, BatchAssumption, SMTT(40) DEF Approve,
       NextCall, taskVars, groupVars, DispatchSafe, EventsInOrder, InOrder,
       Unseen, Ending, Calls
  <2>8. ASSUME NEW d \in Calls, d = i PROVE InOrder(d)'
    BY <1>26, <2>8, <2>1, <2>4, <2>6, <2>3, <2>5, BatchAssumption DEF Approve,
       NextCall, taskVars, groupVars, DispatchSafe, EventsInOrder, InOrder,
       Unseen, Ending, Calls
  <2> QED BY <2>7, <2>8 DEF EventsInOrder
<1>27. CASE ApproveWith
  <2>1. /\ ev \in [Calls -> Seq(Events)] /\ i \in Calls /\ i \notin prepared
        /\ \A c \in Calls : task[c] = "none" /\ c \notin dispatched /\ c \notin handles
    BY <1>27, BatchAssumption DEF ApproveWith, TypeInvariant, TypeGate,
       TypeEvents, DispatchSafe, Tracked, GatesCleared, Accounted,
       GatesAccounted, Calls
  <2>2. Ordered(ev[i]) /\ Only(ev[i], Asked)
    BY <1>27, <2>1 DEF ApproveWith, DispatchSafe, EventsInOrder, InOrder
  <2>3. ~Occurs(ev[i], "Start") /\ ~Occurs(ev[i], "Denied")
    BY <2>2, OnlyMore DEF Asked
  <2> DEFINE evs == emit(ev, i, "Approved")
  <2>4. /\ evs \in [Calls -> Seq(Events)]
        /\ \A d \in Calls : d # i => evs[d] = ev[d]
        /\ Ordered(evs[i]) /\ Only(evs[i], Asked \union {"Approved"})
        /\ \A x : Occurs(evs[i], x) => Occurs(ev[i], x) \/ x = "Approved"
    BY <2>1, <2>2, WhatFollows, EmitOne
  <2>5. Only(evs[i], Decided)
    BY <2>4, OnlyMore DEF Asked, Decided
  <2> HIDE DEF evs
  <2>6. /\ \A d \in Calls : d # i => emit(evs, i, "End")[d] = ev[d]
        /\ Ordered(emit(evs, i, "End")[i])
        /\ \A x : Occurs(emit(evs, i, "End")[i], x) => Occurs(evs[i], x) \/ x = "End"
    <3>1. Follows("End", Decided)
      BY WhatFollows
    <3>2. evs \in [Calls -> Seq(Events)] /\ i \in Calls /\ Ordered(evs[i])
      BY <2>1, <2>4
    <3>3. /\ \A d \in Calls : d # i => emit(evs, i, "End")[d] = evs[d]
          /\ Ordered(emit(evs, i, "End")[i])
          /\ \A x : Occurs(emit(evs, i, "End")[i], x) => Occurs(evs[i], x) \/ x = "End"
      BY <2>5, <3>1, <3>2, EmitOne
    <3> QED BY <2>4, <3>3
  <2>7. CASE ev' = evs /\ prepared' = prepared \union {i} /\ NextCall
    <3>1. ASSUME NEW d \in Calls, d # i PROVE InOrder(d)'
      BY <1>27, <3>1, <2>7, <2>1, <2>4, BatchAssumption DEF ApproveWith,
         NextCall, taskVars, groupVars, DispatchSafe, EventsInOrder, InOrder,
         Unseen, Ending, Calls
    <3>2. ASSUME NEW d \in Calls, d = i PROVE InOrder(d)'
      BY <1>27, <3>2, <2>7, <2>1, <2>4, <2>3, <2>5, BatchAssumption DEF
         ApproveWith, NextCall, taskVars, groupVars, DispatchSafe,
         EventsInOrder, InOrder, Unseen, Ending, Calls
    <3> QED BY <3>1, <3>2 DEF EventsInOrder
  <2>8. CASE ev' = emit(evs, i, "End") /\ UNCHANGED prepared /\ NextCall
    <3>0. ~Occurs(ev'[i], "Start")
      BY <2>3, <2>4, <2>6, <2>8
    <3>1. ASSUME NEW d \in Calls, d # i PROVE InOrder(d)'
      BY <1>27, <3>1, <2>8, <2>1, <2>6, BatchAssumption DEF ApproveWith,
         NextCall, taskVars, groupVars, DispatchSafe, EventsInOrder, InOrder,
         Unseen, Ending, Calls
    <3>2. ASSUME NEW d \in Calls, d = i PROVE InOrder(d)'
      BY <1>27, <3>2, <2>8, <2>1, <2>6, <3>0, BatchAssumption DEF ApproveWith,
         NextCall, taskVars, groupVars, DispatchSafe, EventsInOrder, InOrder,
         Unseen, Ending, Calls
    <3> QED BY <3>1, <3>2 DEF EventsInOrder
  <2>9. CASE stopped_preprocess_outcome(evs) /\ UNCHANGED prepared
    <3> DEFINE open == {c \in Calls : results[c] = "none"}
    <3>1. \A c \in Calls : Ordered(evs[c])
      BY <2>4 DEF DispatchSafe, EventsInOrder, InOrder
    <3>2. ASSUME NEW c \in open PROVE Only(evs[c], Started)
      <4>1. CASE c = i
        BY <2>5, <4>1, OnlyMore DEF Decided, Started
      <4>2. CASE c < i
        <5>1. Only(ev[c], Decided) /\ c # i
          BY <1>27, <2>1, <4>2, BatchAssumption DEF ApproveWith, DispatchSafe,
             EventsInOrder, InOrder, Accounted, GatesAccounted, Settled, Calls
        <5> QED BY <2>4, <5>1, OnlyMore DEF Decided, Started
      <4>3. CASE i < c
        <5>1. Only(ev[c], {}) /\ c # i
          BY <1>27, <2>1, <4>3, BatchAssumption DEF ApproveWith, DispatchSafe,
             EventsInOrder, InOrder, Unseen, Calls
        <5> QED BY <2>4, <5>1, OnlyMore
      <4> QED BY <2>1, <4>1, <4>2, <4>3, BatchAssumption DEF Calls
    <3>3. ev' = emit_errors(evs, open) /\ pc' = "done"
      BY <2>9 DEF stopped_preprocess_outcome, Return
    <3>4. \A c \in Calls : /\ Ordered(ev'[c])
                           /\ \A x : Occurs(ev'[c], x) => Occurs(evs[c], x) \/ x = "End"
      BY <2>4, <3>1, <3>2, <3>3, EmitMany
    <3>5. ASSUME NEW d \in Calls PROVE InOrder(d)'
      BY <1>27, <2>1, <2>3, <2>4, <2>9, <3>3, <3>4, <3>5 DEF ApproveWith,
         taskVars, groupVars, DispatchSafe, EventsInOrder, InOrder, Unseen,
         Ending
    <3> QED BY <3>5 DEF EventsInOrder
  <2> QED BY <1>27, <2>7, <2>8, <2>9 DEF ApproveWith, emit_error_result, evs
<1>28. CASE Reject
  <2>1. /\ ev \in [Calls -> Seq(Events)] /\ i \in Calls /\ i \notin prepared
        /\ \A c \in Calls : task[c] = "none" /\ c \notin dispatched /\ c \notin handles
    BY <1>28, BatchAssumption DEF Reject, TypeInvariant, TypeGate, TypeEvents,
       DispatchSafe, Tracked, GatesCleared, Accounted, GatesAccounted, Calls
  <2>2. Ordered(ev[i]) /\ Only(ev[i], Asked)
    BY <1>28, <2>1 DEF Reject, DispatchSafe, EventsInOrder, InOrder
  <2>3. ~Occurs(ev[i], "Start") /\ ~Occurs(ev[i], "Denied")
    BY <2>2, OnlyMore DEF Asked
  <2> DEFINE evs == emit(ev, i, "Denied")
  <2>4. /\ evs \in [Calls -> Seq(Events)]
        /\ \A d \in Calls : d # i => evs[d] = ev[d]
        /\ Ordered(evs[i]) /\ Only(evs[i], Asked \union {"Denied"})
        /\ \A x : Occurs(evs[i], x) => Occurs(ev[i], x) \/ x = "Denied"
    BY <2>1, <2>2, WhatFollows, EmitOne
  <2>5. Only(evs[i], Decided)
    BY <2>4, OnlyMore DEF Asked, Decided
  <2> HIDE DEF evs
  <2>6. /\ \A d \in Calls : d # i => emit(evs, i, "End")[d] = ev[d]
        /\ Ordered(emit(evs, i, "End")[i])
        /\ \A x : Occurs(emit(evs, i, "End")[i], x) => Occurs(evs[i], x) \/ x = "End"
    <3>1. Follows("End", Decided)
      BY WhatFollows
    <3>2. evs \in [Calls -> Seq(Events)] /\ i \in Calls /\ Ordered(evs[i])
      BY <2>1, <2>4
    <3>3. /\ \A d \in Calls : d # i => emit(evs, i, "End")[d] = evs[d]
          /\ Ordered(emit(evs, i, "End")[i])
          /\ \A x : Occurs(emit(evs, i, "End")[i], x) => Occurs(evs[i], x) \/ x = "End"
      BY <2>5, <3>1, <3>2, EmitOne
    <3> QED BY <2>4, <3>3
  <2>7. ev' = emit(evs, i, "End") /\ ~Occurs(ev'[i], "Start")
    <3>1. ev' = emit(evs, i, "End")
      BY <1>28 DEF Reject, emit_error_result, evs
    <3> QED BY <2>3, <2>4, <2>6, <3>1
  <2>8. ASSUME NEW d \in Calls, d # i PROVE InOrder(d)'
    BY <1>28, <2>8, <2>1, <2>6, <2>7, BatchAssumption DEF Reject, NextCall,
       taskVars, groupVars, DispatchSafe, EventsInOrder, InOrder, Unseen,
       Ending, Calls
  <2>9. ASSUME NEW d \in Calls, d = i PROVE InOrder(d)'
    BY <1>28, <2>9, <2>1, <2>6, <2>7, BatchAssumption DEF Reject, NextCall,
       taskVars, groupVars, DispatchSafe, EventsInOrder, InOrder, Unseen,
       Ending, Calls
  <2> QED BY <2>8, <2>9 DEF EventsInOrder
<1>29. CASE DecisionUndelivered
  BY <1>29, BatchAssumption DEF DispatchSafe, DecisionUndelivered,
     ReturnChannelClosed, Return, gateVars, groupVars, taskVars,
     EventsInOrder, Calls, InOrder, Unseen, Ending, TypeInvariant, TypeGate,
     TypeGroup, TypeTask, TypeEvents, Tracked, Accounted, GatesAccounted
<1>30. ASSUME NEW c \in Calls, TaskFail(c) PROVE EventsInOrder'
  BY <1>30, BatchAssumption DEF DispatchSafe, TaskFail, gateVars, groupVars,
     EventsInOrder, Calls, InOrder, Unseen, Ending, TypeInvariant, TypeGate,
     TypeGroup, TypeTask, TypeEvents, Tracked, Accounted, GatesAccounted
<1>31. ASSUME NEW c \in Calls, TaskExecute(c) PROVE EventsInOrder'
  BY <1>31, BatchAssumption DEF DispatchSafe, TaskExecute, gateVars,
     groupVars, EventsInOrder, Calls, InOrder, Unseen, Ending, TypeInvariant,
     TypeGate, TypeGroup, TypeTask, TypeEvents, Tracked, Accounted,
     GatesAccounted
<1>32. ASSUME NEW c \in Calls, TaskReturn(c) PROVE EventsInOrder'
  BY <1>32, BatchAssumption DEF DispatchSafe, TaskReturn, gateVars, groupVars,
     EventsInOrder, Calls, InOrder, Unseen, Ending, TypeInvariant, TypeGate,
     TypeGroup, TypeTask, TypeEvents, Tracked, Accounted, GatesAccounted
<1>33. ASSUME NEW c \in Calls, TaskPanic(c) PROVE EventsInOrder'
  BY <1>33, BatchAssumption DEF DispatchSafe, TaskPanic, gateVars, groupVars,
     EventsInOrder, Calls, InOrder, Unseen, Ending, TypeInvariant, TypeGate,
     TypeGroup, TypeTask, TypeEvents, Tracked, Accounted, GatesAccounted
<1>34. ASSUME NEW c \in Calls, TaskEnd(c) PROVE EventsInOrder'
  <2>1. /\ ev \in [Calls -> Seq(Events)] /\ ev' = emit(ev, c, "End")
        /\ Ordered(ev[c]) /\ Only(ev[c], Started)
    BY <1>34 DEF TaskEnd, TypeInvariant, TypeEvents, DispatchSafe,
       EventsInOrder, InOrder, Ending
  <2>2. /\ \A d \in Calls : d # c => ev'[d] = ev[d]
        /\ Ordered(ev'[c])
        /\ \A x : Occurs(ev'[c], x) => Occurs(ev[c], x) \/ x = "End"
    BY <2>1, WhatFollows, EmitOne
  <2>3. c \in dispatched /\ pc \notin Preprocessing
    BY <1>34 DEF TaskEnd, DispatchSafe, Tracked, Accounted, GatesAccounted,
       Preprocessing
  <2> QED BY <1>34, <2>2, <2>3 DEF TaskEnd, groupVars, gateVars, DispatchSafe,
     EventsInOrder, InOrder, Unseen, Ending, TypeInvariant, TypeTask,
     Preprocessing
<1>35. ASSUME NEW c \in Calls, TaskPush(c) PROVE EventsInOrder'
  BY <1>35, BatchAssumption DEF DispatchSafe, TaskPush, gateVars, groupVars,
     EventsInOrder, Calls, InOrder, Unseen, Ending, TypeInvariant, TypeGate,
     TypeGroup, TypeTask, TypeEvents, Tracked, Accounted, GatesAccounted
<1>36. ASSUME NEW c \in Calls, TaskKilled(c) PROVE EventsInOrder'
  BY <1>36, BatchAssumption DEF DispatchSafe, TaskKilled, Abortable, gateVars,
     groupVars, EventsInOrder, Calls, InOrder, Unseen, Ending, TypeInvariant,
     TypeGate, TypeGroup, TypeTask, TypeEvents, Tracked, Accounted,
     GatesAccounted
<1>37. CASE Cancel
  BY <1>37 DEF DispatchSafe, Cancel, gateVars, groupVars, taskVars,
     EventsInOrder, InOrder, Unseen, Ending
<1>38. CASE Steer
  BY <1>38 DEF DispatchSafe, Steer, gateVars, groupVars, taskVars,
     EventsInOrder, InOrder, Unseen, Ending
<1>39. CASE DropReceiver
  BY <1>39 DEF DispatchSafe, DropReceiver, gateVars, groupVars, taskVars,
     EventsInOrder, InOrder, Unseen, Ending
<1>40. CASE UNCHANGED vars
  BY <1>40 DEF vars, DispatchSafe, EventsInOrder, InOrder, Unseen, Ending
<1> QED BY <1>1, <1>2, <1>3, <1>4, <1>5, <1>6, <1>7, <1>8, <1>9, <1>10, <1>11,
   <1>12, <1>13, <1>14, <1>15, <1>16, <1>17, <1>18, <1>19, <1>20, <1>21,
   <1>22, <1>23, <1>24, <1>25, <1>26, <1>27, <1>28, <1>29, <1>30, <1>31,
   <1>32, <1>33, <1>34, <1>35, <1>36, <1>37, <1>38, <1>39, <1>40 DEF Next,
   Coordinator, Decision, TaskStep

(* One step keeps the whole invariant.                                     *)
LEMMA DispatchSafeStep ==
  ASSUME TypeInvariant, Accounted, DispatchSafe, [Next]_vars
  PROVE  DispatchSafe'
BY TrackedStep, ClearedStep, GroupsStep, FlagsStep, EventsStep, LateStartsStep
   DEF DispatchSafe

LEMMA DispatchSafeInit == Init => DispatchSafe
<1> SUFFICES ASSUME Init PROVE DispatchSafe
  OBVIOUS
<1>1. Tracked
  BY DEF Init, Tracked
<1>2. GatesCleared
  BY BatchAssumption DEF Init, GatesCleared, Calls
<1>3. GroupsInOrder /\ FlagsHeld /\ LateStarts
  BY DEF Init, GroupsInOrder, FlagsHeld, LateStarts, InGroups, Abortable
<1>4. EventsInOrder
  <2>1. \A c \in Calls : ev[c] = <<>> /\ task[c] = "none"
    BY DEF Init
  <2>2. Len(<<>>) = 0
    OBVIOUS
  <2>3. Ordered(<<>>) /\ Only(<<>>, {}) /\ \A x : ~Occurs(<<>>, x)
    BY <2>2 DEF Ordered, Only, Occurs
  <2> QED BY <2>1, <2>3 DEF Init, EventsInOrder, InOrder, Unseen, Ending
<1> QED BY <1>1, <1>2, <1>3, <1>4 DEF DispatchSafe

(* The bookkeeping holds in every state of every batch.                    *)
THEOREM DispatchInvariant == Spec => [](TypeInvariant /\ Accounted /\ DispatchSafe)
<1>1. Init => Accounted /\ ResultParity
  BY DEF Init, Accounted, GatesAccounted, GroupsAccounted, TasksAccounted,
     ResultParity
<1>2. TypeInvariant /\ Accounted /\ ResultParity /\ [Next]_vars => Accounted' /\ ResultParity'
  BY AccountedStep
<1>3. TypeInvariant /\ Accounted /\ DispatchSafe /\ [Next]_vars => DispatchSafe'
  BY DispatchSafeStep
<1> QED BY <1>1, <1>2, <1>3, DispatchSafeInit, TypeCorrect, PTL DEF Spec

(* No tool body runs on arguments the policies or the approver have not    *)
(* cleared (preprocess_tool_calls, check_approval).                        *)
THEOREM OnlyClearedExecute == Spec => []ExecutionCleared
<1>1. DispatchSafe => ExecutionCleared
  BY DEF DispatchSafe, GatesCleared, Cleared, should_call_approval, ExecutionCleared
<1> QED BY <1>1, DispatchInvariant, PTL

(* The events of every call come in their canonical order, and the groups  *)
(* one after the other (check_approval, execute_tools_concurrently).       *)
THEOREM BatchInOrder == Spec => []BatchOrdered
<1>1. TypeInvariant /\ DispatchSafe => CanonicalOrder
  <2> SUFFICES ASSUME TypeInvariant, DispatchSafe, NEW c \in Calls
               PROVE  /\ Ordered(ev[c]) /\ lateStarts <= 1
                      /\ Occurs(ev[c], "Start") => ~Occurs(ev[c], "Denied")
    BY DEF CanonicalOrder, Ordered, Occurs
  <2> QED BY DEF DispatchSafe, EventsInOrder, InOrder, LateStarts
<1>2. TypeInvariant /\ Accounted /\ DispatchSafe => GroupBarrier
  <2> SUFFICES ASSUME TypeInvariant, Accounted, DispatchSafe, pc # "done",
                      NEW c \in prepared, NEW d \in prepared,
                      groupOf[c] < groupOf[d], task[d] # "none"
               PROVE  results[c] # "none" /\ c \notin handles
    BY DEF GroupBarrier
  <2>1. c \in Calls /\ d \in Calls /\ d \in dispatched
    BY DEF TypeInvariant, TypeGate, DispatchSafe, Tracked
  <2>2. pc \in InGroups \union {"grace"}
    BY <2>1 DEF TypeInvariant, TypeGate, PCs, InGroups, Accounted, GatesAccounted
  <2>3. groupOf[d] <= group
    BY <2>1, <2>2 DEF DispatchSafe, GroupsInOrder
  <2>4. groupOf[c] < group
    BY <2>1, <2>3, BatchAssumption DEF TypeInvariant, TypeGroup
  <2> QED BY <2>1, <2>2, <2>4 DEF DispatchSafe, GroupsInOrder, Settled
<1> QED BY <1>1, <1>2, DispatchInvariant, PTL DEF BatchOrdered

(* A batch in which a tool saw steering or asked for a transfer does not   *)
(* go on to another group (collect_group_results).                         *)
THEOREM InterruptEnds == Spec => InterruptEndsBatch
<1>1. TypeInvariant /\ Accounted /\ DispatchSafe /\ [Next]_vars
        => [steerFlag \/ transferFlag => group' = group]_vars
  <2> SUFFICES ASSUME TypeInvariant, Accounted, DispatchSafe, Next, steerFlag \/ transferFlag
               PROVE  group' = group
    OBVIOUS
  <2>1. ~compute_execution_groups
    BY DEF compute_execution_groups, DispatchSafe, FlagsHeld, Preprocessing
  <2>2. ~GroupCollected
    BY DEF GroupCollected, AllJoined, DispatchSafe, FlagsHeld, InGroups
  <2> QED BY <2>1, <2>2 DEF Next, Coordinator, Decision, TaskStep,
     PoliciesCancelled, PoliciesPass, PoliciesStop, GateCancelled, GateSkipped,
     GateOpen, RequestApproval, ApprovalCancelled, GroupsCancelled,
     NothingPrepared, InvalidPartition, BeginGroup, AllGroupsDone,
     CheckCancelled, DispatchUnknown, DispatchInvalid, DispatchValid,
     DispatchUndelivered, GroupDispatched, CollectCancelled, JoinPanicked,
     JoinDone, GraceOver, Approve, ApproveWith, Reject, DecisionUndelivered,
     TaskFail, TaskExecute, TaskReturn, TaskPanic, TaskEnd, TaskPush,
     TaskKilled, Cancel, Steer, DropReceiver, groupVars
<1> QED BY <1>1, DispatchInvariant, PTL DEF Spec, InterruptEndsBatch
=============================================================================
