------------------------- MODULE AgentHandleProofs -------------------------
(***************************************************************************)
(* Proofs about the Agent, for any messages and any number of runs and     *)
(* resets: its types, that it is running exactly while its run is, that no *)
(* waiter misses the end of a run, that the history loses nothing, and     *)
(* that a checkpoint taken by pause holds each message once.               *)
(***************************************************************************)
EXTENDS AgentHandle, FiniteSetTheorems, TLAPS

(* A run that has not begun left no trace, and each run has a generation   *)
(* of its own.                                                             *)
Unborn ==
  \A r \in Runs : r > started =>
    task[r].pc = "returned" /\ guard[r].pc = "gone" /\ chan[r] = <<>>
Generations ==
  /\ \A r \in Runs : r <= started => guard[r].gen <= generation
  /\ \A r, s \in Runs : r <= started /\ s <= started /\ guard[r].gen = guard[s].gen => r = s

(* On one thread a drop that passed its check is over before the host can  *)
(* begin another generation.                                               *)
DropCurrent ==
  threads = "one" =>
    \A r \in Runs : guard[r].pc \notin {"held", "gone"} => guard[r].gen = generation

(* A running agent holds the stream of its last run, or has begun to drop  *)
(* it.                                                                     *)
ActiveHeld ==
  active => /\ started > 0 /\ guard[started].gen = generation
            /\ guard[started].pc \in {"held", "cancel", "idle"}

(* AgentEnd is the last event of a run whose task has returned.            *)
EndsLast ==
  \A r \in Runs : \A i \in DOMAIN chan[r] :
    chan[r][i].type = "AgentEnd" => i = Len(chan[r]) /\ task[r].pc = "returned"

(* What the current run may still deliver keeps the agent running.         *)
Going == Alive(started) \/ chan[started] # <<>>
CurrentHeld ==
  started > 0 /\ guard[started].pc = "held" /\ guard[started].gen = generation
GoingActive == threads = "one" /\ CurrentHeld /\ Going => active

(* What the current run will put in place of the history contains it.      *)
HistoryAhead ==
  threads = "one" /\ CurrentHeld =>
    /\ Alive(started) => Ids(messages) \subseteq Ids(task[started].ctx)
    /\ \A i \in DOMAIN chan[started] :
         chan[started][i].type = "AgentEnd" => Ids(messages) \subseteq Ids(chan[started][i].ctx)

(* A waiter that has looked and was not woken has something to wait for.   *)
WaitsForIdle ==
  op \in {"looked", "await"} /\ ~woken
    => active \/ \E r \in Runs : guard[r].pc \in {"clear", "clear_ctx", "notify"}

RunsTracked == Unborn /\ Generations /\ DropCurrent /\ ActiveHeld /\ EndsLast
Followed == GoingActive /\ HistoryAhead /\ WaitsForIdle

(* What start_loop does to the runs, whichever call it serves.             *)
Starts ==
  /\ op = "none" /\ UNCHANGED <<op, threads, woken, chan, cancelled>>
  /\ threads = "one" => \A r \in Runs : guard[r].pc \in {"held", "gone"}
  /\ started + 1 \in Runs /\ started' = started + 1
  /\ active' = TRUE /\ generation' = generation + 1 /\ token' = started + 1
  /\ snapPending' = <<>> /\ snapCtx' = <<>>
  /\ overlap' \in BOOLEAN
  /\ messages' \in History /\ steering' \in History /\ followUp' \in History
  /\ task' = [task EXCEPT ![started + 1] = TaskAt("start", messages', <<>>, <<>>)]
  /\ guard' = [guard EXCEPT ![started + 1] = GuardAt("held", generation + 1)]

-----------------------------------------------------------------------------
(* The messages of a sequence.                                             *)
LEMMA IdsGrow ==
  ASSUME NEW s \in History, NEW t \in History
  PROVE  /\ s \o t \in History /\ Ids(s) \subseteq Ids(s \o t)
         /\ Append(s, "assistant") \in History
         /\ Ids(Append(s, "assistant")) = Ids(s)
<1>1. s \o t \in History /\ Append(s, "assistant") \in History
  BY DEF History
<1>2. ASSUME NEW i \in DOMAIN s PROVE \E j \in DOMAIN (s \o t) : (s \o t)[j] = s[i]
  <2>1. i \in DOMAIN (s \o t) /\ (s \o t)[i] = s[i]
    BY <1>2 DEF History
  <2> QED BY <2>1
<1>3. Ids(s) \subseteq Ids(s \o t)
  BY <1>2 DEF Ids
<1>4. /\ DOMAIN Append(s, "assistant") = DOMAIN s \cup {Len(s) + 1}
      /\ \A i \in DOMAIN s : Append(s, "assistant")[i] = s[i]
      /\ Append(s, "assistant")[Len(s) + 1] = "assistant"
  BY DEF History
<1>5. Ids(Append(s, "assistant")) = Ids(s)
  BY <1>4, HandleAssumption DEF Ids
<1> QED BY <1>1, <1>3, <1>5

LEMMA Heads ==
  ASSUME NEW c \in Seq(Events), c # <<>>
  PROVE  /\ Head(c) = c[1] /\ 1 \in DOMAIN c /\ c[1] \in Events
         /\ \A i \in DOMAIN Tail(c) : i + 1 \in DOMAIN c /\ Tail(c)[i] = c[i + 1]
         /\ Len(c) = 1 => Tail(c) = <<>>
<1>1. Len(c) > 0 /\ DOMAIN c = 1..Len(c) /\ Len(c) \in Nat /\ \A i \in 1..Len(c) : c[i] \in Events
  OBVIOUS
<1>2. Head(c) = c[1]
  OBVIOUS
<1>3. /\ Tail(c) \in Seq(Events) /\ Len(Tail(c)) = Len(c) - 1
      /\ \A i \in 1..(Len(c) - 1) : Tail(c)[i] = c[i + 1]
  OBVIOUS
<1>4. DOMAIN Tail(c) = 1..(Len(c) - 1)
  BY <1>3
<1>5. \A s \in Seq(Events) : Len(s) = 0 => s = <<>>
  OBVIOUS
<1> QED BY <1>1, <1>2, <1>3, <1>4, <1>5

LEMMA Histories ==
  /\ <<>> \in History
  /\ \A s, t \in History : s \o t \in History
  /\ \A s \in History : Append(s, "assistant") \in History
  /\ \A s \in History : \A x \in Messages : Append(s, x) \in History
  /\ \A x \in Messages : <<x>> \in History
  BY DEF History

LEMMA Drains ==
  ASSUME NEW q \in History PROVE Drained(q) \in History /\ Left(q) \in History
<1>1. q # <<>> => Tail(q) \in History /\ <<Head(q)>> \in History
  BY DEF History
<1> QED BY <1>1, Histories DEF Drained, Left

(* Who may take a step on one thread.                                      *)
LEMMA HostAlone ==
  ASSUME May(<<"host", 0>>), threads = "one", NEW r \in Runs
  PROVE  guard[r].pc \in {"held", "gone"}
<1> SUFFICES ASSUME guard[r].pc \notin {"held", "gone"} PROVE FALSE
  OBVIOUS
<1>1. <<"guard", r>> \in Mid
  BY DEF Mid
<1>2. <<"guard", r>> = <<"host", 0>>
  BY <1>1 DEF May
<1> QED BY <1>2

(* Every call that starts a run does so the same way.                      *)
LEMMA StartLoop ==
  ASSUME TypeInvariant, HostIdle,
         NEW base \in History, NEW s \in History, NEW f \in History, NEW input \in History,
         NEW is_continue \in BOOLEAN,
         start_loop(base, s, f, input, is_continue)
  PROVE  Starts /\ Ids(base) \subseteq Ids(messages')
<1> DEFINE drain == is_continue /\ LastIsAssistant(base)
           tail == IF drain THEN s \o f ELSE input
<1>1. tail \in History
  BY Histories
<1>2. messages' = base \o tail /\ messages' \in History /\ Ids(base) \subseteq Ids(messages')
  BY <1>1, IdsGrow DEF start_loop, clone_messages_for_send
<1>3. steering' \in History /\ followUp' \in History
  BY Histories DEF start_loop
<1>4. started + 1 \in Runs
  BY HandleAssumption DEF start_loop, Runs, TypeInvariant, FlagsType, RunsType
<1>5. threads = "one" => \A r \in Runs : guard[r].pc \in {"held", "gone"}
  BY HostAlone DEF HostIdle
<1>6. overlap' \in BOOLEAN
  BY DEF start_loop, TypeInvariant, FlagsType
<1>7. /\ task' = [task EXCEPT ![started + 1] = TaskAt("start", messages', <<>>, <<>>)]
      /\ guard' = [guard EXCEPT ![started + 1] = GuardAt("held", generation + 1)]
      /\ started' = started + 1 /\ active' = TRUE /\ generation' = generation + 1
      /\ token' = started + 1 /\ snapPending' = <<>> /\ snapCtx' = <<>>
      /\ UNCHANGED <<op, threads, woken, chan, cancelled>>
  BY DEF start_loop, clone_messages_for_send
<1> QED BY <1>2, <1>3, <1>4, <1>5, <1>6, <1>7 DEF Starts, HostIdle

LEMMA PromptStarts ==
  ASSUME TypeInvariant, Prompt PROVE Starts /\ Ids(messages) \subseteq Ids(messages')
<1>1. PICK m \in Messages : start_loop(messages, steering, followUp, <<m>>, FALSE)
  BY DEF Prompt
<1>2. <<m>> \in History /\ FALSE \in BOOLEAN
  BY Histories
<1> QED BY <1>1, <1>2, StartLoop DEF Prompt, TypeInvariant, QueuesType

LEMMA ContinueStarts ==
  ASSUME TypeInvariant, Continue PROVE Starts /\ Ids(messages) \subseteq Ids(messages')
<1>1. <<>> \in History /\ TRUE \in BOOLEAN
  BY Histories
<1> QED BY <1>1, StartLoop DEF Continue, TypeInvariant, QueuesType

(* A checkpoint that cannot be continued is only put back.                 *)
PutBack ==
  /\ op = "none" /\ ~active
  /\ messages' = cp.ctx /\ steering' = cp.steering /\ followUp' = cp.pending
  /\ token' = 0 /\ snapPending' = <<>> /\ snapCtx' = <<>>
  /\ UNCHANGED <<threads, active, generation, started, task, guard, chan, cancelled, op,
                 woken, overlap>>
LEMMA ResumeStarts ==
  ASSUME TypeInvariant, Resume PROVE Starts \/ PutBack
<1>1. <<>> \in History /\ TRUE \in BOOLEAN
  BY Histories
<1>2. cp.ctx \in History /\ cp.steering \in History /\ cp.pending \in History
  BY DEF TypeInvariant, CheckpointType
<1>3. CASE validate_continue(cp.ctx, cp.steering, cp.pending)
  <2>1. start_loop(cp.ctx, cp.steering, cp.pending, <<>>, TRUE) /\ HostIdle
    BY <1>3 DEF Resume
  <2> QED BY <1>1, <1>2, <2>1, StartLoop
<1>4. CASE ~validate_continue(cp.ctx, cp.steering, cp.pending)
  BY <1>4 DEF Resume, PutBack, HostIdle
<1> QED BY <1>3, <1>4

LEMMA StartsTyped ==
  ASSUME TypeInvariant, Starts, CheckpointType', held' \subseteq Messages, sent' \subseteq Messages
  PROVE  TypeInvariant'
<1>1. FlagsType'
  BY DEF Starts, TypeInvariant, FlagsType
<1>2. RunsType'
  BY HandleAssumption DEF Starts, TypeInvariant, RunsType, Runs
<1>3. QueuesType'
  BY Histories DEF Starts, QueuesType
<1>4. TaskAt("start", messages', <<>>, <<>>) \in Tasks
  BY Histories DEF Starts, TaskAt, Tasks, TaskSteps
<1>5. TaskType'
  BY <1>4 DEF Starts, TypeInvariant, TaskType
<1>6. GuardAt("held", generation + 1) \in [pc : GuardSteps, gen : Nat]
  BY DEF GuardAt, GuardSteps, TypeInvariant, RunsType
<1>7. GuardType'
  BY <1>6 DEF Starts, TypeInvariant, GuardType
<1>8. ChannelType'
  BY DEF Starts, TypeInvariant, ChannelType
<1> QED BY <1>1, <1>2, <1>3, <1>5, <1>7, <1>8 DEF TypeInvariant

(* The parts of a task, and the event it emits.                            *)
LEMMA Fields ==
  ASSUME TypeInvariant, NEW r \in Runs
  PROVE  task[r].ctx \in History /\ task[r].pending \in History /\ task[r].polled \in History
  BY DEF TypeInvariant, TaskType, Tasks

LEMMA EmitTyped ==
  ASSUME TypeInvariant, NEW r \in Runs, NEW type \in {"TurnEnd", "AgentEnd"},
         NEW ctx \in History, Emits(r, type, ctx)
  PROVE  ChannelType'
<1>1. [type |-> type, ctx |-> ctx] \in Events
  BY DEF Events
<1>2. Append(chan[r], [type |-> type, ctx |-> ctx]) \in Seq(Events)
  BY <1>1 DEF TypeInvariant, ChannelType
<1> QED BY <1>2 DEF Emits, TypeInvariant, ChannelType

LEMMA DropTyped ==
  ASSUME TypeInvariant, NEW r \in Runs, NEW at, NEW next, DropStep(r, at, next)
  PROVE  ChannelType'
<1>1. <<>> \in Seq(Events)
  OBVIOUS
<1> QED BY <1>1 DEF DropStep, TypeInvariant, ChannelType

(* The types are kept.                                                     *)
THEOREM AgentTypeCorrect == Spec => []TypeInvariant
<1>1. Init => TypeInvariant
  <2> SUFFICES ASSUME Init PROVE TypeInvariant
    OBVIOUS
  <2>1. FlagsType
    BY HandleAssumption DEF Init, FlagsType, HostSteps
  <2>2. RunsType /\ QueuesType
    BY HandleAssumption, Histories DEF Init, RunsType, QueuesType
  <2>3. CheckpointType
    BY Histories DEF Init, CheckpointType, NoCheckpoint, Checkpoint
  <2>4. Returned \in Tasks
    BY Histories DEF Returned, TaskAt, Tasks, TaskSteps
  <2>5. TaskType
    BY <2>4 DEF Init, TaskType
  <2>6. GuardType /\ ChannelType
    BY DEF Init, GuardType, GuardAt, GuardSteps, ChannelType
  <2> QED BY <2>1, <2>2, <2>3, <2>5, <2>6 DEF TypeInvariant
<1>2. TypeInvariant /\ [Next]_vars => TypeInvariant'
  <2> SUFFICES ASSUME TypeInvariant, [Next]_vars PROVE TypeInvariant'
    OBVIOUS
  <2>1. CASE Prompt
    <3>1. CheckpointType' /\ held' \subseteq Messages /\ sent' \subseteq Messages
      BY <2>1 DEF Prompt, TypeInvariant, CheckpointType, QueuesType
    <3> QED BY <2>1, <3>1, PromptStarts, StartsTyped
  <2>2. CASE Continue
    <3>1. CheckpointType' /\ held' \subseteq Messages /\ sent' \subseteq Messages
      BY <2>2 DEF Continue, TypeInvariant, CheckpointType, QueuesType
    <3> QED BY <2>2, <3>1, ContinueStarts, StartsTyped
  <2>3. CASE Resume
    <3>1. cp' = NoCheckpoint /\ held' = cp.owed /\ UNCHANGED sent
      BY <2>3 DEF Resume
    <3>2. CheckpointType'
      BY <3>1, Histories DEF CheckpointType, NoCheckpoint, Checkpoint
    <3>3. cp.owed \subseteq Messages
      BY DEF TypeInvariant, CheckpointType
    <3>4. held' \subseteq Messages /\ sent' \subseteq Messages
      BY <3>1, <3>3 DEF TypeInvariant, QueuesType
    <3>5. CASE Starts
      BY <3>2, <3>4, <3>5, StartsTyped
    <3>6. CASE PutBack
      <4>1. cp.ctx \in History /\ cp.steering \in History /\ cp.pending \in History
        BY DEF TypeInvariant, CheckpointType
      <4>2. QueuesType'
        BY <3>4, <3>6, <4>1, Histories DEF PutBack, QueuesType
      <4>3. RunsType'
        BY <3>6 DEF PutBack, TypeInvariant, RunsType
      <4> QED BY <3>2, <3>6, <4>2, <4>3 DEF PutBack, TypeInvariant, FlagsType,
              TaskType, GuardType, ChannelType
    <3> QED BY <2>3, <3>5, <3>6, ResumeStarts
  <2>4. CASE SendQueued
    <3>1. FlagsType'
      BY <2>4, HandleAssumption DEF TypeInvariant, SendQueued, Runs, host,
         FlagsType, HostSteps, RunsType, QueuesType, CheckpointType, TaskType,
         GuardType, ChannelType
    <3>2. QueuesType'
      <4>1. PICK x \in Messages : /\ sent' = sent \cup {x} /\ held' = held \cup {x}
                                   /\ \/ steering' = Append(steering, x) /\ UNCHANGED followUp
                                      \/ followUp' = Append(followUp, x) /\ UNCHANGED steering
        BY <2>4 DEF SendQueued
      <4>2. UNCHANGED <<messages, snapPending, snapCtx>>
        BY <2>4 DEF SendQueued, host
      <4> QED BY <4>1, <4>2, Histories DEF TypeInvariant, QueuesType
    <3>3. CheckpointType'
      BY <2>4, HandleAssumption, Histories DEF TypeInvariant, SendQueued,
         Runs, host, CheckpointType, FlagsType, RunsType, QueuesType,
         TaskType, GuardType, ChannelType
    <3> QED BY <2>4, <3>1, <3>2, <3>3 DEF TypeInvariant, SendQueued, host,
       RunsType, TaskType, GuardType, ChannelType
  <2>5. CASE Abort
    <3>1. RunsType'
      BY <2>5, HandleAssumption DEF TypeInvariant, Abort, CancelToken, host,
         RunsType, Runs, FlagsType, QueuesType, CheckpointType, TaskType,
         GuardType, ChannelType
    <3> QED BY <2>5, <3>1 DEF TypeInvariant, Abort, host, shared, history,
       FlagsType, QueuesType, CheckpointType, TaskType, GuardType, ChannelType
  <2>6. CASE Reset
    <3>1. FlagsType'
      BY <2>6, HandleAssumption DEF TypeInvariant, Reset, CancelToken, Notify,
         Waiters, FlagsType, HostSteps, RunsType, QueuesType, CheckpointType,
         TaskType, GuardType, ChannelType, Runs
    <3>2. RunsType'
      BY <2>6, HandleAssumption DEF TypeInvariant, Reset, CancelToken, Notify,
         Waiters, RunsType, Runs, FlagsType, QueuesType, CheckpointType,
         TaskType, GuardType, ChannelType
    <3>3. QueuesType'
      BY <2>6, HandleAssumption, Histories DEF TypeInvariant, Reset,
         CancelToken, Notify, Waiters, QueuesType, FlagsType, RunsType,
         CheckpointType, TaskType, GuardType, ChannelType, Runs
    <3>4. CheckpointType'
      BY <2>6, HandleAssumption, Histories DEF TypeInvariant, Reset,
         CancelToken, Notify, Waiters, CheckpointType, FlagsType, RunsType,
         QueuesType, TaskType, GuardType, ChannelType, Runs
    <3> QED BY <2>6, <3>1, <3>2, <3>3, <3>4 DEF TypeInvariant, Reset,
       TaskType, GuardType, ChannelType
  <2>7. CASE PauseCancel
    <3>1. FlagsType'
      BY <2>7, HandleAssumption DEF TypeInvariant, PauseCancel, CancelToken,
         history, FlagsType, HostSteps, RunsType, QueuesType, CheckpointType,
         TaskType, GuardType, ChannelType, Runs
    <3>2. RunsType'
      BY <2>7, HandleAssumption DEF TypeInvariant, PauseCancel, CancelToken,
         RunsType, Runs, FlagsType, QueuesType, CheckpointType, TaskType,
         GuardType, ChannelType
    <3> QED BY <2>7, <3>1, <3>2 DEF TypeInvariant, PauseCancel, shared,
       history, QueuesType, CheckpointType, TaskType, GuardType, ChannelType
  <2>8. CASE PausePending
    <3>1. FlagsType'
      BY <2>8, HandleAssumption DEF TypeInvariant, PausePending, PauseStep,
         history, Checkpoint, FlagsType, HostSteps, RunsType, QueuesType,
         CheckpointType, TaskType, GuardType, ChannelType, Runs
    <3>2. CheckpointType'
      BY <2>8, HandleAssumption, Histories DEF TypeInvariant, PausePending,
         PauseStep, Checkpoint, CheckpointType, FlagsType, RunsType,
         QueuesType, TaskType, GuardType, ChannelType, Runs
    <3> QED BY <2>8, <3>1, <3>2 DEF TypeInvariant, PausePending, PauseStep,
       history, RunsType, QueuesType, TaskType, GuardType, ChannelType
  <2>9. CASE PauseFollowUp
    <3>1. FlagsType'
      BY <2>9, HandleAssumption DEF TypeInvariant, PauseFollowUp, PauseStep,
         history, Checkpoint, FlagsType, HostSteps, RunsType, QueuesType,
         CheckpointType, TaskType, GuardType, ChannelType, Runs
    <3>2. QueuesType'
      BY <2>9, HandleAssumption, Histories DEF TypeInvariant, PauseFollowUp,
         PauseStep, history, Checkpoint, QueuesType, FlagsType, RunsType,
         CheckpointType, TaskType, GuardType, ChannelType, Runs
    <3>3. CheckpointType'
      BY <2>9, HandleAssumption, Histories DEF TypeInvariant, PauseFollowUp,
         PauseStep, Checkpoint, CheckpointType, FlagsType, RunsType,
         QueuesType, TaskType, GuardType, ChannelType, Runs
    <3> QED BY <2>9, <3>1, <3>2, <3>3 DEF TypeInvariant, PauseFollowUp,
       PauseStep, RunsType, TaskType, GuardType, ChannelType
  <2>10. CASE PauseContext
    <3>1. FlagsType'
      BY <2>10, HandleAssumption DEF TypeInvariant, PauseContext, PauseStep,
         history, Checkpoint, FlagsType, HostSteps, RunsType, QueuesType,
         CheckpointType, TaskType, GuardType, ChannelType, Runs
    <3>2. CheckpointType'
      BY <2>10, HandleAssumption, Histories DEF TypeInvariant, PauseContext,
         PauseStep, Checkpoint, CheckpointType, FlagsType, RunsType,
         QueuesType, TaskType, GuardType, ChannelType, Runs
    <3> QED BY <2>10, <3>1, <3>2 DEF TypeInvariant, PauseContext, PauseStep,
       history, RunsType, QueuesType, TaskType, GuardType, ChannelType
  <2>11. CASE PauseSteering
    <3>1. FlagsType'
      BY <2>11, HandleAssumption DEF TypeInvariant, PauseSteering, PauseStep,
         history, Checkpoint, FlagsType, HostSteps, RunsType, QueuesType,
         CheckpointType, TaskType, GuardType, ChannelType, Runs
    <3>2. QueuesType'
      BY <2>11, HandleAssumption, Histories DEF TypeInvariant, PauseSteering,
         PauseStep, history, Checkpoint, QueuesType, FlagsType, RunsType,
         CheckpointType, TaskType, GuardType, ChannelType, Runs
    <3>3. CheckpointType'
      BY <2>11, HandleAssumption, Histories DEF TypeInvariant, PauseSteering,
         PauseStep, Checkpoint, CheckpointType, FlagsType, RunsType,
         QueuesType, TaskType, GuardType, ChannelType, Runs
    <3> QED BY <2>11, <3>1, <3>2, <3>3 DEF TypeInvariant, PauseSteering,
       PauseStep, RunsType, TaskType, GuardType, ChannelType
  <2>12. CASE WaitRegister
    <3>1. FlagsType'
      BY <2>12, HandleAssumption DEF TypeInvariant, WaitRegister, WaitStep,
         history, FlagsType, HostSteps, RunsType, QueuesType, CheckpointType,
         TaskType, GuardType, ChannelType, Runs
    <3> QED BY <2>12, <3>1 DEF TypeInvariant, WaitRegister, WaitStep, shared,
       history, RunsType, QueuesType, CheckpointType, TaskType, GuardType,
       ChannelType
  <2>13. CASE WaitCheck
    <3>1. FlagsType'
      BY <2>13, HandleAssumption DEF TypeInvariant, WaitCheck, WaitStep,
         history, FlagsType, HostSteps, RunsType, QueuesType, CheckpointType,
         TaskType, GuardType, ChannelType, Runs
    <3> QED BY <2>13, <3>1 DEF TypeInvariant, WaitCheck, WaitStep, shared,
       history, RunsType, QueuesType, CheckpointType, TaskType, GuardType,
       ChannelType
  <2>14. CASE WaitAwait
    <3>1. FlagsType'
      BY <2>14, HandleAssumption DEF TypeInvariant, WaitAwait, WaitStep,
         history, FlagsType, HostSteps, RunsType, QueuesType, CheckpointType,
         TaskType, GuardType, ChannelType, Runs
    <3> QED BY <2>14, <3>1 DEF TypeInvariant, WaitAwait, WaitStep, shared,
       history, RunsType, QueuesType, CheckpointType, TaskType, GuardType,
       ChannelType
  <2>15. CASE WaitWoken
    <3>1. FlagsType'
      BY <2>15, HandleAssumption DEF TypeInvariant, WaitWoken, WaitStep,
         history, FlagsType, HostSteps, RunsType, QueuesType, CheckpointType,
         TaskType, GuardType, ChannelType, Runs
    <3> QED BY <2>15, <3>1 DEF TypeInvariant, WaitWoken, WaitStep, shared,
       history, RunsType, QueuesType, CheckpointType, TaskType, GuardType,
       ChannelType
  <2>16. CASE HandleEvent
    <3>1. FlagsType'
      BY <2>16, HandleAssumption DEF TypeInvariant, HandleEvent,
         clone_messages, Notify, Waiters, FlagsType, HostSteps, RunsType,
         QueuesType, CheckpointType, TaskType, GuardType, ChannelType, Runs
    <3>2. QueuesType'
      <4>1. /\ started \in Runs /\ chan[started] # <<>>
            /\ chan' = [chan EXCEPT ![started] = Tail(chan[started])]
        BY <2>16, HandleAssumption DEF HandleEvent, TypeInvariant, RunsType, Runs
      <4>2. chan[started] \in Seq(Events)
        BY <4>1 DEF TypeInvariant, ChannelType
      <4>3. Head(chan[started]) \in Events
        BY <4>1, <4>2
      <4>4. Head(chan[started]).ctx \in History
        BY <4>3 DEF Events
      <4>5. messages' \in History
        BY <2>16, <4>4, Histories DEF HandleEvent, clone_messages,
           TypeInvariant, QueuesType
      <4>6. /\ snapPending' \in {snapPending, <<>>} /\ snapCtx' \in {snapCtx, <<>>}
            /\ UNCHANGED <<steering, followUp, sent, held>>
        BY <2>16 DEF HandleEvent
      <4> QED BY <4>5, <4>6, Histories DEF TypeInvariant, QueuesType
    <3>3. ChannelType'
      <4>1. /\ started \in Runs /\ chan[started] # <<>>
            /\ chan' = [chan EXCEPT ![started] = Tail(chan[started])]
        BY <2>16, HandleAssumption DEF HandleEvent, TypeInvariant, RunsType, Runs
      <4>2. chan[started] \in Seq(Events)
        BY <4>1 DEF TypeInvariant, ChannelType
      <4>3. Tail(chan[started]) \in Seq(Events)
        BY <4>1, <4>2
      <4> QED BY <4>1, <4>3 DEF TypeInvariant, ChannelType
    <3> QED BY <2>16, <3>1, <3>2, <3>3 DEF TypeInvariant, HandleEvent,
       RunsType, CheckpointType, TaskType, GuardType
  <2>17. ASSUME NEW r \in Runs, DropCheck(r) PROVE TypeInvariant'
    <3>1. GuardType'
      BY <2>17, HandleAssumption DEF TypeInvariant, DropCheck, DropStep,
         GuardAt, OfCurrentRun, GuardType, Runs, GuardSteps, FlagsType,
         RunsType, QueuesType, CheckpointType, TaskType, ChannelType
    <3>2. ChannelType'
      BY <2>17, DropTyped DEF DropCheck
    <3> QED BY <2>17, <3>1, <3>2 DEF TypeInvariant, DropCheck, DropStep, host,
       FlagsType, RunsType, QueuesType, CheckpointType, TaskType
  <2>18. ASSUME NEW r \in Runs, DropCancel(r) PROVE TypeInvariant'
    <3>1. RunsType'
      BY <2>18, HandleAssumption DEF TypeInvariant, DropCancel, DropStep,
         GuardAt, host, RunsType, Runs, FlagsType, QueuesType, CheckpointType,
         TaskType, GuardType, ChannelType
    <3>2. GuardType'
      BY <2>18, HandleAssumption DEF TypeInvariant, DropCancel, DropStep,
         GuardAt, GuardType, Runs, GuardSteps, FlagsType, RunsType,
         QueuesType, CheckpointType, TaskType, ChannelType
    <3>3. ChannelType'
      BY <2>18, DropTyped DEF DropCancel
    <3> QED BY <2>18, <3>1, <3>2, <3>3 DEF TypeInvariant, DropCancel,
       DropStep, host, FlagsType, QueuesType, CheckpointType, TaskType
  <2>19. ASSUME NEW r \in Runs, DropIdle(r) PROVE TypeInvariant'
    <3>1. FlagsType'
      BY <2>19, HandleAssumption DEF TypeInvariant, DropIdle, DropStep,
         GuardAt, host, FlagsType, HostSteps, RunsType, QueuesType,
         CheckpointType, TaskType, GuardType, ChannelType, Runs
    <3>2. GuardType'
      BY <2>19, HandleAssumption DEF TypeInvariant, DropIdle, DropStep,
         GuardAt, GuardType, Runs, GuardSteps, FlagsType, RunsType,
         QueuesType, CheckpointType, TaskType, ChannelType
    <3>3. ChannelType'
      BY <2>19, DropTyped DEF DropIdle
    <3> QED BY <2>19, <3>1, <3>2, <3>3 DEF TypeInvariant, DropIdle, DropStep,
       host, RunsType, QueuesType, CheckpointType, TaskType
  <2>20. ASSUME NEW r \in Runs, DropPending(r) PROVE TypeInvariant'
    <3>1. QueuesType'
      BY <2>20, HandleAssumption, Histories DEF TypeInvariant, DropPending,
         DropStep, GuardAt, host, QueuesType, FlagsType, RunsType,
         CheckpointType, TaskType, GuardType, ChannelType, Runs
    <3>2. GuardType'
      BY <2>20, HandleAssumption DEF TypeInvariant, DropPending, DropStep,
         GuardAt, GuardType, Runs, GuardSteps, FlagsType, RunsType,
         QueuesType, CheckpointType, TaskType, ChannelType
    <3>3. ChannelType'
      BY <2>20, DropTyped DEF DropPending
    <3> QED BY <2>20, <3>1, <3>2, <3>3 DEF TypeInvariant, DropPending,
       DropStep, host, FlagsType, RunsType, CheckpointType, TaskType
  <2>21. ASSUME NEW r \in Runs, DropContext(r) PROVE TypeInvariant'
    <3>1. QueuesType'
      BY <2>21, HandleAssumption, Histories DEF TypeInvariant, DropContext,
         DropStep, GuardAt, host, QueuesType, FlagsType, RunsType,
         CheckpointType, TaskType, GuardType, ChannelType, Runs
    <3>2. GuardType'
      BY <2>21, HandleAssumption DEF TypeInvariant, DropContext, DropStep,
         GuardAt, GuardType, Runs, GuardSteps, FlagsType, RunsType,
         QueuesType, CheckpointType, TaskType, ChannelType
    <3>3. ChannelType'
      BY <2>21, DropTyped DEF DropContext
    <3> QED BY <2>21, <3>1, <3>2, <3>3 DEF TypeInvariant, DropContext,
       DropStep, host, FlagsType, RunsType, CheckpointType, TaskType
  <2>22. ASSUME NEW r \in Runs, DropNotify(r) PROVE TypeInvariant'
    <3>1. FlagsType'
      BY <2>22, HandleAssumption DEF TypeInvariant, DropNotify, DropStep,
         GuardAt, host, Notify, Waiters, FlagsType, HostSteps, RunsType,
         QueuesType, CheckpointType, TaskType, GuardType, ChannelType, Runs
    <3>2. QueuesType'
      BY <2>22, HandleAssumption, Histories DEF TypeInvariant, DropNotify,
         DropStep, GuardAt, host, Notify, Waiters, QueuesType, FlagsType,
         RunsType, CheckpointType, TaskType, GuardType, ChannelType, Runs
    <3>3. GuardType'
      BY <2>22, HandleAssumption DEF TypeInvariant, DropNotify, DropStep,
         GuardAt, Notify, Waiters, GuardType, Runs, GuardSteps, FlagsType,
         RunsType, QueuesType, CheckpointType, TaskType, ChannelType
    <3>4. ChannelType'
      BY <2>22, DropTyped DEF DropNotify
    <3> QED BY <2>22, <3>1, <3>2, <3>3, <3>4 DEF TypeInvariant, DropNotify,
       DropStep, host, RunsType, CheckpointType, TaskType
  <2>23. ASSUME NEW r \in Runs, EmitAgentStart(r) PROVE TypeInvariant'
    <3>1. TaskType'
      <4>1. /\ Returned \in Tasks
            /\ At(r, "inject") \in Tasks
        BY Fields, Drains, Histories DEF At, Returned, TaskAt, Tasks, TaskSteps,
           MidTask, TypeInvariant, QueuesType
      <4>2. \/ task' = [task EXCEPT ![r] = Returned]
            \/ task' = [task EXCEPT ![r] = At(r, "inject")]
        BY <2>23 DEF EmitAgentStart, TaskStep
      <4> QED BY <4>1, <4>2 DEF TypeInvariant, TaskType
    <3> QED BY <2>23, <3>1 DEF TypeInvariant, EmitAgentStart, TaskStep, host,
       history, shared, FlagsType, RunsType, QueuesType, CheckpointType,
       GuardType, ChannelType
  <2>24. ASSUME NEW r \in Runs, InjectPending(r) PROVE TypeInvariant'
    <3>1. TaskType'
      <4>1. \E t \in Tasks : task' = [task EXCEPT ![r] = t]
        BY <2>24, Fields, Drains, Histories DEF InjectPending, TaskStep, TaskAt,
           Tasks, TaskSteps, MidTask, TypeInvariant, QueuesType
      <4> QED BY <4>1 DEF TypeInvariant, TaskType
    <3> QED BY <2>24, <3>1 DEF TypeInvariant, InjectPending, TaskStep, host,
       history, shared, FlagsType, RunsType, QueuesType, CheckpointType,
       GuardType, ChannelType
  <2>25. ASSUME NEW r \in Runs, ClearPending(r) PROVE TypeInvariant'
    <3>1. QueuesType'
      BY <2>25, HandleAssumption, Histories, Fields, Drains DEF TypeInvariant,
         ClearPending, TaskStep, host, history, At, TaskAt, QueuesType,
         FlagsType, RunsType, CheckpointType, TaskType, GuardType,
         ChannelType, Runs
    <3>2. TaskType'
      <4>1. \E t \in Tasks : task' = [task EXCEPT ![r] = t]
        BY <2>25, Fields, Drains, Histories DEF ClearPending, TaskStep, At,
           TaskAt, Tasks, TaskSteps, MidTask, TypeInvariant, QueuesType
      <4> QED BY <4>1 DEF TypeInvariant, TaskType
    <3> QED BY <2>25, <3>1, <3>2 DEF TypeInvariant, ClearPending, TaskStep,
       host, history, FlagsType, RunsType, CheckpointType, GuardType,
       ChannelType
  <2>26. ASSUME NEW r \in Runs, SyncContext(r) PROVE TypeInvariant'
    <3>1. QueuesType'
      BY <2>26, HandleAssumption, Histories, Fields, Drains DEF TypeInvariant,
         SyncContext, TaskStep, host, history, At, TaskAt, QueuesType,
         FlagsType, RunsType, CheckpointType, TaskType, GuardType,
         ChannelType, Runs
    <3>2. TaskType'
      <4>1. /\ At(r, "end_turn") \in Tasks
            /\ At(r, "model") \in Tasks
        BY Fields, Drains, Histories DEF At, TaskAt, Tasks, TaskSteps, MidTask,
           TypeInvariant, QueuesType
      <4>2. \/ task' = [task EXCEPT ![r] = At(r, "end_turn")]
            \/ task' = [task EXCEPT ![r] = At(r, "model")]
        BY <2>26 DEF SyncContext, TaskStep
      <4> QED BY <4>1, <4>2 DEF TypeInvariant, TaskType
    <3> QED BY <2>26, <3>1, <3>2 DEF TypeInvariant, SyncContext, TaskStep,
       host, history, FlagsType, RunsType, CheckpointType, GuardType,
       ChannelType
  <2>27. ASSUME NEW r \in Runs, ModelAnswers(r) PROVE TypeInvariant'
    <3>1. QueuesType'
      BY <2>27, HandleAssumption, Histories, Fields, Drains DEF TypeInvariant,
         ModelAnswers, TaskStep, host, history, TaskAt, QueuesType, FlagsType,
         RunsType, CheckpointType, TaskType, GuardType, ChannelType, Runs
    <3>2. TaskType'
      <4>1. \E t \in Tasks : task' = [task EXCEPT ![r] = t]
        BY <2>27, Fields, Drains, Histories DEF ModelAnswers, TaskStep, TaskAt,
           Tasks, TaskSteps, MidTask, TypeInvariant, QueuesType
      <4> QED BY <4>1 DEF TypeInvariant, TaskType
    <3> QED BY <2>27, <3>1, <3>2 DEF TypeInvariant, ModelAnswers, TaskStep,
       host, history, FlagsType, RunsType, CheckpointType, GuardType,
       ChannelType
  <2>28. ASSUME NEW r \in Runs, ModelAborts(r) PROVE TypeInvariant'
    <3>1. TaskType'
      <4>1. \E t \in Tasks : task' = [task EXCEPT ![r] = t]
        BY <2>28, Fields, Drains, Histories DEF ModelAborts, TaskStep, At,
           TaskAt, Tasks, TaskSteps, MidTask, TypeInvariant, QueuesType
      <4> QED BY <4>1 DEF TypeInvariant, TaskType
    <3> QED BY <2>28, <3>1 DEF TypeInvariant, ModelAborts, TaskStep, host,
       history, shared, FlagsType, RunsType, QueuesType, CheckpointType,
       GuardType, ChannelType
  <2>29. ASSUME NEW r \in Runs, EmitTurnEnd(r) PROVE TypeInvariant'
    <3>1. TaskType'
      <4>1. /\ Returned \in Tasks
            /\ At(r, "poll_steering") \in Tasks
        BY Fields, Drains, Histories DEF At, Returned, TaskAt, Tasks, TaskSteps,
           MidTask, TypeInvariant, QueuesType
      <4>2. \/ task' = [task EXCEPT ![r] = Returned]
            \/ task' = [task EXCEPT ![r] = At(r, "poll_steering")]
        BY <2>29 DEF EmitTurnEnd, TaskStep
      <4> QED BY <4>1, <4>2 DEF TypeInvariant, TaskType
    <3>2. ChannelType'
      BY <2>29, Fields, EmitTyped DEF EmitTurnEnd
    <3> QED BY <2>29, <3>1, <3>2 DEF TypeInvariant, EmitTurnEnd, TaskStep,
       host, history, shared, FlagsType, RunsType, QueuesType, CheckpointType,
       GuardType
  <2>30. ASSUME NEW r \in Runs, EmitAbortedTurn(r) PROVE TypeInvariant'
    <3>1. TaskType'
      <4>1. /\ Returned \in Tasks
            /\ TaskAt("agent_end", Append(task[r].ctx, "assistant"),
                     task[r].pending, task[r].polled) \in Tasks
        BY Fields, Drains, Histories DEF Returned, TaskAt, Tasks, TaskSteps,
           MidTask, TypeInvariant, QueuesType
      <4>2. \/ task' = [task EXCEPT ![r] = Returned]
            \/ task' = [task EXCEPT ![r] = TaskAt("agent_end", Append(task[r].ctx, "assistant"),
                     task[r].pending, task[r].polled)]
        BY <2>30 DEF EmitAbortedTurn, TaskStep
      <4> QED BY <4>1, <4>2 DEF TypeInvariant, TaskType
    <3>2. ChannelType'
      BY <2>30, Fields, Histories, EmitTyped DEF EmitAbortedTurn
    <3> QED BY <2>30, <3>1, <3>2 DEF TypeInvariant, EmitAbortedTurn, TaskStep,
       host, history, shared, FlagsType, RunsType, QueuesType, CheckpointType,
       GuardType
  <2>31. ASSUME NEW r \in Runs, PollSteering(r) PROVE TypeInvariant'
    <3>1. QueuesType'
      BY <2>31, HandleAssumption, Histories, Fields, Drains DEF TypeInvariant,
         PollSteering, TaskStep, host, history, TaskAt, QueuesType, FlagsType,
         RunsType, CheckpointType, TaskType, GuardType, ChannelType, Runs
    <3>2. CheckpointType'
      BY <2>31, HandleAssumption, Histories, Fields, Drains DEF TypeInvariant,
         PollSteering, TaskStep, host, TaskAt, CheckpointType, FlagsType,
         RunsType, QueuesType, TaskType, GuardType, ChannelType, Runs
    <3>3. TaskType'
      <4>1. /\ TaskAt("poll_follow_up", task[r].ctx, task[r].pending, Drained(steering)) \in Tasks
            /\ TaskAt("append", task[r].ctx, task[r].pending, Drained(steering)) \in Tasks
        BY Fields, Drains, Histories DEF TaskAt, Tasks, TaskSteps, MidTask,
           TypeInvariant, QueuesType
      <4>2. \/ task' = [task EXCEPT ![r] = TaskAt("poll_follow_up", task[r].ctx, task[r].pending, Drained(steering))]
            \/ task' = [task EXCEPT ![r] = TaskAt("append", task[r].ctx, task[r].pending, Drained(steering))]
        BY <2>31 DEF PollSteering, TaskStep
      <4> QED BY <4>1, <4>2 DEF TypeInvariant, TaskType
    <3> QED BY <2>31, <3>1, <3>2, <3>3 DEF TypeInvariant, PollSteering,
       TaskStep, host, history, FlagsType, RunsType, GuardType, ChannelType
  <2>32. ASSUME NEW r \in Runs, PollFollowUp(r) PROVE TypeInvariant'
    <3>1. QueuesType'
      BY <2>32, HandleAssumption, Histories, Fields, Drains DEF TypeInvariant,
         PollFollowUp, TaskStep, host, history, TaskAt, QueuesType, FlagsType,
         RunsType, CheckpointType, TaskType, GuardType, ChannelType, Runs
    <3>2. TaskType'
      <4>1. /\ TaskAt("agent_end", task[r].ctx, task[r].pending, Drained(followUp)) \in Tasks
            /\ TaskAt("append", task[r].ctx, task[r].pending, Drained(followUp)) \in Tasks
        BY Fields, Drains, Histories DEF TaskAt, Tasks, TaskSteps, MidTask,
           TypeInvariant, QueuesType
      <4>2. \/ task' = [task EXCEPT ![r] = TaskAt("agent_end", task[r].ctx, task[r].pending, Drained(followUp))]
            \/ task' = [task EXCEPT ![r] = TaskAt("append", task[r].ctx, task[r].pending, Drained(followUp))]
        BY <2>32 DEF PollFollowUp, TaskStep
      <4> QED BY <4>1, <4>2 DEF TypeInvariant, TaskType
    <3> QED BY <2>32, <3>1, <3>2 DEF TypeInvariant, PollFollowUp, TaskStep,
       host, history, FlagsType, RunsType, CheckpointType, GuardType,
       ChannelType
  <2>33. ASSUME NEW r \in Runs, AppendSnapshot(r) PROVE TypeInvariant'
    <3>1. QueuesType'
      BY <2>33, HandleAssumption, Histories, Fields, Drains DEF TypeInvariant,
         AppendSnapshot, TaskStep, host, history, At, TaskAt, QueuesType,
         FlagsType, RunsType, CheckpointType, TaskType, GuardType,
         ChannelType, Runs
    <3>2. TaskType'
      <4>1. \E t \in Tasks : task' = [task EXCEPT ![r] = t]
        BY <2>33, Fields, Drains, Histories DEF AppendSnapshot, TaskStep, At,
           TaskAt, Tasks, TaskSteps, MidTask, TypeInvariant, QueuesType
      <4> QED BY <4>1 DEF TypeInvariant, TaskType
    <3> QED BY <2>33, <3>1, <3>2 DEF TypeInvariant, AppendSnapshot, TaskStep,
       host, history, FlagsType, RunsType, CheckpointType, GuardType,
       ChannelType
  <2>34. ASSUME NEW r \in Runs, ReplaceSnapshot(r) PROVE TypeInvariant'
    <3>1. QueuesType'
      BY <2>34, HandleAssumption, Histories, Fields, Drains DEF TypeInvariant,
         ReplaceSnapshot, TaskStep, host, history, TaskAt, QueuesType,
         FlagsType, RunsType, CheckpointType, TaskType, GuardType,
         ChannelType, Runs
    <3>2. TaskType'
      <4>1. \E t \in Tasks : task' = [task EXCEPT ![r] = t]
        BY <2>34, Fields, Drains, Histories DEF ReplaceSnapshot, TaskStep,
           TaskAt, Tasks, TaskSteps, MidTask, TypeInvariant, QueuesType
      <4> QED BY <4>1 DEF TypeInvariant, TaskType
    <3> QED BY <2>34, <3>1, <3>2 DEF TypeInvariant, ReplaceSnapshot, TaskStep,
       host, history, FlagsType, RunsType, CheckpointType, GuardType,
       ChannelType
  <2>35. ASSUME NEW r \in Runs, EmitAgentEnd(r) PROVE TypeInvariant'
    <3>1. TaskType'
      <4>1. \E t \in Tasks : task' = [task EXCEPT ![r] = t]
        BY <2>35, Fields, Drains, Histories DEF EmitAgentEnd, TaskStep,
           Returned, TaskAt, Tasks, TaskSteps, MidTask, TypeInvariant,
           QueuesType
      <4> QED BY <4>1 DEF TypeInvariant, TaskType
    <3>2. ChannelType'
      BY <2>35, Fields, EmitTyped DEF EmitAgentEnd
    <3> QED BY <2>35, <3>1, <3>2 DEF TypeInvariant, EmitAgentEnd, TaskStep,
       host, history, shared, FlagsType, RunsType, QueuesType, CheckpointType,
       GuardType
  <2>36. CASE UNCHANGED vars
    BY <2>36 DEF vars, shared, history, TypeInvariant, FlagsType, RunsType,
       QueuesType, CheckpointType, TaskType, GuardType, ChannelType
  <2> QED BY <2>1, <2>2, <2>3, <2>4, <2>5, <2>6, <2>7, <2>8, <2>9, <2>10,
     <2>11, <2>12, <2>13, <2>14, <2>15, <2>16, <2>17, <2>18, <2>19, <2>20,
     <2>21, <2>22, <2>23, <2>24, <2>25, <2>26, <2>27, <2>28, <2>29, <2>30,
     <2>31, <2>32, <2>33, <2>34, <2>35, <2>36 DEF Next, Host, Rest, Pause,
     Wait, Drop, Task
<1> QED BY <1>1, <1>2, PTL DEF Spec

(* A new run keeps what is tracked of the runs.                            *)
LEMMA StartsTracked ==
  ASSUME TypeInvariant, RunsTracked, Starts PROVE RunsTracked'
<1>1. /\ started' = started + 1 /\ started \in Nat /\ started + 1 \in Runs
      /\ guard'[started + 1] = GuardAt("held", generation + 1)
      /\ \A r \in Runs : r # started + 1 => guard'[r] = guard[r]
      /\ task'[started + 1].pc = "start"
      /\ \A r \in Runs : r # started + 1 => task'[r] = task[r]
      /\ UNCHANGED chan /\ generation' = generation + 1 /\ generation \in Nat
  BY DEF Starts, TypeInvariant, RunsType, TaskType, GuardType, TaskAt
<1>2. Unborn'
  BY <1>1 DEF RunsTracked, Unborn, Runs
<1>3. Generations'
  <2>1. \A r \in Runs : r <= started => guard[r].gen <= generation /\ guard[r].gen \in Nat
    BY DEF RunsTracked, Generations, TypeInvariant, GuardType
  <2>2. guard'[started + 1].gen = generation + 1
    BY <1>1 DEF GuardAt
  <2>3. \A r \in Runs : r <= started' => r = started + 1 \/ r <= started
    BY <1>1 DEF Runs
  <2> QED BY <1>1, <2>1, <2>2, <2>3 DEF RunsTracked, Generations, Runs
<1>4. DropCurrent'
  BY <1>1 DEF Starts, DropCurrent, GuardAt
<1>5. ActiveHeld'
  BY <1>1 DEF ActiveHeld, GuardAt
<1>6. EndsLast'
  <2>1. chan[started + 1] = <<>>
    BY <1>1 DEF RunsTracked, Unborn
  <2>2. ASSUME NEW r \in Runs, NEW i \in DOMAIN chan'[r], chan'[r][i].type = "AgentEnd"
        PROVE  i = Len(chan'[r]) /\ task'[r].pc = "returned"
    BY <1>1, <2>1, <2>2 DEF RunsTracked, EndsLast
  <2> QED BY <2>2 DEF EndsLast
<1> QED BY <1>2, <1>3, <1>4, <1>5, <1>6 DEF RunsTracked

(* Runs, their generations and their streams stay in step.                 *)
LEMMA RunsInvariant == Spec => []RunsTracked
<1>1. Init => RunsTracked
  BY HandleAssumption DEF Init, RunsTracked, Unborn, Generations, DropCurrent,
     ActiveHeld, EndsLast, Runs, Returned, TaskAt, GuardAt
<1>2. TypeInvariant /\ RunsTracked /\ [Next]_vars => RunsTracked'
  <2> SUFFICES ASSUME TypeInvariant, RunsTracked, [Next]_vars PROVE RunsTracked'
    OBVIOUS
  <2>1. CASE Prompt
    <3>1. Starts
      BY <2>1, PromptStarts
    <3> QED BY <3>1, StartsTracked
  <2>2. CASE Continue
    <3>1. Starts
      BY <2>2, ContinueStarts
    <3> QED BY <3>1, StartsTracked
  <2>3. CASE Resume
    <3>1. CASE Starts
      BY <3>1, StartsTracked
    <3>2. CASE PutBack
      BY <3>2 DEF PutBack, RunsTracked, Unborn, Generations, DropCurrent,
         ActiveHeld, EndsLast
    <3> QED BY <2>3, <3>1, <3>2, ResumeStarts
  <2>4. CASE SendQueued
    <3> QED BY <2>4 DEF RunsTracked, SendQueued, host, Unborn, Generations,
       DropCurrent, ActiveHeld, EndsLast
  <2>5. CASE Abort
    <3> QED BY <2>5 DEF RunsTracked, Abort, host, Unborn, Generations,
       DropCurrent, ActiveHeld, EndsLast
  <2>6. CASE Reset
    <3>1. Generations'
      BY <2>6 DEF RunsTracked, Reset, HostIdle, CancelToken, Notify, Waiters,
         Generations, Runs, TypeInvariant, RunsType, TaskType, Tasks,
         GuardType, ChannelType
    <3>2. DropCurrent'
      BY <2>6, HostAlone DEF RunsTracked, Reset, HostIdle, CancelToken,
         Notify, Waiters, DropCurrent, Runs, TypeInvariant, RunsType,
         TaskType, Tasks, GuardType, ChannelType
    <3>3. ActiveHeld'
      BY <2>6 DEF RunsTracked, Reset, HostIdle, CancelToken, Notify, Waiters,
         ActiveHeld, TypeInvariant, RunsType, TaskType, Tasks, GuardType,
         ChannelType, Runs
    <3> QED BY <2>6, <3>1, <3>2, <3>3 DEF RunsTracked, Reset, Unborn, EndsLast
  <2>7. CASE PauseCancel
    <3> QED BY <2>7 DEF RunsTracked, PauseCancel, Unborn, Generations,
       DropCurrent, ActiveHeld, EndsLast
  <2>8. CASE PausePending
    <3> QED BY <2>8 DEF RunsTracked, PausePending, PauseStep, Unborn,
       Generations, DropCurrent, ActiveHeld, EndsLast
  <2>9. CASE PauseFollowUp
    <3> QED BY <2>9 DEF RunsTracked, PauseFollowUp, PauseStep, Unborn,
       Generations, DropCurrent, ActiveHeld, EndsLast
  <2>10. CASE PauseContext
    <3> QED BY <2>10 DEF RunsTracked, PauseContext, PauseStep, Unborn,
       Generations, DropCurrent, ActiveHeld, EndsLast
  <2>11. CASE PauseSteering
    <3> QED BY <2>11 DEF RunsTracked, PauseSteering, PauseStep, Unborn,
       Generations, DropCurrent, ActiveHeld, EndsLast
  <2>12. CASE WaitRegister
    <3> QED BY <2>12 DEF RunsTracked, WaitRegister, WaitStep, Unborn,
       Generations, DropCurrent, ActiveHeld, EndsLast
  <2>13. CASE WaitCheck
    <3> QED BY <2>13 DEF RunsTracked, WaitCheck, WaitStep, Unborn,
       Generations, DropCurrent, ActiveHeld, EndsLast
  <2>14. CASE WaitAwait
    <3> QED BY <2>14 DEF RunsTracked, WaitAwait, WaitStep, Unborn,
       Generations, DropCurrent, ActiveHeld, EndsLast
  <2>15. CASE WaitWoken
    <3> QED BY <2>15 DEF RunsTracked, WaitWoken, WaitStep, Unborn,
       Generations, DropCurrent, ActiveHeld, EndsLast
  <2>16. CASE HandleEvent
    <3>1. Unborn'
      BY <2>16 DEF RunsTracked, HandleEvent, HostIdle, clone_messages, Notify,
         Waiters, Unborn, Runs, TypeInvariant, RunsType, TaskType, Tasks,
         GuardType, ChannelType
    <3>2. ActiveHeld'
      BY <2>16 DEF RunsTracked, HandleEvent, HostIdle, clone_messages, Notify,
         Waiters, ActiveHeld, TypeInvariant, RunsType, TaskType, Tasks,
         GuardType, ChannelType, Runs
    <3>3. EndsLast'
      BY <2>16 DEF RunsTracked, HandleEvent, HostIdle, clone_messages, Notify,
         Waiters, EndsLast, Runs, TypeInvariant, RunsType, TaskType, Tasks,
         GuardType, ChannelType
    <3> QED BY <2>16, <3>1, <3>2, <3>3 DEF RunsTracked, HandleEvent,
       Generations, DropCurrent
  <2>17. ASSUME NEW r \in Runs, DropCheck(r) PROVE RunsTracked'
    <3>1. Unborn'
      BY <2>17 DEF RunsTracked, DropCheck, DropStep, GuardAt, host,
         OfCurrentRun, Unborn, Runs, TypeInvariant, RunsType, TaskType, Tasks,
         GuardType, ChannelType
    <3>2. Generations'
      BY <2>17 DEF RunsTracked, DropCheck, DropStep, GuardAt, host,
         OfCurrentRun, Generations, Runs, TypeInvariant, RunsType, TaskType,
         Tasks, GuardType, ChannelType
    <3>3. DropCurrent'
      BY <2>17, HostAlone DEF RunsTracked, DropCheck, DropStep, GuardAt, host,
         OfCurrentRun, DropCurrent, Runs, TypeInvariant, RunsType, TaskType,
         Tasks, GuardType, ChannelType, HostIdle
    <3>4. ActiveHeld'
      BY <2>17 DEF RunsTracked, DropCheck, DropStep, GuardAt, host,
         OfCurrentRun, ActiveHeld, TypeInvariant, RunsType, TaskType, Tasks,
         GuardType, ChannelType, Runs
    <3>5. EndsLast'
      BY <2>17 DEF RunsTracked, DropCheck, DropStep, GuardAt, OfCurrentRun,
         EndsLast, Runs, TypeInvariant, RunsType, TaskType, Tasks, GuardType,
         ChannelType
    <3> QED BY <2>17, <3>1, <3>2, <3>3, <3>4, <3>5 DEF RunsTracked
  <2>18. ASSUME NEW r \in Runs, DropCancel(r) PROVE RunsTracked'
    <3>1. Unborn'
      BY <2>18 DEF RunsTracked, DropCancel, DropStep, GuardAt, host, Unborn,
         Runs, TypeInvariant, RunsType, TaskType, Tasks, GuardType,
         ChannelType
    <3>2. Generations'
      BY <2>18 DEF RunsTracked, DropCancel, DropStep, GuardAt, host,
         Generations, Runs, TypeInvariant, RunsType, TaskType, Tasks,
         GuardType, ChannelType
    <3>3. DropCurrent'
      BY <2>18, HostAlone DEF RunsTracked, DropCancel, DropStep, GuardAt,
         host, DropCurrent, Runs, TypeInvariant, RunsType, TaskType, Tasks,
         GuardType, ChannelType, HostIdle
    <3>4. ActiveHeld'
      BY <2>18 DEF RunsTracked, DropCancel, DropStep, GuardAt, host,
         ActiveHeld, TypeInvariant, RunsType, TaskType, Tasks, GuardType,
         ChannelType, Runs
    <3>5. EndsLast'
      BY <2>18 DEF RunsTracked, DropCancel, DropStep, GuardAt, EndsLast, Runs,
         TypeInvariant, RunsType, TaskType, Tasks, GuardType, ChannelType
    <3> QED BY <2>18, <3>1, <3>2, <3>3, <3>4, <3>5 DEF RunsTracked
  <2>19. ASSUME NEW r \in Runs, DropIdle(r) PROVE RunsTracked'
    <3>1. Unborn'
      BY <2>19 DEF RunsTracked, DropIdle, DropStep, GuardAt, host, Unborn,
         Runs, TypeInvariant, RunsType, TaskType, Tasks, GuardType,
         ChannelType
    <3>2. Generations'
      BY <2>19 DEF RunsTracked, DropIdle, DropStep, GuardAt, host,
         Generations, Runs, TypeInvariant, RunsType, TaskType, Tasks,
         GuardType, ChannelType
    <3>3. DropCurrent'
      BY <2>19, HostAlone DEF RunsTracked, DropIdle, DropStep, GuardAt, host,
         DropCurrent, Runs, TypeInvariant, RunsType, TaskType, Tasks,
         GuardType, ChannelType, HostIdle
    <3>4. ActiveHeld'
      BY <2>19 DEF RunsTracked, DropIdle, DropStep, GuardAt, host, ActiveHeld,
         TypeInvariant, RunsType, TaskType, Tasks, GuardType, ChannelType,
         Runs
    <3>5. EndsLast'
      BY <2>19 DEF RunsTracked, DropIdle, DropStep, GuardAt, EndsLast, Runs,
         TypeInvariant, RunsType, TaskType, Tasks, GuardType, ChannelType
    <3> QED BY <2>19, <3>1, <3>2, <3>3, <3>4, <3>5 DEF RunsTracked
  <2>20. ASSUME NEW r \in Runs, DropPending(r) PROVE RunsTracked'
    <3>1. Unborn'
      BY <2>20 DEF RunsTracked, DropPending, DropStep, GuardAt, host, Unborn,
         Runs, TypeInvariant, RunsType, TaskType, Tasks, GuardType,
         ChannelType
    <3>2. Generations'
      BY <2>20 DEF RunsTracked, DropPending, DropStep, GuardAt, host,
         Generations, Runs, TypeInvariant, RunsType, TaskType, Tasks,
         GuardType, ChannelType
    <3>3. DropCurrent'
      BY <2>20, HostAlone DEF RunsTracked, DropPending, DropStep, GuardAt,
         host, DropCurrent, Runs, TypeInvariant, RunsType, TaskType, Tasks,
         GuardType, ChannelType, HostIdle
    <3>4. ActiveHeld'
      BY <2>20 DEF RunsTracked, DropPending, DropStep, GuardAt, host,
         ActiveHeld, TypeInvariant, RunsType, TaskType, Tasks, GuardType,
         ChannelType, Runs
    <3>5. EndsLast'
      BY <2>20 DEF RunsTracked, DropPending, DropStep, GuardAt, EndsLast,
         Runs, TypeInvariant, RunsType, TaskType, Tasks, GuardType,
         ChannelType
    <3> QED BY <2>20, <3>1, <3>2, <3>3, <3>4, <3>5 DEF RunsTracked
  <2>21. ASSUME NEW r \in Runs, DropContext(r) PROVE RunsTracked'
    <3>1. Unborn'
      BY <2>21 DEF RunsTracked, DropContext, DropStep, GuardAt, host, Unborn,
         Runs, TypeInvariant, RunsType, TaskType, Tasks, GuardType,
         ChannelType
    <3>2. Generations'
      BY <2>21 DEF RunsTracked, DropContext, DropStep, GuardAt, host,
         Generations, Runs, TypeInvariant, RunsType, TaskType, Tasks,
         GuardType, ChannelType
    <3>3. DropCurrent'
      BY <2>21, HostAlone DEF RunsTracked, DropContext, DropStep, GuardAt,
         host, DropCurrent, Runs, TypeInvariant, RunsType, TaskType, Tasks,
         GuardType, ChannelType, HostIdle
    <3>4. ActiveHeld'
      BY <2>21 DEF RunsTracked, DropContext, DropStep, GuardAt, host,
         ActiveHeld, TypeInvariant, RunsType, TaskType, Tasks, GuardType,
         ChannelType, Runs
    <3>5. EndsLast'
      BY <2>21 DEF RunsTracked, DropContext, DropStep, GuardAt, EndsLast,
         Runs, TypeInvariant, RunsType, TaskType, Tasks, GuardType,
         ChannelType
    <3> QED BY <2>21, <3>1, <3>2, <3>3, <3>4, <3>5 DEF RunsTracked
  <2>22. ASSUME NEW r \in Runs, DropNotify(r) PROVE RunsTracked'
    <3>1. Unborn'
      BY <2>22 DEF RunsTracked, DropNotify, DropStep, GuardAt, host, Notify,
         Waiters, Unborn, Runs, TypeInvariant, RunsType, TaskType, Tasks,
         GuardType, ChannelType
    <3>2. Generations'
      BY <2>22 DEF RunsTracked, DropNotify, DropStep, GuardAt, host, Notify,
         Waiters, Generations, Runs, TypeInvariant, RunsType, TaskType, Tasks,
         GuardType, ChannelType
    <3>3. DropCurrent'
      BY <2>22, HostAlone DEF RunsTracked, DropNotify, DropStep, GuardAt,
         host, Notify, Waiters, DropCurrent, Runs, TypeInvariant, RunsType,
         TaskType, Tasks, GuardType, ChannelType, HostIdle
    <3>4. ActiveHeld'
      BY <2>22 DEF RunsTracked, DropNotify, DropStep, GuardAt, host, Notify,
         Waiters, ActiveHeld, TypeInvariant, RunsType, TaskType, Tasks,
         GuardType, ChannelType, Runs
    <3>5. EndsLast'
      BY <2>22 DEF RunsTracked, DropNotify, DropStep, GuardAt, Notify,
         Waiters, EndsLast, Runs, TypeInvariant, RunsType, TaskType, Tasks,
         GuardType, ChannelType
    <3> QED BY <2>22, <3>1, <3>2, <3>3, <3>4, <3>5 DEF RunsTracked
  <2>23. ASSUME NEW r \in Runs, EmitAgentStart(r) PROVE RunsTracked'
    <3>1. Unborn'
      BY <2>23 DEF RunsTracked, EmitAgentStart, TaskStep, host, Closed,
         Returned, TaskAt, At, Unborn, Runs, TypeInvariant, RunsType,
         TaskType, Tasks, GuardType, ChannelType
    <3>2. EndsLast'
      BY <2>23 DEF RunsTracked, EmitAgentStart, TaskStep, Closed, Returned,
         TaskAt, At, EndsLast, Runs, TypeInvariant, RunsType, TaskType, Tasks,
         GuardType, ChannelType
    <3> QED BY <2>23, <3>1, <3>2 DEF RunsTracked, EmitAgentStart, TaskStep,
       host, Generations, DropCurrent, ActiveHeld
  <2>24. ASSUME NEW r \in Runs, InjectPending(r) PROVE RunsTracked'
    <3>1. Unborn'
      BY <2>24 DEF RunsTracked, InjectPending, TaskStep, host, TaskAt, Unborn,
         Runs, TypeInvariant, RunsType, TaskType, Tasks, GuardType,
         ChannelType
    <3>2. EndsLast'
      BY <2>24 DEF RunsTracked, InjectPending, TaskStep, TaskAt, EndsLast,
         Runs, TypeInvariant, RunsType, TaskType, Tasks, GuardType,
         ChannelType
    <3> QED BY <2>24, <3>1, <3>2 DEF RunsTracked, InjectPending, TaskStep,
       host, Generations, DropCurrent, ActiveHeld
  <2>25. ASSUME NEW r \in Runs, ClearPending(r) PROVE RunsTracked'
    <3>1. Unborn'
      BY <2>25 DEF RunsTracked, ClearPending, TaskStep, host, At, TaskAt,
         Unborn, Runs, TypeInvariant, RunsType, TaskType, Tasks, GuardType,
         ChannelType
    <3>2. EndsLast'
      BY <2>25 DEF RunsTracked, ClearPending, TaskStep, At, TaskAt, EndsLast,
         Runs, TypeInvariant, RunsType, TaskType, Tasks, GuardType,
         ChannelType
    <3> QED BY <2>25, <3>1, <3>2 DEF RunsTracked, ClearPending, TaskStep,
       host, Generations, DropCurrent, ActiveHeld
  <2>26. ASSUME NEW r \in Runs, SyncContext(r) PROVE RunsTracked'
    <3>1. Unborn'
      BY <2>26 DEF RunsTracked, SyncContext, TaskStep, host, At, TaskAt,
         Unborn, Runs, TypeInvariant, RunsType, TaskType, Tasks, GuardType,
         ChannelType
    <3>2. EndsLast'
      BY <2>26 DEF RunsTracked, SyncContext, TaskStep, At, TaskAt, EndsLast,
         Runs, TypeInvariant, RunsType, TaskType, Tasks, GuardType,
         ChannelType
    <3> QED BY <2>26, <3>1, <3>2 DEF RunsTracked, SyncContext, TaskStep, host,
       Generations, DropCurrent, ActiveHeld
  <2>27. ASSUME NEW r \in Runs, ModelAnswers(r) PROVE RunsTracked'
    <3>1. Unborn'
      BY <2>27 DEF RunsTracked, ModelAnswers, TaskStep, host, TaskAt, Unborn,
         Runs, TypeInvariant, RunsType, TaskType, Tasks, GuardType,
         ChannelType
    <3>2. EndsLast'
      BY <2>27 DEF RunsTracked, ModelAnswers, TaskStep, TaskAt, EndsLast,
         Runs, TypeInvariant, RunsType, TaskType, Tasks, GuardType,
         ChannelType
    <3> QED BY <2>27, <3>1, <3>2 DEF RunsTracked, ModelAnswers, TaskStep,
       host, Generations, DropCurrent, ActiveHeld
  <2>28. ASSUME NEW r \in Runs, ModelAborts(r) PROVE RunsTracked'
    <3>1. Unborn'
      BY <2>28 DEF RunsTracked, ModelAborts, TaskStep, host, At, TaskAt,
         Unborn, Runs, TypeInvariant, RunsType, TaskType, Tasks, GuardType,
         ChannelType
    <3>2. EndsLast'
      BY <2>28 DEF RunsTracked, ModelAborts, TaskStep, At, TaskAt, EndsLast,
         Runs, TypeInvariant, RunsType, TaskType, Tasks, GuardType,
         ChannelType
    <3> QED BY <2>28, <3>1, <3>2 DEF RunsTracked, ModelAborts, TaskStep, host,
       Generations, DropCurrent, ActiveHeld
  <2>29. ASSUME NEW r \in Runs, EmitTurnEnd(r) PROVE RunsTracked'
    <3>1. Unborn'
      BY <2>29 DEF RunsTracked, EmitTurnEnd, TaskStep, host, Closed, Returned,
         TaskAt, At, Emits, Unborn, Runs, TypeInvariant, RunsType, TaskType,
         Tasks, GuardType, ChannelType
    <3>2. EndsLast'
      BY <2>29 DEF RunsTracked, EmitTurnEnd, TaskStep, Closed, Returned,
         TaskAt, At, Emits, EndsLast, Runs, TypeInvariant, RunsType, TaskType,
         Tasks, GuardType, ChannelType
    <3> QED BY <2>29, <3>1, <3>2 DEF RunsTracked, EmitTurnEnd, TaskStep, host,
       Generations, DropCurrent, ActiveHeld
  <2>30. ASSUME NEW r \in Runs, EmitAbortedTurn(r) PROVE RunsTracked'
    <3>1. Unborn'
      BY <2>30 DEF RunsTracked, EmitAbortedTurn, TaskStep, host, Closed,
         Returned, TaskAt, Emits, Unborn, Runs, TypeInvariant, RunsType,
         TaskType, Tasks, GuardType, ChannelType
    <3>2. EndsLast'
      BY <2>30, SMTT(40) DEF RunsTracked, EmitAbortedTurn, TaskStep, Closed,
         Returned, TaskAt, Emits, EndsLast, Runs, TypeInvariant, RunsType,
         TaskType, Tasks, GuardType, ChannelType
    <3> QED BY <2>30, <3>1, <3>2 DEF RunsTracked, EmitAbortedTurn, TaskStep,
       host, Generations, DropCurrent, ActiveHeld
  <2>31. ASSUME NEW r \in Runs, PollSteering(r) PROVE RunsTracked'
    <3>1. Unborn'
      BY <2>31 DEF RunsTracked, PollSteering, TaskStep, host, TaskAt, Unborn,
         Runs, TypeInvariant, RunsType, TaskType, Tasks, GuardType,
         ChannelType
    <3>2. EndsLast'
      BY <2>31 DEF RunsTracked, PollSteering, TaskStep, TaskAt, EndsLast,
         Runs, TypeInvariant, RunsType, TaskType, Tasks, GuardType,
         ChannelType
    <3> QED BY <2>31, <3>1, <3>2 DEF RunsTracked, PollSteering, TaskStep,
       host, Generations, DropCurrent, ActiveHeld
  <2>32. ASSUME NEW r \in Runs, PollFollowUp(r) PROVE RunsTracked'
    <3>1. Unborn'
      BY <2>32 DEF RunsTracked, PollFollowUp, TaskStep, host, TaskAt, Unborn,
         Runs, TypeInvariant, RunsType, TaskType, Tasks, GuardType,
         ChannelType
    <3>2. EndsLast'
      BY <2>32 DEF RunsTracked, PollFollowUp, TaskStep, TaskAt, EndsLast,
         Runs, TypeInvariant, RunsType, TaskType, Tasks, GuardType,
         ChannelType
    <3> QED BY <2>32, <3>1, <3>2 DEF RunsTracked, PollFollowUp, TaskStep,
       host, Generations, DropCurrent, ActiveHeld
  <2>33. ASSUME NEW r \in Runs, AppendSnapshot(r) PROVE RunsTracked'
    <3>1. Unborn'
      BY <2>33 DEF RunsTracked, AppendSnapshot, TaskStep, host, At, TaskAt,
         Unborn, Runs, TypeInvariant, RunsType, TaskType, Tasks, GuardType,
         ChannelType
    <3>2. EndsLast'
      BY <2>33 DEF RunsTracked, AppendSnapshot, TaskStep, At, TaskAt,
         EndsLast, Runs, TypeInvariant, RunsType, TaskType, Tasks, GuardType,
         ChannelType
    <3> QED BY <2>33, <3>1, <3>2 DEF RunsTracked, AppendSnapshot, TaskStep,
       host, Generations, DropCurrent, ActiveHeld
  <2>34. ASSUME NEW r \in Runs, ReplaceSnapshot(r) PROVE RunsTracked'
    <3>1. Unborn'
      BY <2>34 DEF RunsTracked, ReplaceSnapshot, TaskStep, host, TaskAt,
         Unborn, Runs, TypeInvariant, RunsType, TaskType, Tasks, GuardType,
         ChannelType
    <3>2. EndsLast'
      BY <2>34 DEF RunsTracked, ReplaceSnapshot, TaskStep, TaskAt, EndsLast,
         Runs, TypeInvariant, RunsType, TaskType, Tasks, GuardType,
         ChannelType
    <3> QED BY <2>34, <3>1, <3>2 DEF RunsTracked, ReplaceSnapshot, TaskStep,
       host, Generations, DropCurrent, ActiveHeld
  <2>35. ASSUME NEW r \in Runs, EmitAgentEnd(r) PROVE RunsTracked'
    <3>1. Unborn'
      BY <2>35 DEF RunsTracked, EmitAgentEnd, TaskStep, host, Returned,
         TaskAt, Emits, Closed, Unborn, Runs, TypeInvariant, RunsType,
         TaskType, Tasks, GuardType, ChannelType
    <3>2. EndsLast'
      BY <2>35, SMTT(40) DEF RunsTracked, EmitAgentEnd, TaskStep, Returned, TaskAt,
         Emits, Closed, EndsLast, Runs, TypeInvariant, RunsType, TaskType,
         Tasks, GuardType, ChannelType
    <3> QED BY <2>35, <3>1, <3>2 DEF RunsTracked, EmitAgentEnd, TaskStep,
       host, Generations, DropCurrent, ActiveHeld
  <2>36. CASE UNCHANGED vars
    BY <2>36 DEF vars, shared, history, RunsTracked, Unborn, Generations,
       DropCurrent, ActiveHeld, EndsLast
  <2> QED BY <2>1, <2>2, <2>3, <2>4, <2>5, <2>6, <2>7, <2>8, <2>9, <2>10,
     <2>11, <2>12, <2>13, <2>14, <2>15, <2>16, <2>17, <2>18, <2>19, <2>20,
     <2>21, <2>22, <2>23, <2>24, <2>25, <2>26, <2>27, <2>28, <2>29, <2>30,
     <2>31, <2>32, <2>33, <2>34, <2>35, <2>36 DEF Next, Host, Rest, Pause,
     Wait, Drop, Task
<1> QED BY <1>1, <1>2, AgentTypeCorrect, PTL DEF Spec

LEMMA StartsFollowed ==
  ASSUME TypeInvariant, RunsTracked, Starts PROVE Followed'
<1>1. /\ started' = started + 1 /\ started + 1 \in Runs /\ active' = TRUE /\ op' = "none"
      /\ task'[started + 1].ctx = messages' /\ UNCHANGED chan
  BY DEF Starts, TypeInvariant, TaskType, TaskAt
<1>2. chan[started + 1] = <<>>
  BY <1>1 DEF RunsTracked, Unborn, TypeInvariant, RunsType, Runs
<1>3. GoingActive' /\ WaitsForIdle'
  BY <1>1 DEF GoingActive, WaitsForIdle
<1>4. HistoryAhead'
  BY <1>1, <1>2 DEF HistoryAhead
<1> QED BY <1>3, <1>4 DEF Followed

LEMMA FollowedInvariant == Spec => []Followed
<1>1. Init => Followed
  BY HandleAssumption DEF Init, Followed, GoingActive, HistoryAhead,
     WaitsForIdle, CurrentHeld
<1>2. TypeInvariant /\ RunsTracked /\ Followed /\ [Next]_vars => Followed'
  <2> SUFFICES ASSUME TypeInvariant /\ RunsTracked, Followed, [Next]_vars PROVE Followed'
    OBVIOUS
  <2>1. CASE Prompt
    <3>1. Starts
      BY <2>1, PromptStarts
    <3> QED BY <3>1, StartsFollowed
  <2>2. CASE Continue
    <3>1. Starts
      BY <2>2, ContinueStarts
    <3> QED BY <3>1, StartsFollowed
  <2>3. CASE Resume
    <3>1. CASE Starts
      BY <3>1, StartsFollowed
    <3>2. CASE PutBack
      <4>1. GoingActive' /\ WaitsForIdle'
        BY <3>2 DEF PutBack, Followed, GoingActive, WaitsForIdle, CurrentHeld,
           Going, Alive
      <4>2. HistoryAhead'
        BY <3>2 DEF PutBack, Followed, GoingActive, HistoryAhead, CurrentHeld,
           Going, Alive
      <4> QED BY <4>1, <4>2 DEF Followed
    <3> QED BY <2>3, <3>1, <3>2, ResumeStarts
  <2>4. CASE SendQueued
    <3> QED BY <2>4 DEF Followed, SendQueued, host, GoingActive, CurrentHeld,
       Going, Alive, HistoryAhead, WaitsForIdle
  <2>5. CASE Abort
    <3> QED BY <2>5 DEF Followed, Abort, host, GoingActive, CurrentHeld,
       Going, Alive, HistoryAhead, WaitsForIdle
  <2>6. CASE Reset
    <3>1. GoingActive'
      BY <2>6 DEF Followed, Reset, HostIdle, CancelToken, Notify, Waiters,
         GoingActive, CurrentHeld, Going, Alive, TypeInvariant, RunsType,
         GuardType, Runs, TaskType, Tasks, ChannelType, RunsTracked, Unborn,
         Generations, DropCurrent, EndsLast
    <3>2. HistoryAhead'
      BY <2>6, IdsGrow, Fields DEF Followed, Reset, HostIdle, CancelToken,
         Notify, Waiters, HistoryAhead, CurrentHeld, Alive, TypeInvariant,
         RunsType, GuardType, Runs, TaskType, Tasks, ChannelType, RunsTracked,
         Generations, EndsLast, GoingActive
    <3>3. WaitsForIdle'
      BY <2>6 DEF Followed, Reset, HostIdle, CancelToken, Notify, Waiters,
         WaitsForIdle, Runs, TypeInvariant, RunsType, GuardType
    <3> QED BY <2>6, <3>1, <3>2, <3>3 DEF Followed
  <2>7. CASE PauseCancel
    <3>1. WaitsForIdle'
      BY <2>7 DEF Followed, PauseCancel, HostIdle, CancelToken, WaitsForIdle,
         Runs, TypeInvariant, RunsType, GuardType
    <3> QED BY <2>7, <3>1 DEF Followed, PauseCancel, GoingActive, CurrentHeld,
       Going, Alive, HistoryAhead
  <2>8. CASE PausePending
    <3>1. WaitsForIdle'
      BY <2>8 DEF Followed, PausePending, PauseStep, Checkpoint, WaitsForIdle,
         Runs, TypeInvariant, RunsType, GuardType, HostIdle
    <3> QED BY <2>8, <3>1 DEF Followed, PausePending, PauseStep, GoingActive,
       CurrentHeld, Going, Alive, HistoryAhead
  <2>9. CASE PauseFollowUp
    <3>1. WaitsForIdle'
      BY <2>9 DEF Followed, PauseFollowUp, PauseStep, Checkpoint,
         WaitsForIdle, Runs, TypeInvariant, RunsType, GuardType, HostIdle
    <3> QED BY <2>9, <3>1 DEF Followed, PauseFollowUp, PauseStep, GoingActive,
       CurrentHeld, Going, Alive, HistoryAhead
  <2>10. CASE PauseContext
    <3>1. WaitsForIdle'
      BY <2>10 DEF Followed, PauseContext, PauseStep, Checkpoint,
         WaitsForIdle, Runs, TypeInvariant, RunsType, GuardType, HostIdle
    <3> QED BY <2>10, <3>1 DEF Followed, PauseContext, PauseStep, GoingActive,
       CurrentHeld, Going, Alive, HistoryAhead
  <2>11. CASE PauseSteering
    <3>1. WaitsForIdle'
      BY <2>11 DEF Followed, PauseSteering, PauseStep, Checkpoint,
         WaitsForIdle, Runs, TypeInvariant, RunsType, GuardType, HostIdle
    <3> QED BY <2>11, <3>1 DEF Followed, PauseSteering, PauseStep,
       GoingActive, CurrentHeld, Going, Alive, HistoryAhead
  <2>12. CASE WaitRegister
    <3>1. WaitsForIdle'
      BY <2>12 DEF Followed, WaitRegister, WaitStep, WaitsForIdle, Runs,
         TypeInvariant, RunsType, GuardType, HostIdle
    <3> QED BY <2>12, <3>1 DEF Followed, WaitRegister, WaitStep, GoingActive,
       CurrentHeld, Going, Alive, HistoryAhead
  <2>13. CASE WaitCheck
    <3>1. WaitsForIdle'
      BY <2>13 DEF Followed, WaitCheck, WaitStep, WaitsForIdle, Runs,
         TypeInvariant, RunsType, GuardType, HostIdle
    <3> QED BY <2>13, <3>1 DEF Followed, WaitCheck, WaitStep, GoingActive,
       CurrentHeld, Going, Alive, HistoryAhead
  <2>14. CASE WaitAwait
    <3>1. WaitsForIdle'
      BY <2>14 DEF Followed, WaitAwait, WaitStep, WaitsForIdle, Runs,
         TypeInvariant, RunsType, GuardType, HostIdle
    <3> QED BY <2>14, <3>1 DEF Followed, WaitAwait, WaitStep, GoingActive,
       CurrentHeld, Going, Alive, HistoryAhead
  <2>15. CASE WaitWoken
    <3>1. WaitsForIdle'
      BY <2>15 DEF Followed, WaitWoken, WaitStep, WaitsForIdle, Runs,
         TypeInvariant, RunsType, GuardType, HostIdle
    <3> QED BY <2>15, <3>1 DEF Followed, WaitWoken, WaitStep, GoingActive,
       CurrentHeld, Going, Alive, HistoryAhead
  <2>16. CASE HandleEvent
    <3> DEFINE c == chan[started]
    <3>1. /\ started \in Runs /\ c # <<>> /\ op = "none"
          /\ chan' = [chan EXCEPT ![started] = Tail(c)]
          /\ CurrentHeld /\ UNCHANGED <<threads, started, guard, generation, task, op>>
      BY <2>16, HandleAssumption DEF HandleEvent, HostIdle, CurrentHeld,
         TypeInvariant, RunsType, Runs
    <3>2. c \in Seq(Events) /\ chan'[started] = Tail(c)
      BY <3>1 DEF TypeInvariant, ChannelType
    <3>3. /\ Head(c) = c[1] /\ 1 \in DOMAIN c /\ c[1] \in Events
          /\ \A i \in DOMAIN Tail(c) : i + 1 \in DOMAIN c /\ Tail(c)[i] = c[i + 1]
          /\ Len(c) = 1 => Tail(c) = <<>>
      BY <3>1, <3>2, Heads
    <3>4. WaitsForIdle'
      BY <3>1 DEF WaitsForIdle
    <3>5. CASE c[1].type = "TurnEnd"
      <4>1. messages' = Append(messages, "assistant") /\ UNCHANGED active
        BY <2>16, <3>3, <3>5 DEF HandleEvent
      <4>2. Ids(messages') = Ids(messages)
        BY <4>1, IdsGrow DEF TypeInvariant, QueuesType
      <4>3. GoingActive'
        BY <3>1, <4>1 DEF Followed, GoingActive, CurrentHeld, Going
      <4>4. HistoryAhead'
        BY <3>1, <3>2, <3>3, <4>2 DEF Followed, HistoryAhead, CurrentHeld, Alive
      <4> QED BY <3>4, <4>3, <4>4 DEF Followed
    <3>6. CASE c[1].type # "TurnEnd"
      <4>1. c[1].type = "AgentEnd"
        BY <3>3, <3>6 DEF Events
      <4>2. Tail(c) = <<>> /\ ~Alive(started)
        BY <3>1, <3>3, <4>1 DEF RunsTracked, EndsLast, Alive
      <4>3. ~Going'
        BY <3>1, <3>2, <4>2 DEF Going, Alive
      <4>4. GoingActive'
        BY <4>3 DEF GoingActive
      <4>5. DOMAIN (chan'[started']) = {}
        <5>1. chan'[started'] = <<>>
          BY <3>1, <3>2, <4>2
        <5> HIDE DEF c
        <5> QED BY <5>1
      <4>6. HistoryAhead'
        BY <3>1, <4>2, <4>5 DEF HistoryAhead, Alive
      <4> QED BY <3>4, <4>4, <4>6 DEF Followed
    <3> QED BY <3>5, <3>6
  <2>17. ASSUME NEW r \in Runs, DropCheck(r) PROVE Followed'
    <3>1. GoingActive'
      BY <2>17 DEF Followed, DropCheck, DropStep, GuardAt, host, OfCurrentRun,
         GoingActive, CurrentHeld, Going, Alive, TypeInvariant, RunsType,
         GuardType, Runs, TaskType, Tasks, ChannelType, RunsTracked, Unborn,
         Generations, DropCurrent, EndsLast
    <3>2. HistoryAhead'
      BY <2>17, IdsGrow, Fields DEF Followed, DropCheck, DropStep, GuardAt,
         host, OfCurrentRun, HistoryAhead, CurrentHeld, Alive, TypeInvariant,
         RunsType, GuardType, Runs, TaskType, Tasks, ChannelType, RunsTracked,
         Generations, EndsLast, GoingActive, HostIdle
    <3>3. WaitsForIdle'
      BY <2>17 DEF Followed, DropCheck, DropStep, GuardAt, host, OfCurrentRun,
         WaitsForIdle, Runs, TypeInvariant, RunsType, GuardType, HostIdle
    <3> QED BY <2>17, <3>1, <3>2, <3>3 DEF Followed
  <2>18. ASSUME NEW r \in Runs, DropCancel(r) PROVE Followed'
    <3>1. GoingActive'
      BY <2>18 DEF Followed, DropCancel, DropStep, GuardAt, host, GoingActive,
         CurrentHeld, Going, Alive, TypeInvariant, RunsType, GuardType, Runs,
         TaskType, Tasks, ChannelType, RunsTracked, Unborn, Generations,
         DropCurrent, EndsLast
    <3>2. HistoryAhead'
      BY <2>18, IdsGrow, Fields DEF Followed, DropCancel, DropStep, GuardAt,
         host, HistoryAhead, CurrentHeld, Alive, TypeInvariant, RunsType,
         GuardType, Runs, TaskType, Tasks, ChannelType, RunsTracked,
         Generations, EndsLast, GoingActive, HostIdle
    <3>3. WaitsForIdle'
      BY <2>18 DEF Followed, DropCancel, DropStep, GuardAt, host,
         WaitsForIdle, Runs, TypeInvariant, RunsType, GuardType, HostIdle
    <3> QED BY <2>18, <3>1, <3>2, <3>3 DEF Followed
  <2>19. ASSUME NEW r \in Runs, DropIdle(r) PROVE Followed'
    <3>1. GoingActive'
      BY <2>19 DEF Followed, DropIdle, DropStep, GuardAt, host, GoingActive,
         CurrentHeld, Going, Alive, TypeInvariant, RunsType, GuardType, Runs,
         TaskType, Tasks, ChannelType, RunsTracked, Unborn, Generations,
         DropCurrent, EndsLast
    <3>2. HistoryAhead'
      BY <2>19, IdsGrow, Fields DEF Followed, DropIdle, DropStep, GuardAt,
         host, HistoryAhead, CurrentHeld, Alive, TypeInvariant, RunsType,
         GuardType, Runs, TaskType, Tasks, ChannelType, RunsTracked,
         Generations, EndsLast, GoingActive, HostIdle
    <3>3. WaitsForIdle'
      BY <2>19 DEF Followed, DropIdle, DropStep, GuardAt, host, WaitsForIdle,
         Runs, TypeInvariant, RunsType, GuardType, HostIdle
    <3> QED BY <2>19, <3>1, <3>2, <3>3 DEF Followed
  <2>20. ASSUME NEW r \in Runs, DropPending(r) PROVE Followed'
    <3>1. GoingActive'
      BY <2>20 DEF Followed, DropPending, DropStep, GuardAt, host,
         GoingActive, CurrentHeld, Going, Alive, TypeInvariant, RunsType,
         GuardType, Runs, TaskType, Tasks, ChannelType, RunsTracked, Unborn,
         Generations, DropCurrent, EndsLast
    <3>2. HistoryAhead'
      BY <2>20, IdsGrow, Fields DEF Followed, DropPending, DropStep, GuardAt,
         host, HistoryAhead, CurrentHeld, Alive, TypeInvariant, RunsType,
         GuardType, Runs, TaskType, Tasks, ChannelType, RunsTracked,
         Generations, EndsLast, GoingActive, HostIdle
    <3>3. WaitsForIdle'
      BY <2>20 DEF Followed, DropPending, DropStep, GuardAt, host,
         WaitsForIdle, Runs, TypeInvariant, RunsType, GuardType, HostIdle
    <3> QED BY <2>20, <3>1, <3>2, <3>3 DEF Followed
  <2>21. ASSUME NEW r \in Runs, DropContext(r) PROVE Followed'
    <3>1. GoingActive'
      BY <2>21 DEF Followed, DropContext, DropStep, GuardAt, host,
         GoingActive, CurrentHeld, Going, Alive, TypeInvariant, RunsType,
         GuardType, Runs, TaskType, Tasks, ChannelType, RunsTracked, Unborn,
         Generations, DropCurrent, EndsLast
    <3>2. HistoryAhead'
      BY <2>21, IdsGrow, Fields DEF Followed, DropContext, DropStep, GuardAt,
         host, HistoryAhead, CurrentHeld, Alive, TypeInvariant, RunsType,
         GuardType, Runs, TaskType, Tasks, ChannelType, RunsTracked,
         Generations, EndsLast, GoingActive, HostIdle
    <3>3. WaitsForIdle'
      BY <2>21 DEF Followed, DropContext, DropStep, GuardAt, host,
         WaitsForIdle, Runs, TypeInvariant, RunsType, GuardType, HostIdle
    <3> QED BY <2>21, <3>1, <3>2, <3>3 DEF Followed
  <2>22. ASSUME NEW r \in Runs, DropNotify(r) PROVE Followed'
    <3>1. GoingActive'
      BY <2>22 DEF Followed, DropNotify, DropStep, GuardAt, host, Notify,
         Waiters, GoingActive, CurrentHeld, Going, Alive, TypeInvariant,
         RunsType, GuardType, Runs, TaskType, Tasks, ChannelType, RunsTracked,
         Unborn, Generations, DropCurrent, EndsLast
    <3>2. HistoryAhead'
      BY <2>22, IdsGrow, Fields DEF Followed, DropNotify, DropStep, GuardAt,
         host, Notify, Waiters, HistoryAhead, CurrentHeld, Alive,
         TypeInvariant, RunsType, GuardType, Runs, TaskType, Tasks,
         ChannelType, RunsTracked, Generations, EndsLast, GoingActive,
         HostIdle
    <3>3. WaitsForIdle'
      BY <2>22 DEF Followed, DropNotify, DropStep, GuardAt, host, Notify,
         Waiters, WaitsForIdle, Runs, TypeInvariant, RunsType, GuardType,
         HostIdle
    <3> QED BY <2>22, <3>1, <3>2, <3>3 DEF Followed
  <2>23. ASSUME NEW r \in Runs, EmitAgentStart(r) PROVE Followed'
    <3>1. GoingActive'
      BY <2>23 DEF Followed, EmitAgentStart, TaskStep, host, Closed, Returned,
         TaskAt, At, GoingActive, CurrentHeld, Going, Alive, TypeInvariant,
         RunsType, GuardType, Runs, TaskType, Tasks, ChannelType, RunsTracked,
         Unborn, Generations, DropCurrent, EndsLast
    <3>2. HistoryAhead'
      BY <2>23, IdsGrow, Fields DEF Followed, EmitAgentStart, TaskStep, host,
         Closed, Returned, TaskAt, At, HistoryAhead, CurrentHeld, Alive,
         TypeInvariant, RunsType, GuardType, Runs, TaskType, Tasks,
         ChannelType, RunsTracked, Generations, EndsLast, GoingActive,
         HostIdle
    <3> QED BY <2>23, <3>1, <3>2 DEF Followed, EmitAgentStart, TaskStep, host,
       WaitsForIdle
  <2>24. ASSUME NEW r \in Runs, InjectPending(r) PROVE Followed'
    <3>1. GoingActive'
      BY <2>24 DEF Followed, InjectPending, TaskStep, host, TaskAt,
         GoingActive, CurrentHeld, Going, Alive, TypeInvariant, RunsType,
         GuardType, Runs, TaskType, Tasks, ChannelType, RunsTracked, Unborn,
         Generations, DropCurrent, EndsLast
    <3>2. HistoryAhead'
      <4>1. /\ task[r].pc # "returned" /\ task' = [task EXCEPT ![r] = task'[r]]
            /\ Ids(task[r].ctx) \subseteq Ids(task'[r].ctx) /\ task'[r].pc # "returned"
            /\ UNCHANGED <<threads, started, guard, generation, messages, chan>>
        BY <2>24, IdsGrow, Fields DEF InjectPending, TaskStep, host, TaskAt,
           TypeInvariant, TaskType
      <4>2. \A s \in Runs : s # r => task'[s] = task[s]
        BY <4>1 DEF TypeInvariant, TaskType
      <4>3. started > 0 => started \in Runs
        BY DEF TypeInvariant, RunsType, Runs
      <4> QED BY <4>1, <4>2, <4>3 DEF Followed, HistoryAhead, CurrentHeld, Alive
    <3> QED BY <2>24, <3>1, <3>2 DEF Followed, InjectPending, TaskStep, host,
       WaitsForIdle
  <2>25. ASSUME NEW r \in Runs, ClearPending(r) PROVE Followed'
    <3>1. GoingActive'
      BY <2>25 DEF Followed, ClearPending, TaskStep, host, At, TaskAt,
         GoingActive, CurrentHeld, Going, Alive, TypeInvariant, RunsType,
         GuardType, Runs, TaskType, Tasks, ChannelType, RunsTracked, Unborn,
         Generations, DropCurrent, EndsLast
    <3>2. HistoryAhead'
      BY <2>25, IdsGrow, Fields DEF Followed, ClearPending, TaskStep, host,
         At, TaskAt, HistoryAhead, CurrentHeld, Alive, TypeInvariant,
         RunsType, GuardType, Runs, TaskType, Tasks, ChannelType, RunsTracked,
         Generations, EndsLast, GoingActive, HostIdle
    <3> QED BY <2>25, <3>1, <3>2 DEF Followed, ClearPending, TaskStep, host,
       WaitsForIdle
  <2>26. ASSUME NEW r \in Runs, SyncContext(r) PROVE Followed'
    <3>1. GoingActive'
      BY <2>26 DEF Followed, SyncContext, TaskStep, host, At, TaskAt,
         GoingActive, CurrentHeld, Going, Alive, TypeInvariant, RunsType,
         GuardType, Runs, TaskType, Tasks, ChannelType, RunsTracked, Unborn,
         Generations, DropCurrent, EndsLast
    <3>2. HistoryAhead'
      BY <2>26, IdsGrow, Fields DEF Followed, SyncContext, TaskStep, host, At,
         TaskAt, HistoryAhead, CurrentHeld, Alive, TypeInvariant, RunsType,
         GuardType, Runs, TaskType, Tasks, ChannelType, RunsTracked,
         Generations, EndsLast, GoingActive, HostIdle
    <3> QED BY <2>26, <3>1, <3>2 DEF Followed, SyncContext, TaskStep, host,
       WaitsForIdle
  <2>27. ASSUME NEW r \in Runs, ModelAnswers(r) PROVE Followed'
    <3>1. GoingActive'
      BY <2>27 DEF Followed, ModelAnswers, TaskStep, host, TaskAt,
         GoingActive, CurrentHeld, Going, Alive, TypeInvariant, RunsType,
         GuardType, Runs, TaskType, Tasks, ChannelType, RunsTracked, Unborn,
         Generations, DropCurrent, EndsLast
    <3>2. HistoryAhead'
      <4>1. /\ task[r].pc # "returned" /\ task' = [task EXCEPT ![r] = task'[r]]
            /\ Ids(task[r].ctx) \subseteq Ids(task'[r].ctx) /\ task'[r].pc # "returned"
            /\ UNCHANGED <<threads, started, guard, generation, messages, chan>>
        BY <2>27, IdsGrow, Fields DEF ModelAnswers, TaskStep, host, TaskAt,
           TypeInvariant, TaskType
      <4>2. \A s \in Runs : s # r => task'[s] = task[s]
        BY <4>1 DEF TypeInvariant, TaskType
      <4>3. started > 0 => started \in Runs
        BY DEF TypeInvariant, RunsType, Runs
      <4> QED BY <4>1, <4>2, <4>3 DEF Followed, HistoryAhead, CurrentHeld, Alive
    <3> QED BY <2>27, <3>1, <3>2 DEF Followed, ModelAnswers, TaskStep, host,
       WaitsForIdle
  <2>28. ASSUME NEW r \in Runs, ModelAborts(r) PROVE Followed'
    <3>1. GoingActive'
      BY <2>28 DEF Followed, ModelAborts, TaskStep, host, At, TaskAt,
         GoingActive, CurrentHeld, Going, Alive, TypeInvariant, RunsType,
         GuardType, Runs, TaskType, Tasks, ChannelType, RunsTracked, Unborn,
         Generations, DropCurrent, EndsLast
    <3>2. HistoryAhead'
      BY <2>28, IdsGrow, Fields DEF Followed, ModelAborts, TaskStep, host, At,
         TaskAt, HistoryAhead, CurrentHeld, Alive, TypeInvariant, RunsType,
         GuardType, Runs, TaskType, Tasks, ChannelType, RunsTracked,
         Generations, EndsLast, GoingActive, HostIdle
    <3> QED BY <2>28, <3>1, <3>2 DEF Followed, ModelAborts, TaskStep, host,
       WaitsForIdle
  <2>29. ASSUME NEW r \in Runs, EmitTurnEnd(r) PROVE Followed'
    <3>1. GoingActive'
      BY <2>29 DEF Followed, EmitTurnEnd, TaskStep, host, Closed, Returned,
         TaskAt, At, Emits, GoingActive, CurrentHeld, Going, Alive,
         TypeInvariant, RunsType, GuardType, Runs, TaskType, Tasks,
         ChannelType, RunsTracked, Unborn, Generations, DropCurrent, EndsLast
    <3>2. HistoryAhead'
      BY <2>29, IdsGrow, Fields, SMTT(40) DEF Followed, EmitTurnEnd, TaskStep, host,
         Closed, Returned, TaskAt, At, Emits, HistoryAhead, CurrentHeld,
         Alive, TypeInvariant, RunsType, GuardType, Runs, TaskType, Tasks,
         ChannelType, RunsTracked, Generations, EndsLast, GoingActive,
         HostIdle
    <3> QED BY <2>29, <3>1, <3>2 DEF Followed, EmitTurnEnd, TaskStep, host,
       WaitsForIdle
  <2>30. ASSUME NEW r \in Runs, EmitAbortedTurn(r) PROVE Followed'
    <3>1. GoingActive'
      BY <2>30 DEF Followed, EmitAbortedTurn, TaskStep, host, Closed,
         Returned, TaskAt, Emits, GoingActive, CurrentHeld, Going, Alive,
         TypeInvariant, RunsType, GuardType, Runs, TaskType, Tasks,
         ChannelType, RunsTracked, Unborn, Generations, DropCurrent, EndsLast
    <3>2. HistoryAhead'
      <4>1. task[r].pc # "returned" /\ UNCHANGED <<threads, started, guard, generation, messages>>
        BY <2>30 DEF EmitAbortedTurn, TaskStep, host
      <4>2. CASE Closed(r)
        BY <2>30, <4>1, <4>2 DEF EmitAbortedTurn, TaskStep, Emits, Closed,
           Returned, TaskAt, Followed, HistoryAhead, CurrentHeld, Alive,
           TypeInvariant, TaskType
      <4>3. CASE ~Closed(r)
        <5> DEFINE e == [type |-> "TurnEnd", ctx |-> Append(task[r].ctx, "assistant")]
        <5>1. /\ task'[r].ctx = Append(task[r].ctx, "assistant")
              /\ \A s \in Runs : s # r => task'[s] = task[s]
          BY <2>30, <4>3 DEF EmitAbortedTurn, TaskStep, TaskAt, TypeInvariant,
             TaskType
        <5>2. Ids(task'[r].ctx) = Ids(task[r].ctx)
          BY <5>1, IdsGrow, Fields
        <5>3. chan' = [chan EXCEPT ![r] = Append(chan[r], e)]
          BY <2>30, <4>3 DEF EmitAbortedTurn, Emits
        <5>4. chan[r] \in Seq(Events) /\ chan'[r] = Append(chan[r], e)
          BY <5>3 DEF TypeInvariant, ChannelType
        <5>5. \A i \in DOMAIN chan'[r] : chan'[r][i] = e \/ (i \in DOMAIN chan[r] /\ chan'[r][i] = chan[r][i])
          BY <5>4
        <5>6. \A s \in Runs : s # r => chan'[s] = chan[s]
          BY <5>3 DEF TypeInvariant, ChannelType
        <5>7. e.type = "TurnEnd"
          OBVIOUS
        <5> HIDE DEF e
        <5>8. started > 0 => started \in Runs
          BY DEF TypeInvariant, RunsType, Runs
        <5> QED BY <4>1, <5>1, <5>2, <5>5, <5>6, <5>7, <5>8, ZenonT(40) DEF
           Followed, HistoryAhead, CurrentHeld, Alive
      <4> QED BY <4>2, <4>3
    <3> QED BY <2>30, <3>1, <3>2 DEF Followed, EmitAbortedTurn, TaskStep,
       host, WaitsForIdle
  <2>31. ASSUME NEW r \in Runs, PollSteering(r) PROVE Followed'
    <3>1. GoingActive'
      BY <2>31 DEF Followed, PollSteering, TaskStep, host, TaskAt,
         GoingActive, CurrentHeld, Going, Alive, TypeInvariant, RunsType,
         GuardType, Runs, TaskType, Tasks, ChannelType, RunsTracked, Unborn,
         Generations, DropCurrent, EndsLast
    <3>2. HistoryAhead'
      BY <2>31, IdsGrow, Fields DEF Followed, PollSteering, TaskStep, host,
         TaskAt, HistoryAhead, CurrentHeld, Alive, TypeInvariant, RunsType,
         GuardType, Runs, TaskType, Tasks, ChannelType, RunsTracked,
         Generations, EndsLast, GoingActive, HostIdle
    <3> QED BY <2>31, <3>1, <3>2 DEF Followed, PollSteering, TaskStep, host,
       WaitsForIdle
  <2>32. ASSUME NEW r \in Runs, PollFollowUp(r) PROVE Followed'
    <3>1. GoingActive'
      BY <2>32 DEF Followed, PollFollowUp, TaskStep, host, TaskAt,
         GoingActive, CurrentHeld, Going, Alive, TypeInvariant, RunsType,
         GuardType, Runs, TaskType, Tasks, ChannelType, RunsTracked, Unborn,
         Generations, DropCurrent, EndsLast
    <3>2. HistoryAhead'
      BY <2>32, IdsGrow, Fields DEF Followed, PollFollowUp, TaskStep, host,
         TaskAt, HistoryAhead, CurrentHeld, Alive, TypeInvariant, RunsType,
         GuardType, Runs, TaskType, Tasks, ChannelType, RunsTracked,
         Generations, EndsLast, GoingActive, HostIdle
    <3> QED BY <2>32, <3>1, <3>2 DEF Followed, PollFollowUp, TaskStep, host,
       WaitsForIdle
  <2>33. ASSUME NEW r \in Runs, AppendSnapshot(r) PROVE Followed'
    <3>1. GoingActive'
      BY <2>33 DEF Followed, AppendSnapshot, TaskStep, host, At, TaskAt,
         GoingActive, CurrentHeld, Going, Alive, TypeInvariant, RunsType,
         GuardType, Runs, TaskType, Tasks, ChannelType, RunsTracked, Unborn,
         Generations, DropCurrent, EndsLast
    <3>2. HistoryAhead'
      BY <2>33, IdsGrow, Fields DEF Followed, AppendSnapshot, TaskStep, host,
         At, TaskAt, HistoryAhead, CurrentHeld, Alive, TypeInvariant,
         RunsType, GuardType, Runs, TaskType, Tasks, ChannelType, RunsTracked,
         Generations, EndsLast, GoingActive, HostIdle
    <3> QED BY <2>33, <3>1, <3>2 DEF Followed, AppendSnapshot, TaskStep, host,
       WaitsForIdle
  <2>34. ASSUME NEW r \in Runs, ReplaceSnapshot(r) PROVE Followed'
    <3>1. GoingActive'
      BY <2>34 DEF Followed, ReplaceSnapshot, TaskStep, host, TaskAt,
         GoingActive, CurrentHeld, Going, Alive, TypeInvariant, RunsType,
         GuardType, Runs, TaskType, Tasks, ChannelType, RunsTracked, Unborn,
         Generations, DropCurrent, EndsLast
    <3>2. HistoryAhead'
      BY <2>34, IdsGrow, Fields DEF Followed, ReplaceSnapshot, TaskStep, host,
         TaskAt, HistoryAhead, CurrentHeld, Alive, TypeInvariant, RunsType,
         GuardType, Runs, TaskType, Tasks, ChannelType, RunsTracked,
         Generations, EndsLast, GoingActive, HostIdle
    <3> QED BY <2>34, <3>1, <3>2 DEF Followed, ReplaceSnapshot, TaskStep,
       host, WaitsForIdle
  <2>35. ASSUME NEW r \in Runs, EmitAgentEnd(r) PROVE Followed'
    <3>1. GoingActive'
      BY <2>35 DEF Followed, EmitAgentEnd, TaskStep, host, Returned, TaskAt,
         Emits, Closed, GoingActive, CurrentHeld, Going, Alive, TypeInvariant,
         RunsType, GuardType, Runs, TaskType, Tasks, ChannelType, RunsTracked,
         Unborn, Generations, DropCurrent, EndsLast
    <3>2. HistoryAhead'
      BY <2>35, IdsGrow, Fields, SMTT(40) DEF Followed, EmitAgentEnd, TaskStep,
         host, Returned, TaskAt, Emits, Closed, HistoryAhead, CurrentHeld,
         Alive, TypeInvariant, RunsType, GuardType, Runs, TaskType, Tasks,
         ChannelType, RunsTracked, Generations, EndsLast, GoingActive, HostIdle
    <3> QED BY <2>35, <3>1, <3>2 DEF Followed, EmitAgentEnd, TaskStep, host,
       WaitsForIdle
  <2>36. CASE UNCHANGED vars
    BY <2>36 DEF vars, shared, history, Followed, GoingActive, CurrentHeld,
       Going, Alive, HistoryAhead, WaitsForIdle
  <2> QED BY <2>1, <2>2, <2>3, <2>4, <2>5, <2>6, <2>7, <2>8, <2>9, <2>10,
     <2>11, <2>12, <2>13, <2>14, <2>15, <2>16, <2>17, <2>18, <2>19, <2>20,
     <2>21, <2>22, <2>23, <2>24, <2>25, <2>26, <2>27, <2>28, <2>29, <2>30,
     <2>31, <2>32, <2>33, <2>34, <2>35, <2>36 DEF Next, Host, Rest, Pause,
     Wait, Drop, Task
<1> QED BY <1>1, <1>2, AgentTypeCorrect, RunsInvariant, PTL DEF Spec

(* An agent never stays running without its stream, and no old guard stops *)
(* a run that is going.                                                    *)
THEOREM RunningExactly == Spec => []ActiveExact
<1>1. RunsTracked /\ Followed => ActiveExact
  BY DEF RunsTracked, ActiveHeld, Followed, GoingActive, CurrentHeld, Going,
     ActiveExact
<1> QED BY <1>1, RunsInvariant, FollowedInvariant, PTL

(* No waiter sleeps through the transition to idle.                        *)
THEOREM WakeupsKept == Spec => []NoLostWakeup
<1>1. Followed => NoLostWakeup
  BY DEF Followed, WaitsForIdle, NoLostWakeup
<1> QED BY <1>1, FollowedInvariant, PTL

(* No step but a reset or a resume takes a message out of the history.     *)
THEOREM HistoryIsKept == Spec => HistoryKept
<1> DEFINE Grows == Ids(messages) \subseteq Ids(messages')
<1>1. ASSUME TypeInvariant, RunsTracked, Followed, [Next]_vars
      PROVE  threads = "many" \/ Reset \/ Resume \/ UNCHANGED vars \/ Grows
  <2>1. CASE Prompt
    BY <1>1, <2>1, PromptStarts
  <2>2. CASE Continue
    BY <1>1, <2>2, ContinueStarts
  <2>3. CASE HandleEvent
    <3> SUFFICES ASSUME threads = "one" PROVE Grows
      BY <1>1 DEF TypeInvariant, FlagsType
    <3> DEFINE c == chan[started]
    <3>1. started \in Runs /\ c # <<>> /\ CurrentHeld
      BY <1>1, <2>3, HandleAssumption DEF HandleEvent, CurrentHeld,
         TypeInvariant, RunsType, Runs
    <3>2. c \in Seq(Events)
      BY <1>1, <3>1 DEF TypeInvariant, ChannelType
    <3>3. Head(c) = c[1] /\ 1 \in DOMAIN c /\ c[1] \in Events
      BY <3>1, <3>2, Heads
    <3>4. CASE c[1].type = "TurnEnd"
      <4>1. messages' = Append(messages, "assistant")
        BY <2>3, <3>3, <3>4 DEF HandleEvent
      <4> QED BY <1>1, <4>1, IdsGrow DEF TypeInvariant, QueuesType
    <3>5. CASE c[1].type = "AgentEnd"
      <4>1. messages' = c[1].ctx
        BY <2>3, <3>3, <3>5 DEF HandleEvent, clone_messages
      <4> QED BY <1>1, <3>1, <3>3, <3>5, <4>1 DEF Followed, HistoryAhead
    <3> QED BY <3>3, <3>4, <3>5 DEF Events
  <2>4. CASE SendQueued \/ Abort \/ Pause \/ Wait
    BY <2>4 DEF SendQueued, Abort, Pause, PauseCancel, PausePending,
       PauseFollowUp, PauseContext, PauseSteering, PauseStep, Wait,
       WaitRegister, WaitCheck, WaitAwait, WaitWoken, WaitStep, host
  <2>5. ASSUME NEW r \in Runs, Drop(r) PROVE Grows
    BY <2>5 DEF Drop, DropCheck, DropCancel, DropIdle, DropPending, DropContext,
       DropNotify, DropStep, host
  <2>6. ASSUME NEW r \in Runs, Task(r) PROVE Grows
    BY <2>6 DEF Task, EmitAgentStart, InjectPending, ClearPending, SyncContext,
       ModelAnswers, ModelAborts, EmitTurnEnd, EmitAbortedTurn, PollSteering,
       PollFollowUp, AppendSnapshot, ReplaceSnapshot, EmitAgentEnd, TaskStep,
       host
  <2> QED BY <1>1, <2>1, <2>2, <2>3, <2>4, <2>5, <2>6 DEF Next, Host, Rest
<1>2. ASSUME TypeInvariant, RunsTracked, Followed, [Next]_vars
      PROVE  [threads = "many" \/ Reset \/ Resume \/ Grows]_vars
  BY <1>1, <1>2
<1> HIDE DEF Grows
<1>3. [][threads = "many" \/ Reset \/ Resume \/ Grows]_vars => HistoryKept
  BY PTL DEF HistoryKept, Grows
<1> QED BY <1>2, <1>3, AgentTypeCorrect, RunsInvariant, FollowedInvariant, PTL
   DEF Spec

-----------------------------------------------------------------------------
(* The rest is about pause: the history, the run's context, the queues and *)
(* the snapshots put together have each message of the host at most once,  *)
(* and those the agent answers for exactly once.                           *)

(* How often a message is in a sequence.                                   *)
Occurs(s, m) == Cardinality({i \in DOMAIN s : s[i] = m})

(* A message that occurs nowhere is counted zero times.                    *)
LEMMA OccursNat ==
  ASSUME NEW s \in History, NEW m
  PROVE  Occurs(s, m) \in Nat /\ (Occurs(s, m) = 0 <=> \A i \in DOMAIN s : s[i] # m)
<1> DEFINE I == {i \in DOMAIN s : s[i] = m}
<1>1. IsFiniteSet(1..Len(s)) /\ I \subseteq 1..Len(s)
  BY FS_Interval DEF History
<1>2. IsFiniteSet(I)
  BY <1>1, FS_Subset
<1>3. Cardinality(I) \in Nat /\ (Cardinality(I) = 0 <=> I = {})
  BY <1>2, FS_CardinalityType, FS_EmptySet
<1> QED BY <1>3 DEF Occurs

(* The counts of two sequences put together add up.                        *)
LEMMA OccursConcat ==
  ASSUME NEW s \in History, NEW t \in History, NEW m
  PROVE  Occurs(s \o t, m) = Occurs(s, m) + Occurs(t, m)
<1> DEFINE I == {i \in DOMAIN s : s[i] = m}
           J == {i \in DOMAIN t : t[i] = m}
           K == {i \in DOMAIN (s \o t) : (s \o t)[i] = m}
           S == {i \in K : i > Len(s)}
           f == [j \in J |-> j + Len(s)]
<1>1. /\ Len(s) \in Nat /\ Len(t) \in Nat
      /\ DOMAIN s = 1..Len(s) /\ DOMAIN t = 1..Len(t)
      /\ DOMAIN (s \o t) = 1..Len(s) + Len(t)
      /\ \A i \in 1..Len(s) : (s \o t)[i] = s[i]
      /\ \A i \in 1..Len(t) : (s \o t)[i + Len(s)] = t[i]
  BY DEF History
<1>2. K = I \cup S
  <2>1. \A k \in K : k <= Len(s) => k \in I
    BY <1>1
  <2>2. I \subseteq K
    BY <1>1
  <2>3. K \subseteq Nat
    BY <1>1
  <2>4. \A k \in K : k <= Len(s) \/ k > Len(s)
    BY <1>1, <2>3
  <2> HIDE DEF I, K
  <2> QED BY <2>1, <2>2, <2>4
<1>3. I \cap S = {}
  <2>1. \A i \in I : i \in Nat /\ i <= Len(s)
    BY <1>1
  <2>2. \A i \in S : i > Len(s)
    OBVIOUS
  <2> HIDE DEF I, S
  <2> QED BY <1>1, <2>1, <2>2
<1>4. IsFiniteSet(I) /\ IsFiniteSet(J)
  <2>1. I \subseteq 1..Len(s) /\ J \subseteq 1..Len(t)
    BY <1>1
  <2>2. IsFiniteSet(1..Len(s)) /\ IsFiniteSet(1..Len(t))
    BY <1>1, FS_Interval
  <2> HIDE DEF I, J
  <2> QED BY <2>1, <2>2, FS_Subset
<1>5. f \in Bijection(J, S)
  <2>1. \A j \in J : j + Len(s) \in S /\ j \in Nat
    BY <1>1
  <2>2. \A k \in S : k - Len(s) \in J /\ k = (k - Len(s)) + Len(s)
    <3> SUFFICES ASSUME NEW k \in S PROVE k - Len(s) \in J /\ k = (k - Len(s)) + Len(s)
      OBVIOUS
    <3>1. k - Len(s) \in 1..Len(t) /\ k = (k - Len(s)) + Len(s) /\ (s \o t)[k] = m
      BY <1>1
    <3>2. t[k - Len(s)] = m
      BY <1>1, <3>1
    <3> QED BY <1>1, <3>1, <3>2
  <2>3. \A i, j \in J : i + Len(s) = j + Len(s) => i = j
    BY <1>1, <2>1
  <2> HIDE DEF J, S
  <2>4. f \in [J -> S]
    BY <2>1
  <2>5. \A k \in S : k - Len(s) \in J /\ f[k - Len(s)] = k
    BY <2>2
  <2> QED BY <2>3, <2>4, <2>5 DEF Bijection, Injection, Surjection, IsInjective
<1>6. IsFiniteSet(S) /\ Cardinality(S) = Cardinality(J)
  <2> HIDE DEF J, S, f
  <2>1. ExistsBijection(J, S)
    BY <1>5 DEF ExistsBijection
  <2>2. IsFiniteSet(S)
    <3>1. S \subseteq 1..Len(s) + Len(t)
      BY <1>1 DEF S
    <3>2. IsFiniteSet(1..Len(s) + Len(t))
      <4>1. 1 \in Int /\ Len(s) + Len(t) \in Int
        BY <1>1
      <4> QED BY <4>1, FS_Interval
    <3> QED BY <3>1, <3>2, FS_Subset
  <2> QED BY <1>4, <2>1, <2>2, FS_Bijection
<1>7. Cardinality(I \cup S) = Cardinality(I) + Cardinality(S) - Cardinality(I \cap S)
  <2> HIDE DEF I, S
  <2> QED BY <1>4, <1>6, FS_Union
<1>8. Cardinality({}) = 0 /\ Cardinality(I) \in Nat /\ Cardinality(S) \in Nat
  <2> HIDE DEF I, S
  <2> QED BY <1>4, <1>6, FS_EmptySet, FS_CardinalityType
<1>9. /\ Occurs(s \o t, m) = Cardinality(K) /\ Occurs(s, m) = Cardinality(I)
      /\ Occurs(t, m) = Cardinality(J)
  BY Zenon DEF Occurs
<1> HIDE DEF I, J, K, S
<1>10. Cardinality(K) = Cardinality(I) + Cardinality(J)
  <2>1. Cardinality(K) = Cardinality(I \cup S) /\ Cardinality(I \cap S) = 0
    BY <1>2, <1>3, <1>8
  <2> QED BY <1>6, <1>7, <1>8, <2>1
<1> QED BY <1>9, <1>10

(* One entry.                                                              *)
LEMMA OccursOne ==
  ASSUME NEW x, NEW m PROVE Occurs(<<x>>, m) = IF x = m THEN 1 ELSE 0
<1> DEFINE I == {i \in DOMAIN <<x>> : <<x>>[i] = m}
<1>1. DOMAIN <<x>> = {1} /\ <<x>>[1] = x
  OBVIOUS
<1>2. I = IF x = m THEN {1} ELSE {}
  BY <1>1
<1>3. Cardinality({1}) = 1 /\ Cardinality({}) = 0
  BY FS_Singleton, FS_EmptySet
<1> HIDE DEF I
<1>4. Cardinality(I) = IF x = m THEN 1 ELSE 0
  BY <1>2, <1>3
<1> QED BY <1>4 DEF Occurs, I

(* No entry.                                                               *)
LEMMA OccursNone ==
  ASSUME NEW m PROVE Occurs(<<>>, m) = 0
<1>1. \A i \in DOMAIN <<>> : <<>>[i] # m
  OBVIOUS
<1> QED BY <1>1, OccursNat, Histories

(* An answer changes no count of a message of the host.                    *)
LEMMA OccursAppend ==
  ASSUME NEW s \in History, NEW m \in Messages
  PROVE  /\ Occurs(Append(s, "assistant"), m) = Occurs(s, m)
         /\ \A x \in Messages : Occurs(Append(s, x), m) = Occurs(s, m) + (IF x = m THEN 1 ELSE 0)
<1>1. ASSUME NEW x \in Messages \cup {"assistant"}
      PROVE  Occurs(Append(s, x), m) = Occurs(s, m) + (IF x = m THEN 1 ELSE 0)
  <2>1. Append(s, x) = s \o <<x>> /\ <<x>> \in History
    BY DEF History
  <2> QED BY <2>1, OccursConcat, OccursOne
<1>2. "assistant" # m /\ Occurs(s, m) \in Nat
  BY HandleAssumption, OccursNat
<1> QED BY <1>1, <1>2

(* A poll takes what it leaves out.                                        *)
LEMMA OccursDrained ==
  ASSUME NEW q \in History, NEW m
  PROVE  Occurs(Drained(q), m) + Occurs(Left(q), m) = Occurs(q, m)
<1>1. CASE OneAtATime /\ q # <<>>
  <2> DEFINE h == <<Head(q)>>
             u == Tail(q)
  <2>1. q = h \o u /\ h \in History /\ u \in History
    BY <1>1 DEF History
  <2>2. Drained(q) = h /\ Left(q) = u
    BY <1>1 DEF Drained, Left
  <2> HIDE DEF h, u
  <2>3. Occurs(h \o u, m) = Occurs(h, m) + Occurs(u, m)
    BY <2>1, OccursConcat
  <2> QED BY <2>1, <2>2, <2>3
<1>2. CASE ~(OneAtATime /\ q # <<>>)
  BY <1>2, OccursNone, OccursNat DEF Drained, Left
<1> QED BY <1>1, <1>2

(* The messages of a sequence are those that occur in it.                  *)
LEMMA OccursIds ==
  ASSUME NEW s \in History, NEW m \in Messages PROVE m \in Ids(s) <=> Occurs(s, m) > 0
<1>1. m \in Ids(s) <=> \E i \in DOMAIN s : s[i] = m
  BY DEF Ids
<1>2. Occurs(s, m) \in Nat /\ (Occurs(s, m) = 0 <=> \A i \in DOMAIN s : s[i] # m)
  BY OccursNat
<1> QED BY <1>1, <1>2

OnOneThread == threads = "one" /\ ~overlap
Current == task[started]

(* Only the last run's task may still be going.                            *)
OneAlive == \A r \in Runs : Alive(r) => r = started

(* What a task holds besides its context, by its step.                     *)
Fits(t) ==
  /\ t.pc # "returned" => t.ctx # <<>>
  /\ t.pc # "inject" => t.pending = <<>>
  /\ t.pc \notin {"append", "replace"} => t.polled = <<>>
Shapes == started > 0 => Fits(Current)

(* A run that ended leaves its context in its last event.                  *)
LastEvent == chan[started][Len(chan[started])]
Ending == active /\ ~Alive(started) => chan[started] # <<>> /\ LastEvent.type = "AgentEnd"

(* The context the run works on, or has published.                         *)
Work == IF Alive(started) THEN Current.ctx ELSE LastEvent.ctx

(* The history the host sees has no message the run has not.               *)
Behind == active => \A m \in Messages : Occurs(messages, m) <= Occurs(Work, m)

(* Between two awaits of the task the context snapshot holds the messages  *)
(* of its context, or the history does, and nothing is pending.            *)
SnapsFit(pc, work, ctx, pending) ==
  /\ pc \in {"inject", "clear", "append", "replace"} \/ pending = <<>>
  /\ pc \notin {"start", "inject", "clear", "sync", "append", "replace"} =>
       ctx # <<>> /\ \A m \in Messages : Occurs(ctx, m) = Occurs(work, m)
Snapshots ==
  active =>
    /\ SnapsFit(Current.pc, Work, snapCtx, snapPending)
    /\ Current.pc = "start" => snapCtx = <<>> /\ messages = Current.ctx /\ chan[started] = <<>>

(* The task of an ended run takes nothing from the queues: its stream is   *)
(* gone, or a reset has emptied them.                                      *)
Zombies ==
  ~active /\ started > 0 /\ Alive(started) =>
    \/ guard[started].pc # "held" /\ Current.pc \notin MidTask
    \/ steering = <<>> /\ followUp = <<>>

Paused == {"pause_pending", "pause_follow_up", "pause_ctx", "pause_steering"}
Pausing ==
  /\ op \in Paused => active /\ cp.state = "none"
  /\ op = "pause_follow_up" => cp.pending = <<>>
  /\ op = "pause_ctx" => followUp = <<>>

(* How often the agent, or the checkpoint taken from it, has a message.    *)
Load(m) ==
  Occurs(Work, m) + Occurs(Current.pending, m) + Occurs(Current.polled, m)
    + Occurs(steering, m) + Occurs(followUp, m)
Tally(m) ==
  IF cp.state = "taken" THEN Occurs(cp.ctx, m) + Occurs(cp.pending, m) + Occurs(cp.steering, m)
  ELSE IF op = "pause_steering" THEN Occurs(cp.ctx, m) + Occurs(cp.pending, m) + Occurs(steering, m)
  ELSE IF op = "pause_ctx" THEN Load(m) + Occurs(cp.pending, m)
  ELSE IF active THEN Load(m)
  ELSE Occurs(messages, m) + Occurs(steering, m) + Occurs(followUp, m)
Dropping == \E r \in Runs : guard[r].pc \in {"clear", "clear_ctx", "notify"}
Due == IF cp.state = "taken" THEN cp.owed ELSE IF Dropping THEN {} ELSE held
Tallied ==
  \A m \in Messages : /\ Tally(m) <= 1
                      /\ m \in Due => Tally(m) = 1
                      /\ m \notin sent => Tally(m) = 0

Counted ==
  /\ OneAlive /\ Shapes /\ Ending /\ Behind /\ Snapshots /\ Zombies /\ Pausing /\ Tallied
Known == TypeInvariant /\ RunsTracked /\ GoingActive /\ OnOneThread /\ Counted

-----------------------------------------------------------------------------
(* Whose turn it is on one thread.                                         *)
LEMMA HostTurn ==
  ASSUME OnOneThread, May(<<"host", 0>>), NEW r \in Runs
  PROVE  task[r].pc \notin MidTask /\ guard[r].pc \in {"held", "gone"}
<1>1. task[r].pc \in MidTask => <<"task", r>> = <<"host", 0>>
  BY DEF May, Mid, OnOneThread
<1>2. guard[r].pc \in {"held", "gone"}
  BY HostAlone DEF OnOneThread
<1> QED BY <1>1, <1>2

(* While a stream is dropped, tasks and a pause are at an await.           *)
LEMMA GuardTurn ==
  ASSUME OnOneThread, NEW r \in Runs, May(<<"guard", r>>), NEW s \in Runs
  PROVE  task[s].pc \notin MidTask /\ op \notin Paused
<1>1. task[s].pc \in MidTask => <<"task", s>> = <<"guard", r>>
  BY DEF May, Mid, OnOneThread
<1>2. op \in Paused => <<"host", 0>> \in Mid
  BY DEF Mid, Paused
<1>3. op \in Paused => <<"host", 0>> = <<"guard", r>>
  BY <1>2 DEF May, OnOneThread
<1> QED BY <1>1, <1>3

(* The fields of a run's task.                                             *)
LEMMA Holdings ==
  ASSUME TypeInvariant, started \in Runs
  PROVE  /\ Current \in Tasks
         /\ Current.ctx \in History /\ Current.pending \in History /\ Current.polled \in History
         /\ steering \in History /\ followUp \in History /\ messages \in History
         /\ snapCtx \in History /\ snapPending \in History
         /\ cp.ctx \in History /\ cp.pending \in History /\ cp.steering \in History
         /\ chan[started] \in Seq(Events)
  BY Fields DEF TypeInvariant, TaskType, QueuesType, CheckpointType,
     ChannelType, Current

(* The last event not yet read.                                            *)
LEMMA LastOfEvents ==
  ASSUME NEW c \in Seq(Events), c # <<>>
  PROVE  c[Len(c)] \in Events /\ c[Len(c)].ctx \in History
<1>1. Len(c) \in 1..Len(c)
  OBVIOUS
<1>2. c[Len(c)] \in Events
  BY <1>1
<1> QED BY <1>2 DEF Events

(* A running agent has a context: the task's, or its last event's.         *)
LEMMA WorkTyped ==
  ASSUME TypeInvariant, RunsTracked, Ending, active
  PROVE  started \in Runs /\ Work \in History
<1>1. started \in Runs
  BY DEF RunsTracked, ActiveHeld, TypeInvariant, RunsType, Runs
<1>2. CASE Alive(started)
  BY <1>1, <1>2, Holdings DEF Work
<1>3. CASE ~Alive(started)
  BY <1>1, <1>3, Holdings, LastOfEvents DEF Work, Ending, LastEvent
<1> QED BY <1>1, <1>2, <1>3

(* A step of a task is one of the current run's; whoever else could move   *)
(* waits for it.                                                           *)
LEMMA TaskMoves ==
  ASSUME Known, NEW r \in Runs, NEW at, NEW t, TaskStep(r, at, t), at # "returned"
  PROVE  /\ r = started /\ started \in Runs /\ started > 0
         /\ Alive(started) /\ Current.pc = at /\ Work = Current.ctx
         /\ Fits(Current)
         /\ op \notin Paused /\ guard[started].pc \in {"held", "gone"}
         /\ active => guard[started].pc = "held"
         /\ ~active => \/ guard[started].pc = "gone" /\ at \notin MidTask
                       \/ steering = <<>> /\ followUp = <<>>
         /\ task' = [task EXCEPT ![started] = t] /\ Current' = t
         /\ UNCHANGED <<threads, host, active, guard, history>>
<1>1. task[r].pc = at /\ May(<<"task", r>>) /\ task' = [task EXCEPT ![r] = t]
      /\ UNCHANGED <<threads, host, active, guard, history>>
  BY DEF TaskStep
<1>2. r <= started
  BY <1>1 DEF Known, RunsTracked, Unborn, TypeInvariant, RunsType, Runs
<1>3. Alive(r) /\ r = started /\ started > 0
  BY <1>1, <1>2 DEF Alive, Known, Counted, OneAlive, Runs
<1>4. op \in Paused => <<"host", 0>> = <<"task", r>>
  BY <1>1 DEF May, Mid, Known, OnOneThread, Paused
<1>5. guard[r].pc \notin {"held", "gone"} => <<"guard", r>> = <<"task", r>>
  BY <1>1 DEF May, Mid, Known, OnOneThread
<1>6. active => guard[started].pc = "held"
  BY <1>3, <1>5 DEF Known, RunsTracked, ActiveHeld
<1>7. Current.pc = at /\ Work = Current.ctx /\ Fits(Current)
  BY <1>1, <1>3 DEF Current, Work, Known, Counted, Shapes
<1>8. ~active => \/ guard[started].pc = "gone" /\ at \notin MidTask
                 \/ steering = <<>> /\ followUp = <<>>
  BY <1>3, <1>5, <1>7 DEF Known, Counted, Zombies
<1>9. Current' = t
  BY <1>1, <1>3 DEF Current, host, Known, TypeInvariant, TaskType
<1> QED BY <1>1, <1>3, <1>4, <1>5, <1>6, <1>7, <1>8, <1>9

(* A step of the task that leaves it going: it is enough to follow what it *)
(* holds and what the queues and snapshots hold.                           *)
LEMMA TaskGoes ==
  ASSUME Known, TypeInvariant', NEW r \in Runs, NEW at, NEW t, TaskStep(r, at, t),
         at # "returned", t.pc \notin {"start", "returned"}, Fits(t),
         ~active => UNCHANGED <<steering, followUp>>,
         ~active /\ at \notin MidTask => t.pc \notin MidTask \/ guard[started].pc = "held",
         active => SnapsFit(t.pc, t.ctx, snapCtx', snapPending'),
         \A m \in Messages :
           /\ Occurs(Current.ctx, m) <= Occurs(t.ctx, m)
           /\ Occurs(t.ctx, m) + Occurs(t.pending, m) + Occurs(t.polled, m)
                + Occurs(steering', m) + Occurs(followUp', m)
              = Occurs(Current.ctx, m) + Occurs(Current.pending, m) + Occurs(Current.polled, m)
                  + Occurs(steering, m) + Occurs(followUp, m)
  PROVE  Counted'
<1> DEFINE s == started
<1>1. /\ r = s /\ s \in Runs /\ s > 0 /\ Alive(s) /\ Current.pc = at /\ Work = Current.ctx
      /\ op \notin Paused /\ guard[s].pc \in {"held", "gone"}
      /\ ~active => \/ guard[s].pc = "gone" /\ at \notin MidTask
                    \/ steering = <<>> /\ followUp = <<>>
      /\ task' = [task EXCEPT ![s] = t] /\ Current' = t
      /\ UNCHANGED <<threads, messages, generation, token, started, op, cp, active, guard, sent, held, overlap>>
  BY TaskMoves DEF host, history
<1>2. OneAlive'
  BY <1>1 DEF Known, Counted, OneAlive, Alive, TypeInvariant, TaskType
<1>3. Alive(started)' /\ Work' = t.ctx
  <2>1. Alive(started)'
    BY <1>1 DEF Alive, Current, Runs
  <2> QED BY <2>1, <1>1 DEF Work
<1>4. Shapes'
  BY <1>1 DEF Shapes
<1>5. Ending'
  BY <1>3 DEF Ending
<1>6. Behind'
  <2> SUFFICES ASSUME active, NEW m \in Messages PROVE Occurs(messages, m) <= Occurs(t.ctx, m)
    BY <1>1, <1>3 DEF Behind
  <2>1. Occurs(messages, m) <= Occurs(Current.ctx, m) /\ Occurs(Current.ctx, m) <= Occurs(t.ctx, m)
    BY <1>1 DEF Known, Counted, Behind
  <2>2. messages \in History /\ Current.ctx \in History /\ t.ctx \in History
    BY <1>1, Holdings, Fields DEF Known, TypeInvariant, TaskType, Tasks
  <2> QED BY <2>1, <2>2, OccursNat
<1>7. Snapshots'
  BY <1>1, <1>3 DEF Snapshots
<1>8. Zombies'
  BY <1>1, <1>3 DEF Zombies
<1>9. Pausing'
  BY <1>1 DEF Pausing, Paused, Known, Counted
<1>10. Tallied'
  <2>1. ASSUME NEW m \in Messages PROVE Tally(m)' = Tally(m)
    <3>1. Load(m)' = Load(m)
      BY <1>1, <1>3 DEF Load
    <3>2. ~active => steering' = steering /\ followUp' = followUp
      OBVIOUS
    <3>3. op \notin Paused /\ UNCHANGED <<messages, cp, op, active>>
      BY <1>1
    <3>4. CASE active
      BY <3>1, <3>3, <3>4 DEF Tally, Paused
    <3>5. CASE ~active
      BY <3>2, <3>3, <3>5 DEF Tally, Paused
    <3> QED BY <3>4, <3>5
  <2>2. Due' = Due /\ sent' = sent
    BY <1>1 DEF Due, Dropping
  <2> QED BY <2>1, <2>2 DEF Tallied, Known, Counted
<1> QED BY <1>2, <1>4, <1>5, <1>6, <1>7, <1>8, <1>9, <1>10 DEF Counted

(* A step of the task that changes neither what it holds nor the queues.   *)
LEMMA TaskStays ==
  ASSUME Known, TypeInvariant', NEW r \in Runs, NEW at, NEW next, TaskStep(r, at, At(r, next)),
         at # "returned", next \notin {"start", "returned"},
         UNCHANGED <<steering, followUp>>,
         next # "inject" => Current.pending = <<>>,
         next \notin {"append", "replace"} => Current.polled = <<>>,
         ~active /\ at \notin MidTask => next \notin MidTask \/ guard[started].pc = "held",
         active => SnapsFit(next, Current.ctx, snapCtx', snapPending')
  PROVE  Counted'
<1> DEFINE t == At(r, next)
<1>1. /\ r = started /\ Alive(started) /\ Fits(Current) /\ Current.pc = at
  BY TaskMoves
<1>2. t.pc = next /\ t.ctx = Current.ctx /\ t.pending = Current.pending /\ t.polled = Current.polled
  BY <1>1 DEF At, TaskAt, Current
<1>3. Current.ctx \in History
  BY <1>1, Holdings DEF Known
<1> HIDE DEF t
<1>4. Fits(t)
  BY <1>1, <1>2 DEF Fits
<1>5. TaskStep(r, at, t)
  BY DEF t
<1>6. \A m \in Messages :
        /\ Occurs(Current.ctx, m) <= Occurs(t.ctx, m)
        /\ Occurs(t.ctx, m) + Occurs(t.pending, m) + Occurs(t.polled, m)
             + Occurs(steering', m) + Occurs(followUp', m)
           = Occurs(Current.ctx, m) + Occurs(Current.pending, m) + Occurs(Current.polled, m)
               + Occurs(steering, m) + Occurs(followUp, m)
  BY <1>2, <1>3, OccursNat
<1>7. active => SnapsFit(t.pc, t.ctx, snapCtx', snapPending')
  BY <1>2
<1>8. ~active /\ at \notin MidTask => t.pc \notin MidTask \/ guard[started].pc = "held"
  BY <1>2
<1> QED BY <1>2, <1>4, <1>5, <1>6, <1>7, <1>8, TaskGoes

(* The task of an ended run returns.                                       *)
LEMMA TaskReturns ==
  ASSUME Known, NEW r \in Runs, NEW at, TaskStep(r, at, Returned), at # "returned",
         ~active, UNCHANGED shared
  PROVE  Counted'
<1>1. /\ r = started /\ started \in Runs /\ Alive(started) /\ op \notin Paused
      /\ task' = [task EXCEPT ![started] = Returned] /\ Current' = Returned
      /\ UNCHANGED <<messages, generation, token, started, op, cp, active, guard, sent, held>>
  BY TaskMoves DEF host, history
<1>2. ~Alive(started)'
  BY <1>1 DEF Alive, Current, Returned, TaskAt
<1>3. OneAlive'
  BY <1>1 DEF Known, Counted, OneAlive, Alive, TypeInvariant, TaskType
<1>4. Shapes'
  BY <1>1 DEF Shapes, Fits, Returned, TaskAt
<1>5. Ending' /\ Behind' /\ Snapshots'
  BY <1>1 DEF Ending, Behind, Snapshots
<1>6. Zombies'
  BY <1>2 DEF Zombies
<1>7. Pausing'
  BY <1>1 DEF Pausing, Paused, Known, Counted
<1>8. Tallied'
  <2>1. ASSUME NEW m \in Messages PROVE Tally(m)' = Tally(m)
    BY <1>1 DEF Tally, Paused, shared
  <2>2. Due' = Due /\ sent' = sent
    BY <1>1 DEF Due, Dropping
  <2> QED BY <2>1, <2>2 DEF Tallied, Known, Counted
<1> QED BY <1>3, <1>4, <1>5, <1>6, <1>7, <1>8 DEF Counted

(* What is known before a step of the task at `at`.                        *)
LEMMA TaskBefore ==
  ASSUME Known, NEW r \in Runs, NEW at, NEW t, TaskStep(r, at, t), at # "returned"
  PROVE  /\ r = started /\ Current = task[r] /\ Fits(Current) /\ Current.pc = at
         /\ Closed(r) => ~active
         /\ ~Closed(r) => guard[started].pc = "held"
         /\ ~active /\ at \in MidTask => steering = <<>> /\ followUp = <<>>
         /\ active => SnapsFit(at, Current.ctx, snapCtx, snapPending)
         /\ at \in TaskSteps
         /\ Current.ctx \in History /\ Current.pending \in History /\ Current.polled \in History
         /\ steering \in History /\ followUp \in History
         /\ Current.ctx # <<>>
<1>1. /\ r = started /\ started \in Runs /\ Current.pc = at /\ Work = Current.ctx /\ Fits(Current)
      /\ guard[started].pc \in {"held", "gone"}
      /\ active => guard[started].pc = "held"
      /\ ~active => \/ guard[started].pc = "gone" /\ at \notin MidTask
                    \/ steering = <<>> /\ followUp = <<>>
  BY TaskMoves
<1>2. active => SnapsFit(at, Current.ctx, snapCtx, snapPending)
  BY <1>1 DEF Known, Counted, Snapshots
<1>3. Current \in Tasks /\ Current.ctx \in History /\ Current.pending \in History
      /\ Current.polled \in History /\ steering \in History /\ followUp \in History
  BY <1>1, Holdings DEF Known
<1>4. at \in TaskSteps
  BY <1>1, <1>3 DEF Tasks
<1>5. Current.ctx # <<>>
  BY <1>1 DEF Fits
<1>6. Current = task[r]
  BY <1>1 DEF Current
<1> QED BY <1>1, <1>2, <1>3, <1>4, <1>5, <1>6 DEF Closed

(* The steps of a run's task keep the counts.                              *)
LEMMA TaskCounted ==
  ASSUME Known, TypeInvariant', NEW r \in Runs, Task(r) PROVE Counted'
<1> DEFINE c == Current
           Before(at) == /\ r = started /\ c = task[r] /\ Fits(c) /\ c.pc = at
                         /\ Closed(r) => ~active
                         /\ ~Closed(r) => guard[started].pc = "held"
                         /\ ~active /\ at \in MidTask => steering = <<>> /\ followUp = <<>>
                         /\ active => SnapsFit(at, c.ctx, snapCtx, snapPending)
                         /\ c.ctx \in History /\ c.pending \in History /\ c.polled \in History
                         /\ steering \in History /\ followUp \in History
                         /\ c.ctx # <<>>
<1>0. ASSUME NEW at, NEW t, TaskStep(r, at, t), at # "returned" PROVE Before(at)
  BY <1>0, TaskBefore
<1>1. CASE EmitAgentStart(r)
  <2>1. CASE Closed(r)
    <3>1. TaskStep(r, "start", Returned) /\ UNCHANGED shared
      BY <1>1, <2>1 DEF EmitAgentStart
    <3> QED BY <3>1, <2>1, <1>0, TaskReturns
  <2>2. CASE ~Closed(r)
    <3>1. TaskStep(r, "start", At(r, "inject")) /\ UNCHANGED shared
      BY <1>1, <2>2 DEF EmitAgentStart
    <3>2. Before("start")
      BY <3>1, <1>0
    <3>3. Current.polled = <<>>
      BY <3>2 DEF Fits
    <3>4. SnapsFit("inject", Current.ctx, snapCtx', snapPending')
      BY DEF SnapsFit
    <3> QED BY <2>2, <3>1, <3>2, <3>3, <3>4, TaskStays DEF shared
  <2> QED BY <2>1, <2>2
<1>2. CASE InjectPending(r)
  <2> DEFINE t == TaskAt("clear", task[r].ctx \o task[r].pending, <<>>, task[r].polled)
  <2>1. TaskStep(r, "inject", t) /\ UNCHANGED shared
    BY <1>2 DEF InjectPending
  <2>2. Before("inject")
    BY <2>1, <1>0
  <2>3. t.pc = "clear" /\ t.ctx = c.ctx \o c.pending /\ t.pending = <<>> /\ t.polled = <<>> /\ c.polled = <<>>
    BY <2>2 DEF TaskAt, Fits
  <2>4. t.ctx \in History /\ t.ctx # <<>>
    <3>1. c.ctx \o c.pending # <<>>
      BY <2>2 DEF History
    <3> QED BY <2>2, <2>3, <3>1, Histories, ZenonT(40)
  <2>5. ASSUME NEW m \in Messages
        PROVE  /\ Occurs(c.ctx, m) <= Occurs(t.ctx, m)
               /\ Occurs(t.ctx, m) + Occurs(t.pending, m) + Occurs(t.polled, m)
                    + Occurs(steering', m) + Occurs(followUp', m)
                  = Occurs(c.ctx, m) + Occurs(c.pending, m) + Occurs(c.polled, m)
                      + Occurs(steering, m) + Occurs(followUp, m)
    <3>1. Occurs(t.ctx, m) = Occurs(c.ctx, m) + Occurs(c.pending, m)
      <4>1. c.ctx \in History /\ c.pending \in History /\ t.ctx = c.ctx \o c.pending
        BY <2>2, <2>3
      <4> HIDE DEF c, t
      <4>2. Occurs(c.ctx \o c.pending, m) = Occurs(c.ctx, m) + Occurs(c.pending, m)
        BY <4>1, OccursConcat
      <4> QED BY <4>1, <4>2
    <3>2. /\ Occurs(c.ctx, m) \in Nat /\ Occurs(c.pending, m) \in Nat
          /\ Occurs(t.pending, m) = 0 /\ Occurs(t.polled, m) = 0 /\ Occurs(c.polled, m) = 0
      BY <2>2, <2>3, OccursNat, OccursNone
    <3>3. steering' = steering /\ followUp' = followUp
          /\ Occurs(steering, m) \in Nat /\ Occurs(followUp, m) \in Nat
      BY <2>1, <2>2, OccursNat DEF shared
    <3> QED BY <3>1, <3>2, <3>3
  <2>6. Fits(t) /\ SnapsFit(t.pc, t.ctx, snapCtx', snapPending')
    BY <2>3, <2>4 DEF Fits, SnapsFit
  <2>7. UNCHANGED <<steering, followUp>> /\ "inject" \in MidTask
    BY <2>1 DEF shared, MidTask
  <2> HIDE DEF t
  <2> QED BY <2>1, <2>3, <2>5, <2>6, <2>7, TaskGoes
<1>3. CASE ClearPending(r)
  <2>1. TaskStep(r, "clear", At(r, "sync")) /\ snapPending' = <<>>
        /\ UNCHANGED <<steering, followUp>> /\ "clear" \in MidTask
    BY <1>3 DEF ClearPending, MidTask
  <2>2. Before("clear")
    BY <2>1, <1>0
  <2>3. Current.polled = <<>> /\ Current.pending = <<>>
    BY <2>2 DEF Fits
  <2>4. SnapsFit("sync", Current.ctx, snapCtx', snapPending')
    BY <2>1 DEF SnapsFit
  <2> QED BY <2>1, <2>3, <2>4, TaskStays
<1>4. CASE SyncContext(r)
  <2>1. PICK next \in {"end_turn", "model"} : TaskStep(r, "sync", At(r, next))
    BY <1>4 DEF SyncContext
  <2>2. snapCtx' = task[r].ctx /\ UNCHANGED <<steering, followUp, snapPending>> /\ "sync" \in MidTask
    BY <1>4 DEF SyncContext, MidTask
  <2>3. Before("sync")
    BY <2>1, <1>0
  <2>4. Current.polled = <<>> /\ Current.pending = <<>>
    BY <2>3 DEF Fits
  <2>5. active => SnapsFit(next, Current.ctx, snapCtx', snapPending')
    BY <2>2, <2>3 DEF SnapsFit
  <2> QED BY <2>1, <2>2, <2>4, <2>5, TaskStays
<1>5. CASE ModelAnswers(r)
  <2> DEFINE t == TaskAt("turn_end", Append(task[r].ctx, "assistant"), task[r].pending, task[r].polled)
  <2>1. TaskStep(r, "model", t) /\ snapCtx' = task'[r].ctx /\ UNCHANGED <<steering, followUp, snapPending>>
    BY <1>5 DEF ModelAnswers
  <2>2. Before("model")
    BY <2>1, <1>0
  <2>3. /\ t.pc = "turn_end" /\ t.ctx = Append(c.ctx, "assistant")
        /\ t.pending = c.pending /\ t.polled = c.polled /\ c.polled = <<>> /\ c.pending = <<>>
    BY <2>2 DEF TaskAt, Fits
  <2>4. t.ctx \in History /\ t.ctx # <<>>
    <3>1. Append(c.ctx, "assistant") # <<>>
      BY <2>2 DEF History
    <3> QED BY <2>2, <2>3, <3>1, Histories
  <2>5. ASSUME NEW m \in Messages
        PROVE  /\ Occurs(c.ctx, m) <= Occurs(t.ctx, m)
               /\ Occurs(t.ctx, m) + Occurs(t.pending, m) + Occurs(t.polled, m)
                    + Occurs(steering', m) + Occurs(followUp', m)
                  = Occurs(c.ctx, m) + Occurs(c.pending, m) + Occurs(c.polled, m)
                      + Occurs(steering, m) + Occurs(followUp, m)
    <3>1. Occurs(t.ctx, m) = Occurs(c.ctx, m) /\ Occurs(c.ctx, m) \in Nat
      <4>1. c.ctx \in History /\ t.ctx = Append(c.ctx, "assistant")
        BY <2>2, <2>3
      <4> HIDE DEF c, t
      <4>2. Occurs(Append(c.ctx, "assistant"), m) = Occurs(c.ctx, m)
        BY <4>1, OccursAppend
      <4> QED BY <4>1, <4>2, OccursNat
    <3> QED BY <3>1, <2>1, <2>3
  <2>6. task'[r] = t
    BY <2>1 DEF TaskStep, Known, TypeInvariant, TaskType
  <2>7. Fits(t) /\ (active => SnapsFit(t.pc, t.ctx, snapCtx', snapPending'))
    BY <2>1, <2>2, <2>3, <2>4, <2>6 DEF Fits, SnapsFit
  <2>8. "turn_end" \notin MidTask
    BY DEF MidTask
  <2> HIDE DEF t
  <2> QED BY <2>1, <2>3, <2>5, <2>7, <2>8, TaskGoes
<1>6. CASE ModelAborts(r)
  <2>1. TaskStep(r, "model", At(r, "end_turn")) /\ UNCHANGED shared /\ "end_turn" \notin MidTask
    BY <1>6 DEF ModelAborts, MidTask
  <2>2. Before("model")
    BY <2>1, <1>0
  <2>3. Current.polled = <<>> /\ Current.pending = <<>>
    BY <2>2 DEF Fits
  <2>4. active => SnapsFit("end_turn", Current.ctx, snapCtx', snapPending')
    BY <2>1, <2>2 DEF SnapsFit, shared
  <2> QED BY <2>1, <2>3, <2>4, TaskStays DEF shared
<1>7. CASE EmitTurnEnd(r)
  <2>1. CASE Closed(r)
    <3>1. TaskStep(r, "turn_end", Returned) /\ UNCHANGED shared
      BY <1>7, <2>1 DEF EmitTurnEnd
    <3> QED BY <3>1, <2>1, <1>0, TaskReturns
  <2>2. CASE ~Closed(r)
    <3>1. TaskStep(r, "turn_end", At(r, "poll_steering")) /\ UNCHANGED shared
      BY <1>7, <2>2 DEF EmitTurnEnd
    <3>2. Before("turn_end")
      BY <3>1, <1>0
    <3>3. Current.polled = <<>> /\ Current.pending = <<>>
      BY <3>2 DEF Fits
    <3>4. active => SnapsFit("poll_steering", Current.ctx, snapCtx', snapPending')
      BY <3>1, <3>2 DEF SnapsFit, shared
    <3> QED BY <2>2, <3>1, <3>2, <3>3, <3>4, TaskStays DEF shared
  <2> QED BY <2>1, <2>2
<1>8. CASE EmitAbortedTurn(r)
  <2>1. CASE Closed(r)
    <3>1. TaskStep(r, "end_turn", Returned) /\ UNCHANGED shared
      BY <1>8, <2>1 DEF EmitAbortedTurn
    <3> QED BY <3>1, <2>1, <1>0, TaskReturns
  <2>2. CASE ~Closed(r)
    <3> DEFINE t == TaskAt("agent_end", Append(task[r].ctx, "assistant"), task[r].pending, task[r].polled)
    <3>1. TaskStep(r, "end_turn", t) /\ UNCHANGED shared
      BY <1>8, <2>2 DEF EmitAbortedTurn
    <3>2. Before("end_turn")
      BY <3>1, <1>0
    <3>3. /\ t.pc = "agent_end" /\ t.ctx = Append(c.ctx, "assistant")
          /\ t.pending = c.pending /\ t.polled = c.polled /\ c.polled = <<>> /\ c.pending = <<>>
      BY <3>2 DEF TaskAt, Fits
    <3>4. t.ctx \in History /\ t.ctx # <<>>
      <4>1. Append(c.ctx, "assistant") # <<>>
        BY <3>2 DEF History
      <4> QED BY <3>2, <3>3, <4>1, Histories
    <3>5. ASSUME NEW m \in Messages
          PROVE  Occurs(t.ctx, m) = Occurs(c.ctx, m) /\ Occurs(c.ctx, m) \in Nat
      <4>1. c.ctx \in History /\ t.ctx = Append(c.ctx, "assistant")
        BY <3>2, <3>3
      <4> HIDE DEF c, t
      <4>2. Occurs(Append(c.ctx, "assistant"), m) = Occurs(c.ctx, m)
        BY <4>1, OccursAppend
      <4> QED BY <4>1, <4>2, OccursNat
    <3>6. ASSUME NEW m \in Messages
          PROVE  /\ Occurs(c.ctx, m) <= Occurs(t.ctx, m)
                 /\ Occurs(t.ctx, m) + Occurs(t.pending, m) + Occurs(t.polled, m)
                      + Occurs(steering', m) + Occurs(followUp', m)
                    = Occurs(c.ctx, m) + Occurs(c.pending, m) + Occurs(c.polled, m)
                        + Occurs(steering, m) + Occurs(followUp, m)
      BY <3>1, <3>3, <3>5 DEF shared
    <3>7. Fits(t) /\ (active => SnapsFit(t.pc, t.ctx, snapCtx', snapPending'))
      BY <3>1, <3>2, <3>3, <3>4, <3>5 DEF Fits, SnapsFit, shared
    <3>8. "agent_end" \notin MidTask /\ UNCHANGED <<steering, followUp>>
      BY <3>1 DEF MidTask, shared
    <3> HIDE DEF t
    <3> QED BY <3>1, <3>3, <3>6, <3>7, <3>8, TaskGoes
  <2> QED BY <2>1, <2>2
<1>9. CASE PollSteering(r)
  <2> DEFINE t == TaskAt(IF steering = <<>> THEN "poll_follow_up" ELSE "append",
                         task[r].ctx, task[r].pending, Drained(steering))
  <2>1. TaskStep(r, "poll_steering", t) /\ steering' = Left(steering)
        /\ UNCHANGED <<followUp, snapPending, snapCtx>> /\ "poll_steering" \in MidTask
    BY <1>9 DEF PollSteering, MidTask
  <2>2. Before("poll_steering")
    BY <2>1, <1>0
  <2>3. /\ t.pc = IF steering = <<>> THEN "poll_follow_up" ELSE "append"
        /\ t.ctx = c.ctx /\ t.pending = <<>> /\ t.polled = Drained(steering)
        /\ c.polled = <<>> /\ c.pending = <<>>
    BY <2>2 DEF TaskAt, Fits
  <2>4. steering = <<>> => Drained(steering) = <<>> /\ Left(steering) = <<>>
    BY DEF Drained, Left
  <2>5. ASSUME NEW m \in Messages
        PROVE  /\ Occurs(c.ctx, m) <= Occurs(t.ctx, m)
               /\ Occurs(t.ctx, m) + Occurs(t.pending, m) + Occurs(t.polled, m)
                    + Occurs(steering', m) + Occurs(followUp', m)
                  = Occurs(c.ctx, m) + Occurs(c.pending, m) + Occurs(c.polled, m)
                      + Occurs(steering, m) + Occurs(followUp, m)
    <3>1. Occurs(c.ctx, m) \in Nat /\ Occurs(followUp, m) \in Nat /\ Occurs(<<>>, m) = 0
      BY <2>2, OccursNat, OccursNone
    <3>2. Occurs(Drained(steering), m) + Occurs(Left(steering), m) = Occurs(steering, m)
          /\ Occurs(Drained(steering), m) \in Nat /\ Occurs(Left(steering), m) \in Nat
      BY <2>2, OccursDrained, Drains, OccursNat
    <3>3. /\ Occurs(t.ctx, m) = Occurs(c.ctx, m) /\ Occurs(t.pending, m) = 0
          /\ Occurs(c.pending, m) = 0 /\ Occurs(c.polled, m) = 0
          /\ Occurs(t.polled, m) = Occurs(Drained(steering), m)
          /\ Occurs(steering', m) = Occurs(Left(steering), m) /\ Occurs(followUp', m) = Occurs(followUp, m)
      BY <2>1, <2>3, <3>1
    <3> QED BY <3>1, <3>2, <3>3
  <2>6. Fits(t) /\ (active => SnapsFit(t.pc, t.ctx, snapCtx', snapPending'))
    BY <2>1, <2>2, <2>3, <2>4 DEF Fits, SnapsFit
  <2>7. ~active => UNCHANGED <<steering, followUp>>
    BY <2>1, <2>2, <2>4
  <2> HIDE DEF t
  <2> QED BY <2>1, <2>3, <2>5, <2>6, <2>7, TaskGoes
<1>10. CASE PollFollowUp(r)
  <2> DEFINE t == TaskAt(IF followUp = <<>> THEN "agent_end" ELSE "append",
                         task[r].ctx, task[r].pending, Drained(followUp))
  <2>1. TaskStep(r, "poll_follow_up", t) /\ followUp' = Left(followUp)
        /\ UNCHANGED <<steering, snapPending, snapCtx>> /\ "poll_follow_up" \in MidTask
    BY <1>10 DEF PollFollowUp, MidTask
  <2>2. Before("poll_follow_up")
    BY <2>1, <1>0
  <2>3. /\ t.pc = IF followUp = <<>> THEN "agent_end" ELSE "append"
        /\ t.ctx = c.ctx /\ t.pending = <<>> /\ t.polled = Drained(followUp)
        /\ c.polled = <<>> /\ c.pending = <<>>
    BY <2>2 DEF TaskAt, Fits
  <2>4. followUp = <<>> => Drained(followUp) = <<>> /\ Left(followUp) = <<>>
    BY DEF Drained, Left
  <2>5. ASSUME NEW m \in Messages
        PROVE  /\ Occurs(c.ctx, m) <= Occurs(t.ctx, m)
               /\ Occurs(t.ctx, m) + Occurs(t.pending, m) + Occurs(t.polled, m)
                    + Occurs(steering', m) + Occurs(followUp', m)
                  = Occurs(c.ctx, m) + Occurs(c.pending, m) + Occurs(c.polled, m)
                      + Occurs(steering, m) + Occurs(followUp, m)
    <3>1. Occurs(c.ctx, m) \in Nat /\ Occurs(steering, m) \in Nat /\ Occurs(<<>>, m) = 0
      BY <2>2, OccursNat, OccursNone
    <3>2. Occurs(Drained(followUp), m) + Occurs(Left(followUp), m) = Occurs(followUp, m)
          /\ Occurs(Drained(followUp), m) \in Nat /\ Occurs(Left(followUp), m) \in Nat
      BY <2>2, OccursDrained, Drains, OccursNat
    <3>3. /\ Occurs(t.ctx, m) = Occurs(c.ctx, m) /\ Occurs(t.pending, m) = 0
          /\ Occurs(c.pending, m) = 0 /\ Occurs(c.polled, m) = 0
          /\ Occurs(t.polled, m) = Occurs(Drained(followUp), m)
          /\ Occurs(followUp', m) = Occurs(Left(followUp), m) /\ Occurs(steering', m) = Occurs(steering, m)
      BY <2>1, <2>3, <3>1
    <3> QED BY <3>1, <3>2, <3>3
  <2>6. Fits(t) /\ (active => SnapsFit(t.pc, t.ctx, snapCtx', snapPending'))
    BY <2>1, <2>2, <2>3, <2>4 DEF Fits, SnapsFit
  <2>7. ~active => UNCHANGED <<steering, followUp>>
    BY <2>1, <2>2, <2>4
  <2> HIDE DEF t
  <2> QED BY <2>1, <2>3, <2>5, <2>6, <2>7, TaskGoes
<1>11. CASE AppendSnapshot(r)
  <2>1. TaskStep(r, "append", At(r, "replace")) /\ UNCHANGED <<steering, followUp>> /\ "append" \in MidTask
    BY <1>11 DEF AppendSnapshot, MidTask
  <2>2. Before("append")
    BY <2>1, <1>0
  <2>3. Current.pending = <<>>
    BY <2>2 DEF Fits
  <2>4. SnapsFit("replace", Current.ctx, snapCtx', snapPending')
    BY DEF SnapsFit
  <2> QED BY <2>1, <2>3, <2>4, TaskStays
<1>12. CASE ReplaceSnapshot(r)
  <2> DEFINE t == TaskAt("inject", task[r].ctx, task[r].pending \o task[r].polled, <<>>)
  <2>1. TaskStep(r, "replace", t) /\ UNCHANGED <<steering, followUp>> /\ "replace" \in MidTask
    BY <1>12 DEF ReplaceSnapshot, MidTask
  <2>2. Before("replace")
    BY <2>1, <1>0
  <2>3. t.pc = "inject" /\ t.ctx = c.ctx /\ t.pending = c.pending \o c.polled /\ t.polled = <<>>
    BY <2>2 DEF TaskAt
  <2>4. ASSUME NEW m \in Messages
        PROVE  /\ Occurs(c.ctx, m) <= Occurs(t.ctx, m)
               /\ Occurs(t.ctx, m) + Occurs(t.pending, m) + Occurs(t.polled, m)
                    + Occurs(steering', m) + Occurs(followUp', m)
                  = Occurs(c.ctx, m) + Occurs(c.pending, m) + Occurs(c.polled, m)
                      + Occurs(steering, m) + Occurs(followUp, m)
    <3>1. Occurs(t.pending, m) = Occurs(c.pending, m) + Occurs(c.polled, m)
      <4>1. c.pending \in History /\ c.polled \in History /\ t.pending = c.pending \o c.polled
        BY <2>2, <2>3
      <4> HIDE DEF c, t
      <4>2. Occurs(c.pending \o c.polled, m) = Occurs(c.pending, m) + Occurs(c.polled, m)
        BY <4>1, OccursConcat
      <4> QED BY <4>1, <4>2
    <3>2. /\ Occurs(c.ctx, m) \in Nat /\ Occurs(c.pending, m) \in Nat /\ Occurs(c.polled, m) \in Nat
          /\ Occurs(steering, m) \in Nat /\ Occurs(followUp, m) \in Nat /\ Occurs(t.polled, m) = 0
      BY <2>2, <2>3, OccursNat, OccursNone
    <3>3. /\ Occurs(t.ctx, m) = Occurs(c.ctx, m) /\ Occurs(steering', m) = Occurs(steering, m)
          /\ Occurs(followUp', m) = Occurs(followUp, m)
      BY <2>1, <2>3
    <3> QED BY <3>1, <3>2, <3>3
  <2>5. Fits(t) /\ SnapsFit(t.pc, t.ctx, snapCtx', snapPending')
    BY <2>2, <2>3 DEF Fits, SnapsFit
  <2> HIDE DEF t
  <2> QED BY <2>1, <2>3, <2>4, <2>5, TaskGoes
<1>13. CASE EmitAgentEnd(r)
  <2>1. TaskStep(r, "agent_end", Returned) /\ UNCHANGED shared
    BY <1>13 DEF EmitAgentEnd
  <2>2. Before("agent_end")
    BY <2>1, <1>0
  <2>3. CASE ~active
    BY <2>1, <2>3, TaskReturns
  <2>4. CASE active
    <3> DEFINE e == [type |-> "AgentEnd", ctx |-> c.ctx]
    <3>1. /\ r = started /\ started \in Runs /\ started > 0 /\ Alive(started) /\ op \notin Paused
          /\ Work = c.ctx /\ c.pending = <<>> /\ c.polled = <<>>
          /\ task' = [task EXCEPT ![started] = Returned] /\ Current' = Returned
          /\ UNCHANGED <<messages, generation, token, started, op, cp, active, guard, sent, held>>
      BY <2>1, TaskMoves DEF host, history, Fits
    <3>2. chan' = [chan EXCEPT ![started] = Append(@, e)]
      BY <1>13, <2>2, <2>4, <3>1 DEF EmitAgentEnd, Emits
    <3>3. chan'[started] = Append(chan[started], e) /\ chan[started] \in Seq(Events)
      BY <3>1, <3>2 DEF Known, TypeInvariant, ChannelType
    <3>4. e \in Events
      BY <2>2 DEF Events
    <3>5. chan'[started] # <<>> /\ chan'[started][Len(chan'[started])] = e
      <4> HIDE DEF e
      <4> QED BY <3>3, <3>4
    <3>6. LastEvent' = e
      BY <3>1, <3>5 DEF LastEvent
    <3>7. ~Alive(started)'
      BY <3>1 DEF Alive, Current, Returned, TaskAt
    <3>8. Work' = c.ctx
      BY <3>6, <3>7 DEF Work
    <3>9. OneAlive'
      BY <3>1 DEF Known, Counted, OneAlive, Alive, TypeInvariant, TaskType
    <3>10. Shapes'
      BY <3>1 DEF Shapes, Fits, Returned, TaskAt
    <3>11. Ending'
      BY <3>1, <3>5, <3>6 DEF Ending
    <3>12. Behind'
      BY <3>1, <3>8 DEF Behind, Known, Counted
    <3>13. Snapshots'
      BY <2>1, <2>2, <2>4, <3>1, <3>8 DEF Snapshots, SnapsFit, shared, Returned,
         TaskAt
    <3>14. Zombies'
      BY <3>7 DEF Zombies
    <3>15. Pausing'
      BY <3>1 DEF Pausing, Paused, Known, Counted
    <3>16. Tallied'
      <4>1. Current'.pending = <<>> /\ Current'.polled = <<>>
        BY <3>1 DEF Returned, TaskAt
      <4>2. ASSUME NEW m \in Messages PROVE Tally(m)' = Tally(m)
        <5>1. Load(m)' = Load(m)
          BY <2>1, <3>1, <3>8, <4>1 DEF Load, shared
        <5> QED BY <2>1, <3>1, <5>1 DEF Tally, Paused, shared
      <4>3. Due' = Due /\ sent' = sent
        BY <3>1 DEF Due, Dropping
      <4> QED BY <4>2, <4>3 DEF Tallied, Known, Counted
    <3> QED BY <3>9, <3>10, <3>11, <3>12, <3>13, <3>14, <3>15, <3>16 DEF Counted
  <2> QED BY <2>3, <2>4
<1> HIDE DEF Before, c
<1> QED BY <1>1, <1>2, <1>3, <1>4, <1>5, <1>6, <1>7, <1>8, <1>9, <1>10, <1>11,
   <1>12, <1>13 DEF Task

(* How often the agent, with no run, or the checkpoint has a message, and  *)
(* what it owes.                                                           *)
AtRest(m) ==
  IF cp.state = "taken" THEN Occurs(cp.ctx, m) + Occurs(cp.pending, m) + Occurs(cp.steering, m)
  ELSE Occurs(messages, m) + Occurs(steering, m) + Occurs(followUp, m)
Owed == IF cp.state = "taken" THEN cp.owed ELSE held
Rested ==
  \A m \in Messages : /\ AtRest(m) <= 1
                      /\ m \in Owed => AtRest(m) = 1
                      /\ m \notin sent => AtRest(m) = 0

(* Between two calls of the host no stream is being dropped, so an idle    *)
(* agent has each message once.                                            *)
LEMMA RestsIdle ==
  ASSUME Known, HostIdle PROVE ~Dropping /\ (~active => Rested)
<1>1. ~Dropping
  BY HostTurn DEF HostIdle, Known, Dropping
<1>2. Due = Owed
  BY <1>1 DEF Due, Owed
<1>3. ASSUME ~active, NEW m \in Messages PROVE Tally(m) = AtRest(m)
  BY <1>3 DEF Tally, AtRest, HostIdle
<1>4. ~active => Rested
  BY <1>2, <1>3 DEF Known, Counted, Tallied, Rested
<1> QED BY <1>1, <1>4

(* A run begins with the whole history in its context.                     *)
LEMMA StartsCounted ==
  ASSUME TypeInvariant, RunsTracked, TypeInvariant', OnOneThread, Starts,
         \A x \in Runs : ~Alive(x), messages' # <<>>, Rested'
  PROVE  Counted'
<1> DEFINE s == started + 1
           t == TaskAt("start", messages', <<>>, <<>>)
<1>1. /\ s \in Runs /\ s > 0 /\ started' = s /\ op' = "none" /\ active' = TRUE
      /\ task' = [task EXCEPT ![s] = t] /\ UNCHANGED chan
      /\ snapPending' = <<>> /\ snapCtx' = <<>>
      /\ guard' = [guard EXCEPT ![s] = GuardAt("held", generation + 1)]
      /\ \A r \in Runs : guard[r].pc \in {"held", "gone"}
  BY DEF Starts, OnOneThread, TypeInvariant, RunsType
<1>2. task'[s] = t /\ (\A r \in Runs : r # s => task'[r] = task[r]) /\ Current' = t
  BY <1>1 DEF TypeInvariant, TaskType, Current
<1>3. t.pc = "start" /\ t.ctx = messages' /\ t.pending = <<>> /\ t.polled = <<>>
  BY DEF TaskAt
<1>4. chan'[s] = <<>>
  BY <1>1 DEF RunsTracked, Unborn, TypeInvariant, RunsType
<1> HIDE DEF t
<1>5. Alive(started)' /\ Work' = messages'
  <2>1. Alive(started)'
    BY <1>1, <1>2, <1>3 DEF Alive, Runs
  <2> QED BY <2>1, <1>2, <1>3 DEF Work
<1>6. OneAlive'
  <2> SUFFICES ASSUME NEW r \in Runs, Alive(r)', r # s PROVE FALSE
    BY <1>1 DEF OneAlive
  <2>1. r <= started /\ task'[r] = task[r]
    BY <1>1, <1>2 DEF Alive, Runs, TypeInvariant, RunsType
  <2> QED BY <2>1 DEF Alive
<1>7. Shapes'
  BY <1>2, <1>3 DEF Shapes, Fits
<1>8. Ending'
  BY <1>5 DEF Ending
<1>9. Behind'
  <2>1. messages' \in History
    BY DEF TypeInvariant, QueuesType
  <2>2. \A m \in Messages : Occurs(messages', m) \in Nat
    BY <2>1, OccursNat
  <2> QED BY <1>5, <2>2 DEF Behind
<1>10. Snapshots'
  BY <1>1, <1>2, <1>3, <1>4 DEF Snapshots, SnapsFit
<1>11. Zombies' /\ Pausing'
  BY <1>1 DEF Zombies, Pausing, Paused
<1>12. Tallied'
  <2>1. Due' = Owed'
    <3>1. ~Dropping'
      BY <1>1 DEF Dropping, TypeInvariant, GuardType, GuardAt
    <3> QED BY <3>1 DEF Due, Owed
  <2>2. ASSUME NEW m \in Messages PROVE Tally(m)' = AtRest(m)'
    <3>1. Occurs(<<>>, m) = 0 /\ Occurs(messages', m) \in Nat
      BY OccursNone, OccursNat DEF TypeInvariant, QueuesType
    <3>2. Load(m)' = Occurs(messages', m) + Occurs(steering', m) + Occurs(followUp', m)
      BY <1>2, <1>3, <1>5, <3>1 DEF Load
    <3> QED BY <1>1, <3>2 DEF Tally, AtRest
  <2> QED BY <2>1, <2>2 DEF Tallied, Rested
<1> QED BY <1>6, <1>7, <1>8, <1>9, <1>10, <1>11, <1>12 DEF Counted

(* start_loop loses no message and invents none: a prompt adds its input,  *)
(* a continued run takes the queues along or leaves them.                  *)
Moves(base, s, f, input) ==
  /\ \A x \in Runs : ~Alive(x)
  /\ messages' # <<>>
  /\ \A m \in Messages :
       Occurs(messages', m) + Occurs(steering', m) + Occurs(followUp', m)
         = Occurs(base, m) + Occurs(s, m) + Occurs(f, m) + Occurs(input, m)
(* A history and its input, with the queues left alone.                    *)
LEMMA Appends ==
  ASSUME NEW base \in History, NEW s \in History, NEW f \in History, NEW input \in History,
         base # <<>> \/ input # <<>>, \A x \in Runs : ~Alive(x),
         messages' = base \o input, steering' = s, followUp' = f
  PROVE  Moves(base, s, f, input)
<1>1. base \o input # <<>>
  BY DEF History
<1>2. ASSUME NEW m \in Messages
      PROVE  Occurs(messages', m) + Occurs(steering', m) + Occurs(followUp', m)
               = Occurs(base, m) + Occurs(s, m) + Occurs(f, m) + Occurs(input, m)
  <2>1. Occurs(base \o input, m) = Occurs(base, m) + Occurs(input, m)
    BY OccursConcat
  <2>2. Occurs(input, m) \in Nat /\ Occurs(base, m) \in Nat /\ Occurs(s, m) \in Nat /\ Occurs(f, m) \in Nat
    BY OccursNat
  <2> QED BY <2>1, <2>2
<1> QED BY <1>1, <1>2 DEF Moves
(* prompt_stream.                                                          *)
LEMMA PromptMoves ==
  ASSUME NEW base \in History, NEW s \in History, NEW f \in History, NEW input \in History,
         input # <<>>, start_loop(base, s, f, input, FALSE), OnOneThread'
  PROVE  Moves(base, s, f, input)
<1>1. \A x \in Runs : ~Alive(x)
  BY DEF start_loop, OnOneThread
<1>2. messages' = base \o input /\ steering' = s /\ followUp' = f
  BY DEF start_loop, clone_messages_for_send
<1> QED BY <1>1, <1>2, Appends
(* continue_stream and resume_stream.                                      *)
LEMMA ContinueMoves ==
  ASSUME NEW base \in History, NEW s \in History, NEW f \in History, base # <<>>,
         start_loop(base, s, f, <<>>, TRUE), OnOneThread'
  PROVE  Moves(base, s, f, <<>>)
<1>1. \A x \in Runs : ~Alive(x)
  BY DEF start_loop, OnOneThread
<1>2. CASE LastIsAssistant(base)
  <2>1. messages' = base \o (s \o f) /\ steering' = <<>> /\ followUp' = <<>>
    BY <1>2 DEF start_loop, clone_messages_for_send
  <2>2. s \o f \in History
    BY Histories
  <2>3. base \o (s \o f) # <<>>
    BY <2>2 DEF History
  <2>4. ASSUME NEW m \in Messages
        PROVE  Occurs(messages', m) + Occurs(steering', m) + Occurs(followUp', m)
                 = Occurs(base, m) + Occurs(s, m) + Occurs(f, m) + Occurs(<<>>, m)
    <3>1. Occurs(base \o (s \o f), m) = Occurs(base, m) + Occurs(s \o f, m)
          /\ Occurs(s \o f, m) = Occurs(s, m) + Occurs(f, m)
      BY <2>2, OccursConcat
    <3>2. Occurs(<<>>, m) = 0 /\ Occurs(base, m) \in Nat /\ Occurs(s, m) \in Nat /\ Occurs(f, m) \in Nat
      BY OccursNone, OccursNat
    <3> QED BY <2>1, <3>1, <3>2
  <2> QED BY <1>1, <2>1, <2>3, <2>4 DEF Moves
<1>3. CASE ~LastIsAssistant(base)
  <2>1. messages' = base \o <<>> /\ steering' = s /\ followUp' = f /\ <<>> \in History
    BY <1>3, Histories DEF start_loop, clone_messages_for_send
  <2> QED BY <1>1, <2>1, Appends
<1> QED BY <1>2, <1>3

(* A prompt begins with a message that was nowhere.                        *)
LEMMA PromptCounted ==
  ASSUME Known, TypeInvariant', OnOneThread', Prompt PROVE Counted'
<1>1. PICK m \in Messages \ sent :
        /\ HostIdle /\ ~active
        /\ start_loop(messages, steering, followUp, <<m>>, FALSE)
        /\ sent' = sent \cup {m} /\ held' = held \cup {m}
        /\ UNCHANGED cp
  BY DEF Prompt
<1>2. /\ messages \in History /\ steering \in History /\ followUp \in History
      /\ <<m>> \in History /\ <<m>> # <<>> /\ FALSE \in BOOLEAN
  BY Histories DEF Known, TypeInvariant, QueuesType
<1>3. Moves(messages, steering, followUp, <<m>>)
  BY <1>1, <1>2, PromptMoves
<1>4. Rested
  BY <1>1, RestsIdle
<1>5. Rested'
  <2> SUFFICES ASSUME NEW x \in Messages
               PROVE  /\ AtRest(x)' <= 1 /\ (x \in Owed' => AtRest(x)' = 1)
                      /\ (x \notin sent' => AtRest(x)' = 0)
    BY DEF Rested
  <2>1. AtRest(x) <= 1 /\ (x \in Owed => AtRest(x) = 1) /\ (x \notin sent => AtRest(x) = 0)
    BY <1>4 DEF Rested
  <2>2. CASE cp.state = "taken"
    BY <1>1, <2>1, <2>2 DEF AtRest, Owed
  <2>3. CASE cp.state # "taken"
    <3>1. Occurs(<<m>>, x) = IF x = m THEN 1 ELSE 0
      BY OccursOne
    <3>2. Occurs(messages, x) \in Nat /\ Occurs(steering, x) \in Nat /\ Occurs(followUp, x) \in Nat
      BY <1>2, OccursNat
    <3>3. AtRest(x) \in Nat /\ AtRest(x)' = AtRest(x) + (IF x = m THEN 1 ELSE 0)
      BY <1>1, <1>3, <2>3, <3>1, <3>2 DEF AtRest, Moves
    <3>4. Owed' = Owed \cup {m}
      BY <1>1, <2>3 DEF Owed
    <3> QED BY <1>1, <2>1, <3>3, <3>4
  <2> QED BY <2>2, <2>3
<1>6. Starts
  BY PromptStarts DEF Known
<1> QED BY <1>3, <1>5, <1>6, StartsCounted DEF Known, Moves

(* A continued run moves what the queues hold.                             *)
LEMMA ContinueCounted ==
  ASSUME Known, TypeInvariant', OnOneThread', Continue PROVE Counted'
<1>1. /\ HostIdle /\ ~active /\ messages # <<>>
      /\ start_loop(messages, steering, followUp, <<>>, TRUE)
      /\ UNCHANGED <<cp, sent, held>>
  BY DEF Continue, validate_continue
<1>2. /\ messages \in History /\ steering \in History /\ followUp \in History
      /\ <<>> \in History /\ TRUE \in BOOLEAN
  BY Histories DEF Known, TypeInvariant, QueuesType
<1>3. Moves(messages, steering, followUp, <<>>)
  BY <1>1, <1>2, ContinueMoves
<1>4. Rested
  BY <1>1, RestsIdle
<1>5. ASSUME NEW x \in Messages PROVE AtRest(x)' = AtRest(x)
  <2>1. Occurs(<<>>, x) = 0 /\ Occurs(messages, x) \in Nat /\ Occurs(steering, x) \in Nat
        /\ Occurs(followUp, x) \in Nat
    BY <1>2, OccursNat, OccursNone
  <2>2. Occurs(messages', x) + Occurs(steering', x) + Occurs(followUp', x)
          = Occurs(messages, x) + Occurs(steering, x) + Occurs(followUp, x)
    BY <1>3, <2>1 DEF Moves
  <2> QED BY <1>1, <2>2 DEF AtRest
<1>6. Rested'
  BY <1>1, <1>4, <1>5 DEF Rested, Owed
<1>7. Starts
  BY ContinueStarts DEF Known
<1> QED BY <1>3, <1>6, <1>7, StartsCounted DEF Known, Moves

(* A checkpoint put back is counted as the history and queues it becomes.  *)
LEMMA ResumeCounted ==
  ASSUME Known, TypeInvariant', OnOneThread', Resume PROVE Counted'
<1>1. /\ HostIdle /\ ~active /\ cp.state = "taken" /\ cp.ctx # <<>>
      /\ cp' = NoCheckpoint /\ held' = cp.owed /\ UNCHANGED sent
  BY DEF Resume
<1>2. cp.ctx \in History /\ cp.steering \in History /\ cp.pending \in History
  BY DEF Known, TypeInvariant, CheckpointType
<1>3. Rested
  BY <1>1, RestsIdle
<1>4. cp'.state = "none"
  BY <1>1 DEF NoCheckpoint, Checkpoint
<1>5. ASSUME \A m \in Messages :
               Occurs(messages', m) + Occurs(steering', m) + Occurs(followUp', m)
                 = Occurs(cp.ctx, m) + Occurs(cp.steering, m) + Occurs(cp.pending, m)
      PROVE  Rested'
  <2>1. ASSUME NEW m \in Messages PROVE AtRest(m)' = AtRest(m)
    <3>1. Occurs(cp.ctx, m) \in Nat /\ Occurs(cp.steering, m) \in Nat /\ Occurs(cp.pending, m) \in Nat
      BY <1>2, OccursNat
    <3> QED BY <1>1, <1>4, <1>5, <3>1 DEF AtRest
  <2> QED BY <1>1, <1>3, <1>4, <2>1 DEF Rested, Owed
<1>6. CASE validate_continue(cp.ctx, cp.steering, cp.pending)
  <2>1. start_loop(cp.ctx, cp.steering, cp.pending, <<>>, TRUE)
    BY <1>6 DEF Resume
  <2>2. Moves(cp.ctx, cp.steering, cp.pending, <<>>)
    BY <1>1, <1>2, <2>1, ContinueMoves
  <2>3. Rested'
    <3>1. ASSUME NEW m \in Messages
          PROVE  Occurs(messages', m) + Occurs(steering', m) + Occurs(followUp', m)
                   = Occurs(cp.ctx, m) + Occurs(cp.steering, m) + Occurs(cp.pending, m)
      <4>1. /\ Occurs(cp.ctx, m) \in Nat /\ Occurs(cp.steering, m) \in Nat
            /\ Occurs(cp.pending, m) \in Nat /\ Occurs(<<>>, m) = 0
        BY <1>2, OccursNat, OccursNone
      <4> QED BY <2>2, <4>1 DEF Moves
    <3> QED BY <1>5, <3>1
  <2>4. Starts
    <3>1. <<>> \in History /\ TRUE \in BOOLEAN /\ TypeInvariant
      BY Histories DEF Known
    <3> QED BY <1>1, <1>2, <2>1, <3>1, StartLoop
  <2> QED BY <2>2, <2>3, <2>4, StartsCounted DEF Known, Moves
<1>7. CASE ~validate_continue(cp.ctx, cp.steering, cp.pending)
  <2>1. /\ messages' = cp.ctx /\ steering' = cp.steering /\ followUp' = cp.pending
        /\ UNCHANGED <<threads, active, generation, started, task, guard, chan, op, overlap>>
    BY <1>7 DEF Resume
  <2>2. cp.steering = <<>> /\ cp.pending = <<>>
    <3>1. cp.steering \o cp.pending = <<>>
      BY <1>1, <1>7 DEF validate_continue
    <3> QED BY <1>2, <3>1 DEF History
  <2>3. OneAlive' /\ Shapes'
    BY <2>1 DEF Known, Counted, OneAlive, Alive, Shapes, Current
  <2>4. Ending' /\ Behind' /\ Snapshots'
    BY <1>1, <2>1 DEF Ending, Behind, Snapshots
  <2>5. Zombies'
    BY <2>1, <2>2 DEF Zombies
  <2>6. Pausing'
    BY <1>1, <2>1 DEF Pausing, Paused, HostIdle
  <2>7. Tallied'
    <3>1. Rested'
      BY <1>2, <1>5, <2>1
    <3>2. ~Dropping'
      BY <1>1, <2>1, RestsIdle DEF Dropping
    <3>3. \A m \in Messages : Tally(m)' = AtRest(m)'
      BY <1>1, <2>1 DEF Tally, AtRest, HostIdle
    <3>4. Due' = Owed'
      BY <3>2 DEF Due, Owed
    <3> QED BY <3>1, <3>3, <3>4 DEF Tallied, Rested
  <2> QED BY <2>3, <2>4, <2>5, <2>6, <2>7 DEF Counted
<1> QED BY <1>6, <1>7

(* What the counts do not look at may change.                              *)
LEMMA NothingCounted ==
  ASSUME Known, op \notin Paused, op' \notin Paused,
         UNCHANGED <<messages, started, task, chan, guard, active, shared, cp, sent, held>>
  PROVE  Counted'
<1>1. Current' = Current /\ Work' = Work
  BY DEF Current, Work, Alive, LastEvent
<1>2. OneAlive' /\ Shapes'
  BY <1>1 DEF Known, Counted, OneAlive, Alive, Shapes
<1>3. Ending' /\ Behind'
  BY <1>1 DEF Known, Counted, Ending, Behind, Alive, LastEvent
<1>4. Snapshots' /\ Zombies'
  BY <1>1 DEF Known, Counted, Snapshots, Zombies, Alive, shared
<1>5. Pausing'
  BY DEF Pausing, Paused
<1>6. Tallied'
  <2>1. ASSUME NEW m \in Messages PROVE Tally(m)' = Tally(m)
    <3>1. Load(m)' = Load(m)
      BY <1>1 DEF Load, shared
    <3> QED BY <3>1 DEF Tally, Paused, shared
  <2>2. Due' = Due /\ sent' = sent
    BY DEF Due, Dropping
  <2> QED BY <2>1, <2>2 DEF Tallied, Known, Counted
<1> QED BY <1>2, <1>3, <1>4, <1>5, <1>6 DEF Counted

(* A queued message is counted once, in its queue.                         *)
LEMMA SendCounted ==
  ASSUME Known, TypeInvariant', OnOneThread', SendQueued PROVE Counted'
<1>1. PICK m \in Messages \ sent :
        /\ sent' = sent \cup {m} /\ held' = held \cup {m}
        /\ \/ steering' = Append(steering, m) /\ UNCHANGED followUp
           \/ followUp' = Append(followUp, m) /\ UNCHANGED steering
  BY DEF SendQueued
<1>2. /\ HostIdle /\ op = "none"
      /\ ~active => \A r \in Runs : ~Alive(r)
      /\ UNCHANGED <<threads, messages, generation, token, started, op, cp, active, snapPending,
                     snapCtx, task, guard, chan>>
  BY DEF SendQueued, host, OnOneThread, HostIdle
<1>3. Current' = Current /\ Work' = Work
  BY <1>2 DEF Current, Work, Alive, LastEvent
<1>4. OneAlive' /\ Shapes'
  BY <1>2, <1>3 DEF Known, Counted, OneAlive, Alive, Shapes
<1>5. Ending' /\ Behind'
  BY <1>2, <1>3 DEF Known, Counted, Ending, Behind, Alive, LastEvent
<1>6. Snapshots'
  BY <1>2, <1>3 DEF Known, Counted, Snapshots
<1>7. Zombies'
  BY <1>2 DEF Zombies, Alive, Runs, Known, TypeInvariant, RunsType
<1>8. Pausing'
  BY <1>2 DEF Pausing, Paused
<1>9. Tallied'
  <2> SUFFICES ASSUME NEW x \in Messages
               PROVE  /\ Tally(x)' <= 1 /\ (x \in Due' => Tally(x)' = 1)
                      /\ (x \notin sent' => Tally(x)' = 0)
    BY DEF Tallied
  <2>1. Tally(x) <= 1 /\ (x \in Due => Tally(x) = 1) /\ (x \notin sent => Tally(x) = 0)
    BY DEF Known, Counted, Tallied
  <2>2. Dropping' = Dropping
    BY <1>2 DEF Dropping
  <2>3. CASE cp.state = "taken"
    <3>1. Tally(x)' = Tally(x) /\ Due' = Due
      BY <1>2, <2>3 DEF Tally, Due
    <3> QED BY <1>1, <2>1, <3>1
  <2>4. CASE cp.state # "taken"
    <3>1. started \in Runs => Current.ctx \in History /\ Current.pending \in History /\ Current.polled \in History
      BY Holdings DEF Known
    <3>2. active => Work \in History /\ started \in Runs
      BY WorkTyped DEF Known, Counted
    <3>3. steering \in History /\ followUp \in History /\ messages \in History
      BY DEF Known, TypeInvariant, QueuesType
    <3>4. Occurs(steering', x) + Occurs(followUp', x)
            = Occurs(steering, x) + Occurs(followUp, x) + (IF x = m THEN 1 ELSE 0)
      <4>1. /\ Occurs(steering, x) \in Nat /\ Occurs(followUp, x) \in Nat
            /\ Occurs(Append(steering, m), x) = Occurs(steering, x) + (IF x = m THEN 1 ELSE 0)
            /\ Occurs(Append(followUp, m), x) = Occurs(followUp, x) + (IF x = m THEN 1 ELSE 0)
        BY <3>3, OccursNat, OccursAppend
      <4>2. CASE steering' = Append(steering, m) /\ UNCHANGED followUp
        BY <4>1, <4>2
      <4>3. CASE followUp' = Append(followUp, m) /\ UNCHANGED steering
        BY <4>1, <4>3
      <4> QED BY <1>1, <4>2, <4>3
    <3>5. /\ Occurs(messages, x) \in Nat /\ Occurs(steering, x) \in Nat /\ Occurs(followUp, x) \in Nat
          /\ Occurs(steering', x) \in Nat /\ Occurs(followUp', x) \in Nat
      BY <3>3, OccursNat DEF TypeInvariant, QueuesType
    <3>6. active => Load(x) \in Nat /\ Load(x)' = Load(x) + (IF x = m THEN 1 ELSE 0)
      <4> SUFFICES ASSUME active PROVE Load(x) \in Nat /\ Load(x)' = Load(x) + (IF x = m THEN 1 ELSE 0)
        OBVIOUS
      <4>1. Occurs(Work, x) \in Nat /\ Occurs(Current.pending, x) \in Nat /\ Occurs(Current.polled, x) \in Nat
        BY <3>1, <3>2, OccursNat
      <4> QED BY <1>3, <3>4, <3>5, <4>1 DEF Load
    <3>7. Tally(x) \in Nat /\ Tally(x)' = Tally(x) + (IF x = m THEN 1 ELSE 0)
      <4>1. CASE active
        BY <1>2, <2>4, <3>6, <4>1 DEF Tally
      <4>2. CASE ~active
        BY <1>2, <2>4, <3>4, <3>5, <4>2 DEF Tally
      <4> QED BY <4>1, <4>2
    <3>8. Due' \subseteq Due \cup {m}
      BY <1>1, <1>2, <2>2, <2>4 DEF Due
    <3> QED BY <1>1, <2>1, <3>7, <3>8
  <2> QED BY <2>3, <2>4
<1> QED BY <1>4, <1>5, <1>6, <1>7, <1>8, <1>9 DEF Counted

(* A reset leaves nothing to count but a checkpoint.                       *)
LEMMA ResetCounted ==
  ASSUME Known, Reset PROVE Counted'
<1>1. /\ op = "none" /\ op' = "none" /\ active' = FALSE
      /\ messages' = <<>> /\ steering' = <<>> /\ followUp' = <<>> /\ held' = {}
      /\ UNCHANGED <<started, task, guard, chan, cp, sent>>
  BY DEF Reset, HostIdle
<1>2. OneAlive' /\ Shapes'
  BY <1>1 DEF Known, Counted, OneAlive, Alive, Shapes, Current
<1>3. Ending' /\ Behind' /\ Snapshots' /\ Zombies'
  BY <1>1 DEF Ending, Behind, Snapshots, Zombies
<1>4. Pausing'
  BY <1>1 DEF Pausing, Paused
<1>5. Tallied'
  <2> SUFFICES ASSUME NEW m \in Messages
               PROVE  /\ Tally(m)' <= 1 /\ (m \in Due' => Tally(m)' = 1)
                      /\ (m \notin sent' => Tally(m)' = 0)
    BY DEF Tallied
  <2>1. CASE cp.state = "taken"
    <3>1. Tally(m)' = Tally(m) /\ Due' = Due
      BY <1>1, <2>1 DEF Tally, Due
    <3> QED BY <1>1, <3>1 DEF Known, Counted, Tallied
  <2>2. CASE cp.state # "taken"
    <3>1. Occurs(<<>>, m) = 0
      BY OccursNone
    <3>2. Tally(m)' = 0 /\ Due' = {}
      BY <1>1, <2>2, <3>1 DEF Tally, Due
    <3> QED BY <3>2
  <2> QED BY <2>1, <2>2
<1> QED BY <1>2, <1>3, <1>4, <1>5 DEF Counted

(* pause cancels the run; its counts are the run's until it takes them.    *)
LEMMA PauseCancelCounted ==
  ASSUME Known, PauseCancel PROVE Counted'
<1>1. /\ op = "none" /\ op' = "pause_pending" /\ active /\ cp.state = "none"
      /\ UNCHANGED <<messages, started, cp, active, shared, task, guard, chan, sent, held>>
  BY DEF PauseCancel, HostIdle, history
<1>2. Current' = Current /\ Work' = Work
  BY <1>1 DEF Current, Work, Alive, LastEvent
<1>3. OneAlive' /\ Shapes'
  BY <1>1, <1>2 DEF Known, Counted, OneAlive, Alive, Shapes
<1>4. Ending' /\ Behind'
  BY <1>1, <1>2 DEF Known, Counted, Ending, Behind, Alive, LastEvent
<1>5. Snapshots' /\ Zombies'
  BY <1>1, <1>2 DEF Known, Counted, Snapshots, Zombies, Alive, shared
<1>6. Pausing'
  BY <1>1 DEF Pausing, Paused
<1>7. Tallied'
  <2>1. ASSUME NEW m \in Messages PROVE Tally(m)' = Tally(m)
    <3>1. Load(m)' = Load(m)
      BY <1>1, <1>2 DEF Load, shared
    <3> QED BY <1>1, <3>1 DEF Tally, Paused, shared
  <2>2. Due' = Due /\ sent' = sent
    BY <1>1 DEF Due, Dropping
  <2> QED BY <2>1, <2>2 DEF Tallied, Known, Counted
<1> QED BY <1>3, <1>4, <1>5, <1>6, <1>7 DEF Counted

(* While the host pauses the task waits between two turns, so what it took *)
(* is in its context, and the checkpoint's context has its messages.       *)
LEMMA PauseWaits ==
  ASSUME Known, op \in Paused, May(<<"host", 0>>)
  PROVE  /\ active /\ cp.state = "none" /\ started \in Runs /\ started > 0 /\ ~Dropping
         /\ snapPending = <<>> /\ Current.pending = <<>> /\ Current.polled = <<>>
         /\ Work \in History
         /\ \A m \in Messages :
              Occurs(IF snapCtx = <<>> THEN messages ELSE snapCtx, m) = Occurs(Work, m)
<1>1. active /\ cp.state = "none"
  BY DEF Known, Counted, Pausing
<1>2. started \in Runs /\ started > 0 /\ Work \in History
  BY <1>1, WorkTyped DEF Known, Counted, RunsTracked, ActiveHeld
<1>3. Current.pc \notin MidTask /\ ~Dropping
  BY <1>2, HostTurn DEF Known, Current, Dropping
<1>4. snapPending = <<>> /\ Current.pending = <<>> /\ Current.polled = <<>>
  BY <1>1, <1>2, <1>3 DEF Known, Counted, Snapshots, SnapsFit, Shapes, Fits, MidTask
<1>5. CASE Current.pc = "start"
  <2>1. snapCtx = <<>> /\ messages = Current.ctx
    BY <1>1, <1>5 DEF Known, Counted, Snapshots
  <2>2. Work = Current.ctx
    BY <1>2, <1>5 DEF Work, Alive, Current, Runs
  <2> QED BY <1>1, <1>2, <1>3, <1>4, <2>1, <2>2
<1>6. CASE Current.pc # "start"
  <2>1. snapCtx # <<>> /\ \A m \in Messages : Occurs(snapCtx, m) = Occurs(Work, m)
    BY <1>1, <1>3, <1>6 DEF Known, Counted, Snapshots, SnapsFit, MidTask
  <2> QED BY <1>1, <1>2, <1>3, <1>4, <2>1
<1> QED BY <1>5, <1>6

(* The steps of pause move what is counted into the checkpoint.            *)
LEMMA PauseCounted ==
  ASSUME Known, TypeInvariant', PausePending \/ PauseFollowUp \/ PauseContext \/ PauseSteering
  PROVE  Counted'
<1>1. /\ op \in Paused /\ May(<<"host", 0>>)
      /\ UNCHANGED <<messages, started, active, snapPending, snapCtx, task, guard, chan, sent, held>>
  BY DEF PausePending, PauseFollowUp, PauseContext, PauseSteering, PauseStep,
     Paused, history
<1>2. /\ active /\ cp.state = "none" /\ started \in Runs /\ started > 0 /\ ~Dropping
      /\ snapPending = <<>> /\ Current.pending = <<>> /\ Current.polled = <<>>
      /\ Work \in History
      /\ \A m \in Messages :
           Occurs(IF snapCtx = <<>> THEN messages ELSE snapCtx, m) = Occurs(Work, m)
  BY <1>1, PauseWaits
<1>3. Current' = Current /\ Work' = Work /\ ~Dropping'
  BY <1>1, <1>2 DEF Current, Work, Alive, LastEvent, Dropping
<1>4. OneAlive' /\ Shapes'
  BY <1>1, <1>3 DEF Known, Counted, OneAlive, Alive, Shapes
<1>5. Ending' /\ Behind'
  BY <1>1, <1>3 DEF Known, Counted, Ending, Behind, Alive, LastEvent
<1>6. Snapshots' /\ Zombies'
  BY <1>1, <1>2, <1>3 DEF Known, Counted, Snapshots, Zombies
<1>7. ASSUME Pausing', \A m \in Messages : Tally(m)' = Tally(m), Due' = Due PROVE Counted'
  <2>1. Tallied'
    BY <1>1, <1>7 DEF Tallied, Known, Counted
  <2> QED BY <1>4, <1>5, <1>6, <1>7, <2>1 DEF Counted
<1>8. ASSUME NEW m \in Messages
      PROVE  /\ Occurs(Work, m) \in Nat /\ Occurs(steering, m) \in Nat /\ Occurs(followUp, m) \in Nat
             /\ Occurs(cp.pending, m) \in Nat /\ Occurs(cp.ctx, m) \in Nat /\ Occurs(<<>>, m) = 0
             /\ Load(m) = Occurs(Work, m) + Occurs(steering, m) + Occurs(followUp, m)
  <2>1. /\ steering \in History /\ followUp \in History /\ cp.pending \in History /\ cp.ctx \in History
    BY DEF Known, TypeInvariant, QueuesType, CheckpointType
  <2>2. /\ Occurs(Work, m) \in Nat /\ Occurs(steering, m) \in Nat /\ Occurs(followUp, m) \in Nat
        /\ Occurs(cp.pending, m) \in Nat /\ Occurs(cp.ctx, m) \in Nat /\ Occurs(<<>>, m) = 0
    BY <1>2, <2>1, OccursNat, OccursNone
  <2>3. Load(m) = Occurs(Work, m) + Occurs(steering, m) + Occurs(followUp, m)
    BY <1>2, <2>2 DEF Load
  <2> QED BY <2>2, <2>3
<1>9. CASE PausePending
  <2>1. /\ op = "pause_pending" /\ op' = "pause_follow_up" /\ UNCHANGED <<steering, followUp>>
        /\ cp'.state = "none" /\ cp'.pending = <<>>
    BY <1>2, <1>9 DEF PausePending, PauseStep, Checkpoint
  <2>2. Pausing'
    BY <1>1, <1>2, <2>1 DEF Pausing
  <2>3. ASSUME NEW m \in Messages PROVE Tally(m)' = Tally(m)
    <3>1. Load(m)' = Load(m)
      BY <1>3, <2>1 DEF Load
    <3> QED BY <1>1, <1>2, <2>1, <3>1 DEF Tally
  <2>4. Due' = Due
    BY <1>1, <1>2, <1>3, <2>1 DEF Due
  <2> QED BY <1>7, <2>2, <2>3, <2>4
<1>10. CASE PauseFollowUp
  <2>1. /\ op = "pause_follow_up" /\ op' = "pause_ctx" /\ steering' = steering /\ followUp' = <<>>
        /\ cp'.state = "none" /\ cp'.pending = cp.pending \o followUp
    BY <1>10 DEF PauseFollowUp, PauseStep, Checkpoint
  <2>2. cp.pending = <<>> /\ followUp \in History
    BY <2>1 DEF Known, Counted, Pausing, TypeInvariant, QueuesType
  <2>3. cp'.pending = followUp
    BY <2>1, <2>2 DEF History
  <2>4. Pausing'
    BY <1>1, <1>2, <2>1 DEF Pausing
  <2>5. ASSUME NEW m \in Messages PROVE Tally(m)' = Tally(m)
    <3>1. Load(m)' = Occurs(Work, m) + Occurs(steering, m)
      BY <1>2, <1>3, <1>8, <2>1 DEF Load
    <3>2. Tally(m) = Load(m)
      BY <1>2, <2>1 DEF Tally
    <3>3. Tally(m)' = Load(m)' + Occurs(followUp, m)
      BY <2>1, <2>3 DEF Tally
    <3> QED BY <1>8, <3>1, <3>2, <3>3
  <2>6. Due' = Due
    BY <1>1, <1>2, <1>3, <2>1 DEF Due
  <2> QED BY <1>7, <2>4, <2>5, <2>6
<1>11. CASE PauseContext
  <2>1. /\ op = "pause_ctx" /\ op' = "pause_steering" /\ UNCHANGED <<steering, followUp>>
        /\ cp'.state = "none" /\ cp'.pending = cp.pending
        /\ cp'.ctx = IF snapCtx = <<>> THEN messages ELSE snapCtx
    BY <1>11 DEF PauseContext, PauseStep, Checkpoint
  <2>2. followUp = <<>>
    BY <2>1 DEF Known, Counted, Pausing
  <2>3. Pausing'
    BY <1>1, <1>2, <2>1 DEF Pausing
  <2>4. ASSUME NEW m \in Messages PROVE Tally(m)' = Tally(m)
    <3>1. Tally(m) = Load(m) + Occurs(cp.pending, m)
      BY <1>2, <2>1 DEF Tally
    <3>2. Tally(m)' = Occurs(cp'.ctx, m) + Occurs(cp.pending, m) + Occurs(steering, m)
      BY <2>1 DEF Tally
    <3>3. Occurs(cp'.ctx, m) = Occurs(Work, m)
      BY <1>2, <2>1
    <3> QED BY <1>8, <2>2, <3>1, <3>2, <3>3
  <2>5. Due' = Due
    BY <1>1, <1>2, <1>3, <2>1 DEF Due
  <2> QED BY <1>7, <2>3, <2>4, <2>5
<1>12. CASE PauseSteering
  <2>1. /\ op = "pause_steering" /\ op' = "none" /\ cp'.state = "taken"
        /\ cp'.ctx = cp.ctx /\ cp'.pending = cp.pending /\ cp'.steering = steering /\ cp'.owed = held
    BY <1>12 DEF PauseSteering, PauseStep, Checkpoint
  <2>2. Pausing'
    BY <2>1 DEF Pausing, Paused
  <2>3. ASSUME NEW m \in Messages PROVE Tally(m)' = Tally(m)
    BY <1>2, <2>1 DEF Tally
  <2>4. Due' = Due
    BY <1>2, <2>1 DEF Due
  <2> QED BY <1>7, <2>2, <2>3, <2>4
<1> QED BY <1>9, <1>10, <1>11, <1>12

(* An event read keeps the last event; AgentEnd is one, and then nothing   *)
(* is left of the run.                                                     *)
LEMMA EventRead ==
  ASSUME Known, HandleEvent
  PROVE  /\ active /\ started \in Runs /\ started > 0 /\ op = "none"
         /\ chan[started] # <<>> /\ chan[started] \in Seq(Events)
         /\ chan'[started] = Tail(chan[started])
         /\ \/ /\ Head(chan[started]).type = "TurnEnd"
               /\ messages' = Append(messages, "assistant")
               /\ UNCHANGED <<active, snapPending, snapCtx>>
            \/ /\ Head(chan[started]).type = "AgentEnd"
               /\ messages' = Head(chan[started]).ctx /\ active' = FALSE
         /\ UNCHANGED <<threads, started, op, cp, steering, followUp, task, guard, sent, held>>
<1>1. /\ started \in Runs /\ started > 0 /\ op = "none" /\ chan[started] # <<>>
      /\ guard[started].pc = "held" /\ guard[started].gen = generation
      /\ chan' = [chan EXCEPT ![started] = Tail(@)]
      /\ UNCHANGED <<threads, started, op, cp, steering, followUp, task, guard, sent, held>>
  BY DEF HandleEvent, HostIdle, Known, TypeInvariant, RunsType, Runs
<1>2. active
  BY <1>1 DEF Known, OnOneThread, GoingActive, CurrentHeld, Going
<1>3. chan[started] \in Seq(Events) /\ chan'[started] = Tail(chan[started])
  BY <1>1 DEF Known, TypeInvariant, ChannelType
<1>4. Head(chan[started]).type \in {"TurnEnd", "AgentEnd"}
  BY <1>1, <1>3, Heads DEF Events
<1>5. \/ /\ Head(chan[started]).type = "TurnEnd"
         /\ messages' = Append(messages, "assistant")
         /\ UNCHANGED <<active, snapPending, snapCtx>>
      \/ /\ Head(chan[started]).type = "AgentEnd"
         /\ messages' = Head(chan[started]).ctx /\ active' = FALSE
  BY <1>4 DEF HandleEvent, clone_messages
<1> QED BY <1>1, <1>2, <1>3, <1>5

(* TurnEnd adds an answer only.                                            *)
LEMMA TurnEndCounted ==
  ASSUME Known, TypeInvariant', HandleEvent, Head(chan[started]).type = "TurnEnd" PROVE Counted'
<1>1. /\ active /\ started \in Runs /\ op = "none"
      /\ chan[started] # <<>> /\ chan[started] \in Seq(Events)
      /\ chan'[started] = Tail(chan[started])
      /\ messages' = Append(messages, "assistant")
      /\ UNCHANGED <<active, snapPending, snapCtx, started, op, cp, steering, followUp, task, guard, sent, held>>
  BY EventRead
<1>2. ~Alive(started) => /\ chan'[started] # <<>>
                         /\ chan'[started][Len(chan'[started])] = chan[started][Len(chan[started])]
  <2> SUFFICES ASSUME ~Alive(started)
               PROVE  /\ Tail(chan[started]) # <<>>
                      /\ Tail(chan[started])[Len(Tail(chan[started]))] = chan[started][Len(chan[started])]
    BY <1>1
  <2>1. chan[started][Len(chan[started])].type = "AgentEnd"
    BY <1>1 DEF Known, Counted, Ending, LastEvent
  <2>2. Head(chan[started]) = chan[started][1]
    BY <1>1, Heads
  <2>3. Len(chan[started]) # 1
    BY <2>1, <2>2
  <2> DEFINE c == chan[started]
  <2>4. c \in Seq(Events) /\ c # <<>> /\ Len(c) # 1
    BY <1>1, <2>3
  <2> HIDE DEF c
  <2>5. Tail(c) # <<>> /\ Tail(c)[Len(Tail(c))] = c[Len(c)]
    <3>1. Len(c) \in Nat /\ Len(c) > 1
      <4>1. c \in Seq(Events) /\ c # <<>>
        BY <2>4
      <4>2. Len(c) \in Nat /\ Len(c) > 0
        BY <4>1
      <4> DEFINE n == Len(c)
      <4>3. n \in Nat /\ n > 0 /\ n # 1
        BY <2>4, <4>2
      <4> HIDE DEF n
      <4>4. n \in Nat /\ n > 1
        BY <4>3
      <4> QED BY <4>4 DEF n
    <3>2. Tail(c) \in Seq(Events) /\ Len(Tail(c)) = Len(c) - 1
          /\ \A i \in 1..(Len(c) - 1) : Tail(c)[i] = c[i + 1]
      BY <2>4
    <3>3. Len(c) - 1 \in 1..(Len(c) - 1) /\ (Len(c) - 1) + 1 = Len(c)
      BY <3>1
    <3>4. Tail(c) # <<>>
      <4>1. Len(<<>>) = 0
        OBVIOUS
      <4>2. Len(Tail(c)) # 0
        BY <3>1, <3>2
      <4> QED BY <4>1, <4>2
    <3> QED BY <3>2, <3>3, <3>4
  <2> QED BY <2>5 DEF c
<1>3. Alive(started)' <=> Alive(started)
  BY <1>1 DEF Alive
<1>4. Current' = Current /\ Work' = Work
  BY <1>1, <1>2, <1>3 DEF Current, Work, LastEvent
<1>5. OneAlive' /\ Shapes'
  BY <1>1, <1>4 DEF Known, Counted, OneAlive, Alive, Shapes
<1>6. Ending'
  BY <1>1, <1>2, <1>3 DEF Known, Counted, Ending, LastEvent
<1>7. Behind'
  <2> SUFFICES ASSUME NEW m \in Messages PROVE Occurs(messages', m) <= Occurs(Work, m)
    BY <1>4 DEF Behind
  <2>1. messages \in History
    BY DEF Known, TypeInvariant, QueuesType
  <2>2. Occurs(messages', m) = Occurs(messages, m)
    BY <1>1, <2>1, OccursAppend
  <2> QED BY <1>1, <2>2 DEF Known, Counted, Behind
<1>8. Snapshots'
  BY <1>1, <1>4 DEF Known, Counted, Snapshots
<1>9. Zombies' /\ Pausing'
  BY <1>1 DEF Zombies, Pausing, Paused
<1>10. Tallied'
  <2>1. ASSUME NEW m \in Messages PROVE Tally(m)' = Tally(m)
    <3>1. Load(m)' = Load(m)
      BY <1>1, <1>4 DEF Load
    <3> QED BY <1>1, <3>1 DEF Tally
  <2>2. Due' = Due /\ sent' = sent
    BY <1>1 DEF Due, Dropping
  <2> QED BY <2>1, <2>2 DEF Tallied, Known, Counted
<1> QED BY <1>5, <1>6, <1>7, <1>8, <1>9, <1>10 DEF Counted

(* AgentEnd makes the run's context the history.                           *)
LEMMA AgentEndCounted ==
  ASSUME Known, TypeInvariant', HandleEvent, Head(chan[started]).type = "AgentEnd" PROVE Counted'
<1>1. /\ active /\ started \in Runs /\ started > 0 /\ op = "none"
      /\ chan[started] # <<>> /\ chan[started] \in Seq(Events)
      /\ messages' = Head(chan[started]).ctx /\ active' = FALSE
      /\ UNCHANGED <<started, op, cp, steering, followUp, task, guard, sent, held>>
  BY EventRead
<1>2. Head(chan[started]) = chan[started][1] /\ 1 \in DOMAIN chan[started]
  BY <1>1, Heads
<1>3. Len(chan[started]) = 1 /\ Current.pc = "returned"
  BY <1>1, <1>2 DEF Known, RunsTracked, EndsLast, Current
<1>4. ~Alive(started) /\ Work = messages'
  <2>1. ~Alive(started)
    BY <1>3 DEF Alive, Current
  <2> QED BY <1>1, <1>2, <1>3, <2>1 DEF Work, LastEvent
<1>5. Current.pending = <<>> /\ Current.polled = <<>>
  BY <1>1, <1>3 DEF Known, Counted, Shapes, Fits
<1>6. OneAlive' /\ Shapes'
  BY <1>1 DEF Known, Counted, OneAlive, Alive, Shapes, Current
<1>7. Ending' /\ Behind' /\ Snapshots'
  BY <1>1 DEF Ending, Behind, Snapshots
<1>8. Zombies' /\ Pausing'
  BY <1>1, <1>4 DEF Zombies, Pausing, Paused, Alive
<1>9. Tallied'
  <2>1. ASSUME NEW m \in Messages PROVE Tally(m)' = Tally(m)
    <3>1. Occurs(<<>>, m) = 0 /\ Occurs(messages', m) \in Nat
      BY OccursNone, OccursNat DEF TypeInvariant, QueuesType
    <3>2. Load(m) = Occurs(messages', m) + Occurs(steering, m) + Occurs(followUp, m)
      BY <1>4, <1>5, <3>1 DEF Load
    <3> QED BY <1>1, <3>2 DEF Tally
  <2>2. Due' = Due /\ sent' = sent
    BY <1>1 DEF Due, Dropping
  <2> QED BY <2>1, <2>2 DEF Tallied, Known, Counted
<1> QED BY <1>6, <1>7, <1>8, <1>9 DEF Counted

(* A drop on one thread that goes on is of the current run, and no task    *)
(* or pause is between two awaits meanwhile.                               *)
LEMMA DropMoves ==
  ASSUME Known, NEW r \in Runs, NEW at, NEW next, DropStep(r, at, next), at # "gone", next # "held"
  PROVE  /\ r <= started /\ started \in Runs /\ started > 0
         /\ Current.pc \notin MidTask /\ op \notin Paused
         /\ active /\ at # "held" => r = started /\ at \in {"cancel", "idle"}
         /\ guard[r].pc = at
         /\ guard'[r].pc = next /\ \A s \in Runs : s # r => guard'[s] = guard[s]
         /\ ~active => \/ guard'[started].pc # "held" /\ Current.pc \notin MidTask
                       \/ steering = <<>> /\ followUp = <<>>
                       \/ ~Alive(started)
         /\ OneAlive' /\ Shapes' /\ Pausing'
         /\ \A s \in Runs : chan'[s] = IF s = r /\ next = "gone" THEN <<>> ELSE chan[s]
         /\ UNCHANGED <<threads, messages, started, op, cp, steering, followUp, task, sent>>
<1>1. /\ guard[r].pc = at /\ May(<<"guard", r>>)
      /\ guard' = [guard EXCEPT ![r] = GuardAt(next, guard[r].gen)]
      /\ chan' = (IF next = "gone" THEN [chan EXCEPT ![r] = <<>>] ELSE chan)
      /\ UNCHANGED <<threads, messages, started, op, cp, steering, followUp, task, sent>>
  BY DEF DropStep, host
<1>2. r <= started /\ started \in Runs /\ started > 0
  BY <1>1 DEF Known, RunsTracked, Unborn, TypeInvariant, RunsType, Runs
<1>3. Current.pc \notin MidTask /\ op \notin Paused
  BY <1>1, <1>2, GuardTurn DEF Known, Current
<1>4. ASSUME active, at # "held" PROVE r = started /\ at \in {"cancel", "idle"}
  <2>1. guard[r].gen = generation
    BY <1>1, <1>4 DEF Known, OnOneThread, RunsTracked, DropCurrent
  <2>2. guard[started].gen = generation /\ guard[started].pc \in {"held", "cancel", "idle"}
    BY <1>4 DEF Known, RunsTracked, ActiveHeld
  <2>3. started <= started
    BY <1>2 DEF Runs
  <2>4. r = started
    BY <1>2, <2>1, <2>2, <2>3 DEF Known, RunsTracked, Generations
  <2> QED BY <1>1, <1>4, <2>2, <2>4
<1>5. guard'[r].pc = next /\ \A s \in Runs : s # r => guard'[s] = guard[s]
  BY <1>1 DEF Known, TypeInvariant, GuardType, GuardAt
<1>6. \A s \in Runs : chan'[s] = IF s = r /\ next = "gone" THEN <<>> ELSE chan[s]
  BY <1>1 DEF Known, TypeInvariant, ChannelType
<1>7. OneAlive' /\ Shapes' /\ Pausing'
  BY <1>1, <1>3 DEF Known, Counted, OneAlive, Alive, Shapes, Current, Pausing,
     Paused
<1>8. ~active => \/ guard'[started].pc # "held" /\ Current.pc \notin MidTask
                 \/ steering = <<>> /\ followUp = <<>>
                 \/ ~Alive(started)
  BY <1>2, <1>3, <1>5 DEF Known, Counted, Zombies
<1> QED BY <1>1, <1>2, <1>3, <1>4, <1>5, <1>6, <1>7, <1>8

(* A drop that has not made the agent idle changes no count.               *)
LEMMA DropBegins ==
  ASSUME Known, NEW r \in Runs, NEW at \in {"held", "cancel"}, NEW next, DropStep(r, at, next),
         next \notin {"held", "clear", "clear_ctx", "notify"},
         active /\ r = started => next # "gone",
         UNCHANGED <<active, snapPending, snapCtx, held>>
  PROVE  Counted'
<1>1. /\ r <= started /\ started \in Runs /\ started > 0
      /\ Current.pc \notin MidTask /\ op \notin Paused
      /\ guard[r].pc = at
      /\ guard'[r].pc = next
      /\ \A s \in Runs : s # r => guard'[s] = guard[s]
      /\ ~active => \/ guard'[started].pc # "held" /\ Current.pc \notin MidTask
                    \/ steering = <<>> /\ followUp = <<>>
                    \/ ~Alive(started)
      /\ OneAlive' /\ Shapes' /\ Pausing'
      /\ \A s \in Runs : chan'[s] = IF s = r /\ next = "gone" THEN <<>> ELSE chan[s]
      /\ UNCHANGED <<threads, messages, started, op, cp, steering, followUp, task, sent>>
  BY DropMoves
<1>2. active => chan'[started] = chan[started]
  BY <1>1
<1>3. Current' = Current /\ (active => Work' = Work)
  BY <1>1, <1>2 DEF Current, Work, Alive, LastEvent
<1>4. Ending' /\ Behind' /\ Snapshots'
  BY <1>1, <1>2, <1>3 DEF Known, Counted, Ending, Behind, Snapshots, Alive,
     LastEvent
<1>5. Zombies'
  BY <1>1, <1>3 DEF Zombies, Alive
<1>6. Tallied'
  <2>1. ASSUME NEW m \in Messages PROVE Tally(m)' = Tally(m)
    <3>1. active => Load(m)' = Load(m)
      BY <1>1, <1>3 DEF Load
    <3> QED BY <1>1, <3>1 DEF Tally, Paused
  <2>2. Dropping' <=> Dropping
    BY <1>1 DEF Dropping
  <2>3. Due' = Due /\ sent' = sent
    BY <1>1, <2>2 DEF Due
  <2> QED BY <2>1, <2>3 DEF Tallied, Known, Counted
<1> QED BY <1>1, <1>4, <1>5, <1>6 DEF Counted

(* A drop that makes the agent idle, or has: the history may lack messages *)
(* of the run it ended, but doubles none; what is missing is no longer     *)
(* owed when the drop is over.                                             *)
LEMMA DropEnds ==
  ASSUME Known, TypeInvariant', NEW r \in Runs, NEW at \in {"idle", "clear", "clear_ctx", "notify"},
         NEW next \in {"clear", "clear_ctx", "notify", "gone"}, DropStep(r, at, next),
         active' = FALSE,
         next = "gone" => held' \subseteq Ids(messages) \cup Ids(steering) \cup Ids(followUp)
  PROVE  Counted'
<1>1. /\ r <= started /\ started \in Runs /\ started > 0
      /\ Current.pc \notin MidTask /\ op \notin Paused
      /\ active => r = started /\ at \in {"cancel", "idle"}
      /\ guard[r].pc = at
      /\ guard'[r].pc = next
      /\ \A s \in Runs : s # r => guard'[s] = guard[s]
      /\ ~active => \/ guard'[started].pc # "held" /\ Current.pc \notin MidTask
                    \/ steering = <<>> /\ followUp = <<>>
                    \/ ~Alive(started)
      /\ OneAlive' /\ Shapes' /\ Pausing'
      /\ UNCHANGED <<threads, messages, started, op, cp, steering, followUp, task, sent>>
  BY DropMoves
<1>2. Ending' /\ Behind' /\ Snapshots'
  BY DEF Ending, Behind, Snapshots
<1>3. Current' = Current
  BY <1>1 DEF Current
<1>4. Zombies'
  <2>1. \/ guard'[started].pc # "held" /\ Current.pc \notin MidTask
        \/ steering = <<>> /\ followUp = <<>>
        \/ ~Alive(started)
    <3>1. CASE active
      <4>1. guard'[started].pc = next
        BY <1>1, <3>1
      <4> QED BY <1>1, <4>1
    <3>2. CASE ~active
      BY <1>1, <3>2
    <3> QED BY <3>1, <3>2
  <2>2. Alive(started)' <=> Alive(started)
    BY <1>1 DEF Alive
  <2> QED BY <1>1, <1>3, <2>1, <2>2 DEF Zombies
<1>5. Tallied'
  <2> SUFFICES ASSUME NEW m \in Messages
               PROVE  /\ Tally(m)' <= 1 /\ (m \in Due' => Tally(m)' = 1)
                      /\ (m \notin sent' => Tally(m)' = 0)
    BY DEF Tallied
  <2>1. Tally(m) <= 1 /\ (m \in Due => Tally(m) = 1) /\ (m \notin sent => Tally(m) = 0)
    BY DEF Known, Counted, Tallied
  <2>2. CASE cp.state = "taken"
    <3>1. Tally(m)' = Tally(m) /\ Due' = Due
      BY <1>1, <2>2 DEF Tally, Due
    <3> QED BY <1>1, <2>1, <3>1
  <2>3. CASE cp.state # "taken"
    <3>1. messages \in History /\ steering \in History /\ followUp \in History
      BY DEF Known, TypeInvariant, QueuesType
    <3>2. Occurs(messages, m) \in Nat /\ Occurs(steering, m) \in Nat /\ Occurs(followUp, m) \in Nat
      BY <3>1, OccursNat
    <3>3. Tally(m)' = Occurs(messages, m) + Occurs(steering, m) + Occurs(followUp, m)
      BY <1>1, <2>3 DEF Tally, Paused
    <3>4. Tally(m)' \in Nat /\ Tally(m)' <= Tally(m)
      <4>1. CASE ~active
        BY <1>1, <2>3, <3>2, <3>3, <4>1 DEF Tally, Paused
      <4>2. CASE active
        <5>1. Tally(m) = Load(m)
          BY <1>1, <2>3, <4>2 DEF Tally, Paused
        <5>2. Occurs(messages, m) <= Occurs(Work, m)
          BY <4>2 DEF Known, Counted, Behind
        <5>3. Work \in History /\ Current.pending \in History /\ Current.polled \in History
          BY <1>1, <4>2, WorkTyped, Holdings DEF Known, Counted
        <5>4. /\ Occurs(Work, m) \in Nat /\ Occurs(Current.pending, m) \in Nat
              /\ Occurs(Current.polled, m) \in Nat
          BY <5>3, OccursNat
        <5>5. Load(m) = Occurs(Work, m) + Occurs(Current.pending, m) + Occurs(Current.polled, m)
                          + Occurs(steering, m) + Occurs(followUp, m)
          BY DEF Load
        <5>6. Load(m) >= Occurs(messages, m) + Occurs(steering, m) + Occurs(followUp, m)
          BY <3>2, <5>2, <5>4, <5>5
        <5> QED BY <3>2, <3>3, <5>1, <5>4, <5>5, <5>6
      <4> QED BY <4>1, <4>2
    <3>5. Tally(m) \in Nat
      <4>1. CASE ~active
        BY <1>1, <2>3, <3>2, <4>1 DEF Tally, Paused
      <4>2. CASE active
        <5>1. Tally(m) = Load(m)
          BY <1>1, <2>3, <4>2 DEF Tally, Paused
        <5>2. Work \in History /\ Current.pending \in History /\ Current.polled \in History
          BY <1>1, <4>2, WorkTyped, Holdings DEF Known, Counted
        <5>3. /\ Occurs(Work, m) \in Nat /\ Occurs(Current.pending, m) \in Nat
              /\ Occurs(Current.polled, m) \in Nat
          BY <5>2, OccursNat
        <5> QED BY <3>2, <5>1, <5>3 DEF Load
      <4> QED BY <4>1, <4>2
    <3>6. Tally(m)' <= 1 /\ (m \notin sent' => Tally(m)' = 0)
      BY <1>1, <2>1, <3>4, <3>5
    <3>7. m \in Due' => Tally(m)' > 0
      <4>1. CASE next \in {"clear", "clear_ctx", "notify"}
        <5>1. Dropping'
          BY <1>1, <4>1 DEF Dropping
        <5> QED BY <1>1, <2>3, <5>1 DEF Due
      <4>2. CASE next = "gone"
        <5> SUFFICES ASSUME m \in Due' PROVE Tally(m)' > 0
          OBVIOUS
        <5>1. m \in Ids(messages) \/ m \in Ids(steering) \/ m \in Ids(followUp)
          BY <1>1, <2>3, <4>2 DEF Due
        <5>2. Occurs(messages, m) > 0 \/ Occurs(steering, m) > 0 \/ Occurs(followUp, m) > 0
          BY <3>1, <5>1, OccursIds
        <5> QED BY <3>2, <3>3, <5>2
      <4> QED BY <4>1, <4>2
    <3> QED BY <3>4, <3>6, <3>7
  <2> QED BY <2>2, <2>3
<1> QED BY <1>1, <1>2, <1>4, <1>5 DEF Counted

(* LoopGuardStream::drop, step by step.                                    *)
LEMMA DropCounted ==
  ASSUME Known, TypeInvariant', NEW r \in Runs, Drop(r) PROVE Counted'
<1>1. CASE DropCheck(r)
  <2> DEFINE next == IF OfCurrentRun(r) THEN "cancel" ELSE "gone"
  <2>1. DropStep(r, "held", next) /\ UNCHANGED <<active, snapPending, snapCtx, held>>
    BY <1>1 DEF DropCheck
  <2>2. active /\ r = started => next # "gone"
    BY DEF Known, RunsTracked, ActiveHeld, OfCurrentRun
  <2>3. next \notin {"held", "clear", "clear_ctx", "notify"}
    OBVIOUS
  <2> HIDE DEF next
  <2> QED BY <2>1, <2>2, <2>3, DropBegins
<1>2. CASE DropCancel(r)
  BY <1>2, DropBegins DEF DropCancel
<1>3. CASE DropIdle(r)
  <2>1. DropStep(r, "idle", "clear") /\ active' = FALSE
    BY <1>3 DEF DropIdle
  <2> QED BY <2>1, DropEnds
<1>4. ASSUME NEW at \in {"clear", "clear_ctx", "notify"}, NEW next, DropStep(r, at, next), next # "held"
      PROVE  ~active
  BY <1>4, DropMoves
<1>5. CASE DropPending(r)
  <2>1. DropStep(r, "clear", "clear_ctx") /\ active' = active
    BY <1>5 DEF DropPending
  <2>2. active' = FALSE
    BY <1>4, <2>1 DEF Known, TypeInvariant, FlagsType
  <2> QED BY <2>1, <2>2, DropEnds
<1>6. CASE DropContext(r)
  <2>1. DropStep(r, "clear_ctx", "notify") /\ active' = active
    BY <1>6 DEF DropContext
  <2>2. active' = FALSE
    BY <1>4, <2>1 DEF Known, TypeInvariant, FlagsType
  <2> QED BY <2>1, <2>2, DropEnds
<1>7. CASE DropNotify(r)
  <2>1. /\ DropStep(r, "notify", "gone") /\ active' = active
        /\ held' \subseteq Ids(messages) \cup Ids(steering) \cup Ids(followUp)
    BY <1>7 DEF DropNotify
  <2>2. active' = FALSE
    BY <1>4, <2>1 DEF Known, TypeInvariant, FlagsType
  <2> QED BY <2>1, <2>2, DropEnds
<1> QED BY <1>1, <1>2, <1>3, <1>5, <1>6, <1>7 DEF Drop

(* The part of the state only one thread keeps.                            *)
LEMMA OneThreadBefore ==
  ASSUME [Next]_vars, OnOneThread' PROVE OnOneThread
<1>1. threads' = threads /\ (overlap => overlap')
  <2>1. CASE Prompt
    BY <2>1 DEF Prompt, start_loop
  <2>2. CASE Continue
    BY <2>2 DEF Continue, start_loop
  <2>3. CASE Resume
    BY <2>3 DEF Resume, start_loop
  <2>4. CASE SendQueued \/ Abort \/ Reset
    <3>1. CASE SendQueued
      <4>1. threads' = threads /\ overlap' = (overlap \/ (~active /\ \E r \in Runs : Alive(r)))
        BY <3>1 DEF SendQueued
      <4> QED BY <4>1
    <3> QED BY <2>4, <3>1 DEF Abort, Reset, history
  <2>5. CASE Pause \/ Wait
    BY <2>5 DEF Pause, PauseCancel, PausePending, PauseFollowUp, PauseContext,
       PauseSteering, PauseStep, Wait, WaitRegister, WaitCheck, WaitAwait,
       WaitWoken, WaitStep, history
  <2>6. CASE HandleEvent
    BY <2>6 DEF HandleEvent
  <2>7. ASSUME NEW r \in Runs, Drop(r) PROVE threads' = threads /\ (overlap => overlap')
    BY <2>7 DEF Drop, DropCheck, DropCancel, DropIdle, DropPending, DropContext,
       DropNotify, DropStep
  <2>8. ASSUME NEW r \in Runs, Task(r) PROVE threads' = threads /\ (overlap => overlap')
    BY <2>8 DEF Task, EmitAgentStart, InjectPending, ClearPending, SyncContext,
       ModelAnswers, ModelAborts, EmitTurnEnd, EmitAbortedTurn, PollSteering,
       PollFollowUp, AppendSnapshot, ReplaceSnapshot, EmitAgentEnd, TaskStep,
       history
  <2>9. CASE UNCHANGED vars
    BY <2>9 DEF vars, history
  <2> QED BY <2>1, <2>2, <2>3, <2>4, <2>5, <2>6, <2>7, <2>8, <2>9 DEF Next,
     Host, Rest
<1> QED BY <1>1 DEF OnOneThread

(* Wherever the runs and the host are, each message is counted once.       *)
LEMMA CountedInvariant == Spec => [](OnOneThread => Counted)
<1>1. Init => (OnOneThread => Counted)
  <2> SUFFICES ASSUME Init PROVE Counted
    OBVIOUS
  <2>1. \A r \in Runs : ~Alive(r)
    BY DEF Init, Alive, Returned, TaskAt
  <2>2. OneAlive /\ Shapes /\ Ending /\ Behind
    BY <2>1 DEF Init, OneAlive, Shapes, Ending, Behind
  <2>3. Snapshots /\ Zombies /\ Pausing
    BY DEF Init, Snapshots, Zombies, Pausing, Paused
  <2>4. Tallied
    <3>1. \A m \in Messages : Occurs(<<>>, m) = 0
      BY OccursNone
    <3>2. cp.state = "none"
      BY DEF Init, NoCheckpoint, Checkpoint
    <3>3. \A m \in Messages : Tally(m) = 0
      BY <3>1, <3>2 DEF Init, Tally
    <3>4. Due = {}
      BY <3>2 DEF Init, Due
    <3> QED BY <3>3, <3>4 DEF Tallied
  <2> QED BY <2>2, <2>3, <2>4 DEF Counted
<1>2. TypeInvariant /\ RunsTracked /\ Followed /\ TypeInvariant'
        /\ (OnOneThread => Counted) /\ [Next]_vars => (OnOneThread => Counted)'
  <2> SUFFICES ASSUME TypeInvariant /\ RunsTracked /\ Followed /\ TypeInvariant',
                      OnOneThread => Counted, [Next]_vars
               PROVE  OnOneThread' => Counted'
    OBVIOUS
  <2> HAVE OnOneThread'
  <2>1. Known
    BY OneThreadBefore DEF Known, Followed
  <2>2. CASE Prompt \/ Continue \/ Resume
    BY <2>1, <2>2, PromptCounted, ContinueCounted, ResumeCounted
  <2>3. CASE SendQueued \/ Reset
    BY <2>1, <2>3, SendCounted, ResetCounted
  <2>4. CASE Abort \/ Wait
    <3>1. /\ op \notin Paused /\ op' \notin Paused
          /\ UNCHANGED <<messages, started, task, chan, guard, active, shared, cp, sent, held>>
      BY <2>4 DEF Abort, Wait, WaitRegister, WaitCheck, WaitAwait, WaitWoken,
         WaitStep, HostIdle, Paused, host, history
    <3> QED BY <2>1, <3>1, NothingCounted
  <2>5. CASE Pause
    BY <2>1, <2>5, PauseCancelCounted, PauseCounted DEF Pause
  <2>6. CASE HandleEvent
    <3>1. Head(chan[started]).type \in {"TurnEnd", "AgentEnd"}
      BY <2>1, <2>6, EventRead
    <3> QED BY <2>1, <2>6, <3>1, TurnEndCounted, AgentEndCounted
  <2>7. ASSUME NEW r \in Runs, Drop(r) PROVE Counted'
    BY <2>1, <2>7, DropCounted
  <2>8. ASSUME NEW r \in Runs, Task(r) PROVE Counted'
    BY <2>1, <2>8, TaskCounted
  <2>9. CASE UNCHANGED vars
    <3>1. Counted
      BY <2>1 DEF Known
    <3> QED BY <2>9, <3>1 DEF vars, shared, history, Counted, OneAlive, Shapes,
       Ending, Behind, Snapshots, Zombies, Pausing, Tallied, Alive, Current,
       LastEvent, Work, Load, Tally, Dropping, Due
  <2> QED BY <2>2, <2>3, <2>4, <2>5, <2>6, <2>7, <2>8, <2>9 DEF Next, Host, Rest
<1> QED BY <1>1, <1>2, AgentTypeCorrect, RunsInvariant, FollowedInvariant, PTL
   DEF Spec

(* A checkpoint taken on one thread holds every message the agent answers  *)
(* for exactly once, wherever the loop was paused.                         *)
THEOREM PauseIsExact == Spec => []PauseExact
<1>1. TypeInvariant /\ (OnOneThread => Counted) => PauseExact
  <2> SUFFICES ASSUME TypeInvariant, OnOneThread => Counted,
                      threads = "one", ~overlap, cp.state = "taken", NEW m \in cp.owed
               PROVE  Times(m) = 1
    BY DEF PauseExact
  <2>1. Counted
    BY DEF OnOneThread
  <2>2. cp.owed \subseteq Messages /\ cp.ctx \in History /\ cp.pending \in History /\ cp.steering \in History
    BY DEF TypeInvariant, CheckpointType
  <2>3. Tally(m) = 1
    BY <2>1, <2>2 DEF Counted, Tallied, Due
  <2>4. Tally(m) = Occurs(cp.ctx, m) + Occurs(cp.pending, m) + Occurs(cp.steering, m)
    BY DEF Tally
  <2>5. cp.ctx \o cp.pending \in History
    BY <2>2, Histories
  <2>6. /\ Occurs(cp.ctx \o cp.pending, m) = Occurs(cp.ctx, m) + Occurs(cp.pending, m)
        /\ Occurs((cp.ctx \o cp.pending) \o cp.steering, m)
             = Occurs(cp.ctx \o cp.pending, m) + Occurs(cp.steering, m)
    BY <2>2, <2>5, OccursConcat
  <2>7. Occurs(Captured, m) = 1
    BY <2>3, <2>4, <2>6 DEF Captured
  <2> QED BY <2>7 DEF Times, Occurs
<1> QED BY <1>1, AgentTypeCorrect, CountedInvariant, PTL

=============================================================================
