----------------------------- MODULE AgentHandle -----------------------------
(***************************************************************************)
(* The Agent, src/src/agent/*.rs: the host starts runs of the agent loop,  *)
(* queues messages, pauses, resumes, aborts and resets, reads the event    *)
(* stream and may drop it at any moment.                                   *)
(*                                                                         *)
(* Actors: the host thread, which alone holds the Agent; one loop task per *)
(* run, which outlives its stream (cancellation is signalled, not joined); *)
(* the drop of a stream (LoopGuardStream), which may happen on another     *)
(* thread. They share the queues, the two pause snapshots, the cancellation *)
(* tokens and loop_active, each behind a lock or atomic of its own.        *)
(*                                                                         *)
(* A step is one access to shared state. On a current-thread runtime the   *)
(* accesses between two awaits (Mid) are not interleaved with other actors.*)
(* start_loop and reset are one step: each access of theirs commutes with  *)
(* the others' or has the effect of the whole step taken earlier or later. *)
(* The loop is AgentLoop reduced to text turns.                            *)
(***************************************************************************)
EXTENDS Integers, Sequences, FiniteSets, TLC

CONSTANTS
  Messages,    \* messages of the host, each sent at most once
  MaxRuns,     \* bound: runs started
  MaxRunsMany, \* bound: runs started on several threads, at most MaxRuns
  MaxResets,   \* bound: calls of reset
  Threads,     \* runtimes considered: subset of {"one", "many"}
  OneAtATime   \* SteeringMode and FollowUpMode: one message a poll, or all

ASSUME HandleAssumption ==
  /\ MaxRuns \in Nat \ {0} /\ MaxRunsMany \in 1..MaxRuns /\ MaxResets \in Nat
  /\ Threads \subseteq {"one", "many"} /\ Threads # {}
  /\ OneAtATime \in BOOLEAN /\ "assistant" \notin Messages

Runs == 1..MaxRuns

VARIABLES
  threads,      \* the runtime: "one" thread or "many"
  messages,     \* AgentState::messages
  active,       \* loop_active
  generation,   \* loop_generation
  token,        \* the run whose token abort_controller holds, 0 for None
  steering, followUp,    \* the queues
  snapPending,  \* PendingMessageSnapshot
  snapCtx,      \* LoopContextSnapshot, <<>> when unset
  started,      \* runs started so far; the last is the current one
  task,         \* each run's loop task: step, context, pending, polled
  guard,        \* each run's LoopGuardStream: its generation, step of its drop
  chan,         \* each run's undelivered events
  cancelled,    \* runs whose token is cancelled
  op,           \* the host's pause() or wait_for_idle() in progress
  cp,           \* the last LoopCheckpoint
  woken,        \* the waiter's Notified was notified
  sent,         \* history: messages the host has sent
  held,         \* history: those the agent answers for
  overlap       \* history: a message or run began with a task of an ended run alive

shared == <<steering, followUp, snapPending, snapCtx>>
host == <<messages, generation, token, started, op, cp>>
history == <<sent, held, overlap>>
vars == <<threads, messages, active, generation, token, shared, started, task,
          guard, chan, cancelled, op, cp, woken, history>>

Ids(s) == {s[i] : i \in DOMAIN s} \cap Messages
LastIsAssistant(s) == s # <<>> /\ s[Len(s)] = "assistant"
Alive(r) == r <= started /\ task[r].pc # "returned"
TaskAt(pc, ctx, pending, polled) ==
  [pc |-> pc, ctx |-> ctx, pending |-> pending, polled |-> polled]
GuardAt(pc, gen) == [pc |-> pc, gen |-> gen]
Checkpoint(state, ctx, pending, steeringMessages, owed) ==
  [state |-> state, ctx |-> ctx, pending |-> pending, steering |-> steeringMessages,
   owed |-> owed]
NoCheckpoint == Checkpoint("none", <<>>, <<>>, <<>>, {})

------------------------------------------------------------------------------
(* Who may take a step: on one thread, nobody interrupts an actor between  *)
(* two awaits. An emit may wait before the event is sent, not after.       *)
MidTask == {"inject", "clear", "sync", "poll_steering", "poll_follow_up", "append",
            "replace"}
Mid == {<<"task", r>> : r \in {x \in Runs : task[x].pc \in MidTask}}
       \cup {<<"guard", r>> : r \in {x \in Runs : guard[x].pc \notin {"held", "gone"}}}
       \cup (IF op \in {"none", "await"} THEN {} ELSE {<<"host", 0>>})
May(actor) == threads = "one" => Mid \subseteq {actor}

HostIdle == op = "none" /\ May(<<"host", 0>>)

------------------------------------------------------------------------------
(* Starting a run. The history moves into the loop task, a copy stays in   *)
(* state.messages.                                                         *)
clone_messages_for_send(context) == context

(* start_loop from history base and queues s, f: a continued run whose     *)
(* history ends with an assistant message takes the queued messages along. *)
start_loop(base, s, f, input, is_continue) ==
  LET drain == is_continue /\ LastIsAssistant(base)
      context == base \o (IF drain THEN s \o f ELSE input)
      r == started + 1
  IN  /\ r <= (IF threads = "one" THEN MaxRuns ELSE MaxRunsMany)
      /\ started' = r
      /\ snapPending' = <<>> /\ snapCtx' = <<>>
      /\ active' = TRUE
      /\ generation' = generation + 1
      /\ token' = r
      /\ steering' = (IF drain THEN <<>> ELSE s)
      /\ followUp' = (IF drain THEN <<>> ELSE f)
      /\ messages' = clone_messages_for_send(context)
      /\ task' = [task EXCEPT ![r] = TaskAt("start", context, <<>>, <<>>)]
      /\ guard' = [guard EXCEPT ![r] = GuardAt("held", generation + 1)]
      /\ overlap' = (overlap \/ \E x \in Runs : Alive(x))
      /\ UNCHANGED <<threads, chan, cancelled, op, woken>>

(* prompt_stream; a running agent refuses (check_not_running).             *)
Prompt ==
  \E m \in Messages \ sent :
    /\ HostIdle /\ ~active
    /\ start_loop(messages, steering, followUp, <<m>>, FALSE)
    /\ sent' = sent \cup {m} /\ held' = held \cup {m}
    /\ UNCHANGED cp

(* continue_stream; validate_continue refuses an answered history with     *)
(* nothing queued.                                                         *)
validate_continue(base, s, f) ==
  base # <<>> /\ (LastIsAssistant(base) => s \o f # <<>>)
Continue ==
  /\ HostIdle /\ ~active
  /\ validate_continue(messages, steering, followUp)
  /\ start_loop(messages, steering, followUp, <<>>, TRUE)
  /\ UNCHANGED <<cp, sent, held>>

(* resume_stream: the checkpoint replaces history and queues, then the run *)
(* continues if it can.                                                    *)
Resume ==
  /\ HostIdle /\ ~active /\ cp.state = "taken"
  /\ cp.ctx # <<>>
  /\ cp' = NoCheckpoint
  /\ held' = cp.owed /\ UNCHANGED sent
  /\ IF validate_continue(cp.ctx, cp.steering, cp.pending)
       THEN start_loop(cp.ctx, cp.steering, cp.pending, <<>>, TRUE)
       ELSE /\ messages' = cp.ctx
            /\ steering' = cp.steering /\ followUp' = cp.pending
            /\ token' = 0 /\ snapPending' = <<>> /\ snapCtx' = <<>>
            /\ UNCHANGED <<threads, active, generation, started, task, guard, chan,
                           cancelled, op, woken, overlap>>

------------------------------------------------------------------------------
(* The host's other calls.                                                 *)
SendQueued ==
  \E m \in Messages \ sent :
    /\ HostIdle
    /\ sent' = sent \cup {m} /\ held' = held \cup {m}
    /\ \/ steering' = Append(steering, m) /\ UNCHANGED followUp
       \/ followUp' = Append(followUp, m) /\ UNCHANGED steering
    /\ overlap' = (overlap \/ (~active /\ \E r \in Runs : Alive(r)))
    /\ UNCHANGED <<threads, host, active, snapPending, snapCtx, task, guard, chan,
                   cancelled, woken>>

CancelToken == IF token = 0 THEN cancelled ELSE cancelled \cup {token}

Abort ==
  /\ HostIdle /\ token # 0 /\ token \notin cancelled
  /\ cancelled' = CancelToken
  /\ UNCHANGED <<threads, host, active, shared, task, guard, chan, woken, history>>

(* notify_waiters reaches every Notified that exists, polled or not.       *)
PolledOnly == {"await"}  \* mutant
Waiters == {"registered", "looked", "await"}
Notify == woken' = (woken \/ op \in Waiters)

Reset ==
  /\ HostIdle /\ started > 0
  /\ generation - started < MaxResets
  /\ cancelled' = CancelToken
  /\ generation' = generation + 1
  /\ messages' = <<>> /\ active' = FALSE /\ token' = 0
  /\ snapPending' = <<>> /\ snapCtx' = <<>>
  /\ steering' = <<>> /\ followUp' = <<>>
  /\ held' = {}
  /\ Notify
  /\ UNCHANGED <<threads, started, task, guard, chan, op, cp, sent, overlap>>

(* pause(): cancel the run; copy the pending snapshot, drain the follow-up *)
(* queue, copy the context snapshot, drain the steering queue.             *)
PauseCancel ==
  /\ HostIdle /\ active /\ cp.state = "none"
  /\ cancelled' = CancelToken
  /\ op' = "pause_pending"
  /\ UNCHANGED <<threads, messages, generation, token, started, cp, active, shared,
                 task, guard, chan, woken, history>>
PauseStep(at, next, checkpoint) ==
  /\ op = at /\ May(<<"host", 0>>)
  /\ op' = next
  /\ cp' = checkpoint
  /\ UNCHANGED <<threads, messages, generation, token, started, active, snapPending,
                 snapCtx, task, guard, chan, cancelled, woken, history>>
PausePending ==
  /\ PauseStep("pause_pending", "pause_follow_up",
               Checkpoint("none", <<>>, snapPending, <<>>, {}))
  /\ UNCHANGED <<steering, followUp>>
PauseFollowUp ==
  /\ PauseStep("pause_follow_up", "pause_ctx",
               Checkpoint("none", <<>>, cp.pending \o followUp, <<>>, {}))
  /\ followUp' = <<>> /\ UNCHANGED steering
PauseContext ==
  /\ PauseStep("pause_ctx", "pause_steering",
               Checkpoint("none", IF snapCtx = <<>> THEN messages ELSE snapCtx,
                          cp.pending, <<>>, {}))
  /\ UNCHANGED <<steering, followUp>>
PauseSteering ==
  /\ PauseStep("pause_steering", "none",
               Checkpoint("taken", cp.ctx, cp.pending, steering, held))
  /\ steering' = <<>> /\ UNCHANGED followUp
Pause == PauseCancel \/ PausePending \/ PauseFollowUp \/ PauseContext \/ PauseSteering

(* wait_for_idle(): register for the notification, look at loop_active,    *)
(* and only then wait; the Agent is borrowed for as long.                  *)
WaitStep(at, next) ==
  /\ op = at /\ May(<<"host", 0>>)
  /\ op' = next
  /\ UNCHANGED <<threads, messages, generation, token, started, cp, active, shared,
                 task, guard, chan, cancelled, history>>
WaitRegister == WaitStep("none", "registered") /\ woken' = FALSE
WaitCheck == \/ WaitStep("registered", "none") /\ ~active /\ woken' = FALSE
             \/ WaitStep("registered", "looked") /\ active /\ UNCHANGED woken
WaitAwait == WaitStep("looked", "await") /\ UNCHANGED woken
WaitWoken == WaitStep("await", "registered") /\ woken /\ woken' = FALSE
Wait == (started > 0 /\ WaitRegister) \/ WaitCheck \/ WaitAwait \/ WaitWoken

last_only(context) == <<context[Len(context)]>>  \* mutant
clone_messages(context) == context

(* handle_stream_event for the next event of the current run: a turn's     *)
(* assistant message is appended, AgentEnd replaces the history. Nothing   *)
(* is read from a stream that is being dropped.                            *)
HandleEvent ==
  /\ HostIdle /\ started > 0
  /\ guard[started].pc = "held" /\ guard[started].gen = generation
  /\ chan[started] # <<>>
  /\ chan' = [chan EXCEPT ![started] = Tail(@)]
  /\ LET e == Head(chan[started])
     IN  IF e.type = "TurnEnd"
           THEN /\ messages' = Append(messages, "assistant")
                /\ UNCHANGED <<active, snapPending, snapCtx, woken>>
           ELSE /\ messages' = clone_messages(e.ctx)
                /\ active' = FALSE
                /\ snapPending' = <<>> /\ snapCtx' = <<>>
                /\ Notify
  /\ UNCHANGED <<threads, generation, token, started, op, cp, steering, followUp, task,
                 guard, cancelled, sent, held, overlap>>

------------------------------------------------------------------------------
(* LoopGuardStream::drop, then the receiver goes. A guard of another       *)
(* generation than the agent's does nothing.                               *)
DropStep(r, at, next) ==
  /\ guard[r].pc = at /\ May(<<"guard", r>>)
  /\ guard' = [guard EXCEPT ![r] = GuardAt(next, guard[r].gen)]
  /\ chan' = (IF next = "gone" THEN [chan EXCEPT ![r] = <<>>] ELSE chan)
  /\ UNCHANGED <<threads, host, steering, followUp, task, sent, overlap>>
OfAnyRun(r) == TRUE  \* mutant
OfCurrentRun(r) == guard[r].gen = generation
DropCheck(r) ==
  /\ r <= started
  /\ DropStep(r, "held", IF OfCurrentRun(r) THEN "cancel" ELSE "gone")
  /\ UNCHANGED <<active, snapPending, snapCtx, cancelled, woken, held>>
DropCancel(r) ==
  /\ DropStep(r, "cancel", "idle")
  /\ cancelled' = cancelled \cup {r}
  /\ UNCHANGED <<active, snapPending, snapCtx, woken, held>>
DropIdle(r) ==
  /\ DropStep(r, "idle", "clear")
  /\ active' = FALSE
  /\ UNCHANGED <<snapPending, snapCtx, cancelled, woken, held>>
DropPending(r) ==
  /\ DropStep(r, "clear", "clear_ctx")
  /\ snapPending' = <<>>
  /\ UNCHANGED <<active, snapCtx, cancelled, woken, held>>
DropContext(r) ==
  /\ DropStep(r, "clear_ctx", "notify")
  /\ snapCtx' = <<>>
  /\ UNCHANGED <<active, snapPending, cancelled, woken, held>>
DropNotify(r) ==
  /\ DropStep(r, "notify", "gone")
  /\ Notify
  /\ held' = held \cap (Ids(messages) \cup Ids(steering) \cup Ids(followUp))
  /\ UNCHANGED <<active, snapPending, snapCtx, cancelled>>
Drop(r) == DropCheck(r) \/ DropCancel(r) \/ DropIdle(r) \/ DropPending(r)
           \/ DropContext(r) \/ DropNotify(r)

------------------------------------------------------------------------------
(* The loop task of run r.                                                 *)
TaskStep(r, at, t) ==
  /\ task[r].pc = at /\ May(<<"task", r>>)
  /\ task' = [task EXCEPT ![r] = t]
  /\ UNCHANGED <<threads, host, active, guard, cancelled, woken, history>>
Returned == TaskAt("returned", <<>>, <<>>, <<>>)
At(r, next) == TaskAt(next, task[r].ctx, task[r].pending, task[r].polled)
Closed(r) == guard[r].pc = "gone"
Emits(r, type, ctx) ==
  chan' = IF Closed(r) THEN chan
          ELSE [chan EXCEPT ![r] = Append(@, [type |-> type, ctx |-> ctx])]

EmitAgentStart(r) ==
  /\ TaskStep(r, "start", IF Closed(r) THEN Returned ELSE At(r, "inject"))
  /\ UNCHANGED <<shared, chan>>

(* run_single_turn: pending messages move to the context; the pending      *)
(* snapshot is cleared; then the context snapshot is written.              *)
InjectPending(r) ==
  /\ TaskStep(r, "inject",
              TaskAt("clear", task[r].ctx \o task[r].pending, <<>>, task[r].polled))
  /\ UNCHANGED <<shared, chan>>
ClearPending(r) ==
  /\ TaskStep(r, "clear", At(r, "sync"))
  /\ snapPending' = <<>>
  /\ UNCHANGED <<steering, followUp, snapCtx, chan>>
SyncForgotten(r) ==  \* mutant
  /\ TaskStep(r, "sync", At(r, IF r \in cancelled THEN "end_turn" ELSE "model"))
  /\ UNCHANGED <<shared, chan>>
SyncContext(r) ==
  /\ TaskStep(r, "sync", At(r, IF r \in cancelled THEN "end_turn" ELSE "model"))
  /\ snapCtx' = task[r].ctx
  /\ UNCHANGED <<steering, followUp, snapPending, chan>>

(* The model answers, even if the token is cancelled by then: the answer   *)
(* is committed and published, or the turn is aborted and only committed.  *)
ModelAnswers(r) ==
  /\ TaskStep(r, "model", TaskAt("turn_end", Append(task[r].ctx, "assistant"),
                              task[r].pending, task[r].polled))
  /\ snapCtx' = task'[r].ctx
  /\ UNCHANGED <<steering, followUp, snapPending, chan>>
ModelAborts(r) ==
  /\ r \in cancelled
  /\ TaskStep(r, "model", At(r, "end_turn"))
  /\ UNCHANGED <<shared, chan>>
EmitTurnEnd(r) ==
  /\ TaskStep(r, "turn_end", IF Closed(r) THEN Returned ELSE At(r, "poll_steering"))
  /\ Emits(r, "TurnEnd", task[r].ctx)
  /\ UNCHANGED shared

(* The cancelled turn: its message, TurnEnd, then AgentEnd.                *)
EmitAbortedTurn(r) ==
  /\ TaskStep(r, "end_turn",
              IF Closed(r) THEN Returned
              ELSE TaskAt("agent_end", Append(task[r].ctx, "assistant"),
                          task[r].pending, task[r].polled))
  /\ Emits(r, "TurnEnd", Append(task[r].ctx, "assistant"))
  /\ UNCHANGED shared

(* poll_steering and poll_follow_up: drain the queue; append what was      *)
(* drained to the pending snapshot; the loop then writes that snapshot     *)
(* from its own pending messages.                                          *)
Drained(q) == IF OneAtATime /\ q # <<>> THEN <<Head(q)>> ELSE q
Left(q) == IF OneAtATime /\ q # <<>> THEN Tail(q) ELSE <<>>
PollSteering(r) ==
  /\ TaskStep(r, "poll_steering",
              TaskAt(IF steering = <<>> THEN "poll_follow_up" ELSE "append",
                     task[r].ctx, task[r].pending, Drained(steering)))
  /\ steering' = Left(steering)
  /\ UNCHANGED <<followUp, snapPending, snapCtx, chan>>
PollFollowUp(r) ==
  /\ TaskStep(r, "poll_follow_up",
              TaskAt(IF followUp = <<>> THEN "agent_end" ELSE "append",
                     task[r].ctx, task[r].pending, Drained(followUp)))
  /\ followUp' = Left(followUp)
  /\ UNCHANGED <<steering, snapPending, snapCtx, chan>>
AppendSnapshot(r) ==
  /\ TaskStep(r, "append", At(r, "replace"))
  /\ snapPending' = snapPending \o task[r].polled
  /\ UNCHANGED <<steering, followUp, snapCtx, chan>>
ReplaceSnapshot(r) ==
  /\ TaskStep(r, "replace", TaskAt("inject", task[r].ctx,
                                    task[r].pending \o task[r].polled, <<>>))
  /\ snapPending' = task'[r].pending
  /\ UNCHANGED <<steering, followUp, snapCtx, chan>>

EmitAgentEnd(r) ==
  /\ TaskStep(r, "agent_end", Returned)
  /\ Emits(r, "AgentEnd", task[r].ctx)
  /\ UNCHANGED shared

Task(r) ==
  \/ EmitAgentStart(r) \/ InjectPending(r) \/ ClearPending(r) \/ SyncContext(r)
  \/ ModelAnswers(r) \/ ModelAborts(r) \/ EmitTurnEnd(r) \/ EmitAbortedTurn(r)
  \/ PollSteering(r) \/ PollFollowUp(r) \/ AppendSnapshot(r) \/ ReplaceSnapshot(r)
  \/ EmitAgentEnd(r)

------------------------------------------------------------------------------
Init ==
  /\ threads \in Threads
  /\ messages = <<>> /\ active = FALSE /\ generation = 0 /\ token = 0
  /\ steering = <<>> /\ followUp = <<>> /\ snapPending = <<>> /\ snapCtx = <<>>
  /\ started = 0
  /\ task = [r \in Runs |-> Returned]
  /\ guard = [r \in Runs |-> GuardAt("gone", 0)]
  /\ chan = [r \in Runs |-> <<>>]
  /\ cancelled = {} /\ op = "none" /\ cp = NoCheckpoint /\ woken = FALSE
  /\ sent = {} /\ held = {} /\ overlap = FALSE

Host == Prompt \/ Continue \/ Resume \/ SendQueued \/ Abort \/ Reset \/ Pause \/ Wait
        \/ HandleEvent
Rest == op = "none" /\ (\A r \in Runs : ~Alive(r)) /\ UNCHANGED vars
Next == Host \/ Rest \/ \E r \in Runs : Drop(r) \/ Task(r)
Spec == Init /\ [][Next]_vars

Symmetry == Permutations(Messages)

------------------------------------------------------------------------------
(* Properties.                                                             *)
TaskSteps == MidTask \cup {"start", "model", "turn_end", "end_turn", "agent_end",
                           "returned"}
GuardSteps == {"held", "cancel", "idle", "clear", "clear_ctx", "notify", "gone"}
HostSteps == {"none", "pause_pending", "pause_follow_up", "pause_ctx", "pause_steering",
              "registered", "looked", "await"}
History == Seq(Messages \cup {"assistant"})
Events == [type : {"TurnEnd", "AgentEnd"}, ctx : History]

(* Agent keeps its types; histories, contexts, queues and snapshots hold   *)
(* messages only, and no run is numbered beyond those begun.               *)
FlagsType ==
  /\ threads \in {"one", "many"}
  /\ active \in BOOLEAN /\ woken \in BOOLEAN /\ overlap \in BOOLEAN
  /\ op \in HostSteps
RunsType ==
  /\ started \in 0..MaxRuns /\ token \in 0..started
  /\ generation \in started..(started + MaxResets)
  /\ cancelled \subseteq Runs
QueuesType ==
  /\ messages \in History /\ steering \in History /\ followUp \in History
  /\ snapPending \in History /\ snapCtx \in History
  /\ held \subseteq Messages /\ sent \subseteq Messages
CheckpointType ==
  cp \in [state : {"none", "taken"}, ctx : History, pending : History, steering : History,
          owed : SUBSET Messages]
Tasks == [pc : TaskSteps, ctx : History, pending : History, polled : History]
TaskType == task \in [Runs -> Tasks]
GuardType == guard \in [Runs -> [pc : GuardSteps, gen : Nat]]
ChannelType == chan \in [Runs -> Seq(Events)]
TypeInvariant ==
  /\ FlagsType /\ RunsType /\ QueuesType /\ CheckpointType
  /\ TaskType /\ GuardType /\ ChannelType

(* checkpointing.rs:pause on a current-thread runtime, unless the task of  *)
(* an ended run could take messages: the checkpoint holds every message    *)
(* the agent answers for exactly once, wherever the loop was.              *)
Captured == cp.ctx \o cp.pending \o cp.steering
Times(m) == Cardinality({i \in DOMAIN Captured : Captured[i] = m})
PauseExact ==
  (threads = "one" /\ ~overlap /\ cp.state = "taken")
    => \A m \in cp.owed : Times(m) = 1

(* LoopGuardStream: an agent whose stream is gone does not stay running,   *)
(* which would refuse every later prompt; and, on one thread, a guard of   *)
(* an older run never makes it idle while its current run is still going.  *)
ActiveExact ==
  /\ active => guard[started].pc # "gone"
  /\ (/\ threads = "one" /\ started > 0
      /\ guard[started].pc = "held" /\ guard[started].gen = generation
      /\ Alive(started) \/ chan[started] # <<>>) => active

(* start_loop's history-loss guard: no message ever leaves the observable  *)
(* history but by reset or by resuming a checkpoint, wherever a stream is  *)
(* dropped (on one thread).                                                *)
HistoryKept ==
  [][\/ threads = "many" \/ Reset \/ Resume
     \/ Ids(messages) \subseteq Ids(messages')]_vars

(* control.rs:wait_for_idle_future registers before it looks: a waiter     *)
(* never sleeps through the transition to idle.                            *)
NoLostWakeup ==
  (op = "await" /\ ~woken)
    => active \/ \E r \in Runs : guard[r].pc \in {"clear", "clear_ctx", "notify"}
==============================================================================
