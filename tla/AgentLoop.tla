------------------------------ MODULE AgentLoop ------------------------------
(***************************************************************************)
(* The agent loop, src/src/loop_/mod.rs, turn.rs and overflow.rs: an outer *)
(* loop over follow-up messages around an inner loop of turns. A turn      *)
(* takes in the pending messages, transforms the context, asks the model   *)
(* and either ends (no tool calls) or runs the calls and goes on.          *)
(*                                                                         *)
(* A step is the code between two awaits. Each step emits at most one      *)
(* lifecycle event, so the environment (queueing messages, cancelling,     *)
(* dropping the event stream) interleaves with all of them. The model call *)
(* and the tool batch are the contracts of StreamRetry and ToolDispatch:   *)
(* a call of the model yields one message lifecycle and one StreamResult,  *)
(* a batch answers every call it was given.                                *)
(*                                                                         *)
(* A message is a user message with an identity, the assistant message of  *)
(* a turn with its number of tool calls, or the result of one of them.     *)
(***************************************************************************)
EXTENDS Integers, Sequences

CONSTANTS
  Messages,      \* messages the host may queue, each at most once
  MaxCalls,      \* bound: tool calls of one assistant message
  MaxToolTurns,  \* bound: only this many first turns call tools
  MaxInjects,    \* bound: messages injected by policies in the run
  SteeringMode,  \* how many steering messages a poll takes
  FollowUpMode,  \* and how many follow-ups
  Transformer,   \* whether a context transformer is configured
  Nudge,         \* AgentLoopConfig::reasoning_only_nudge
  Policies       \* verdicts the configured policies may return

ASSUME LoopAssumption ==
  /\ MaxCalls \in Nat /\ MaxToolTurns \in Nat /\ MaxInjects \in Nat
  /\ {SteeringMode, FollowUpMode} \subseteq {"OneAtATime", "All"}
  /\ Transformer \in BOOLEAN /\ Nudge \in BOOLEAN
  /\ Policies \subseteq {"Stop", "Inject", "Replace"}
  /\ Messages \cap {"prompt", "injected", "nudge"} = {}

VARIABLES
  pc,           \* the next step of run_loop_inner
  turn_index,
  ctx,          \* LoopState::context_messages
  pending,      \* LoopState::pending_messages
  snapPending,  \* PendingMessageSnapshot, read by Agent::pause
  snapCtx,      \* LoopContextSnapshot, read by Agent::pause
  steering,     \* the steering queue
  followUp,     \* the follow-up queue
  recovered,    \* overflow_recovery_attempted
  nudged,       \* reasoning_only_nudged
  answer,       \* the assistant message of this turn
  results,      \* tool_results of this turn
  stop,         \* a policy or the dispatch stopped the agent in this turn
  interrupted,  \* steering_interrupted
  script,       \* events still to emit before the loop returns
  run, turn, msg, last,  \* the event stream, see EventProtocol
  cancelled,    \* the run's CancellationToken
  closed,       \* the event receiver was dropped
  queued,       \* history: messages the host has queued
  given,        \* history: user messages that were ever in the context
  stopped,      \* history: some policy or dispatch verdict was Stop
  injects       \* history: messages injected by policies

stream == <<run, turn, msg, last>>
snaps == <<snapPending, snapCtx>>
queues == <<steering, followUp>>
env == <<cancelled, closed, queued>>
history == <<given, stopped>>
turnVars == <<answer, results, stop, interrupted>>
vars == <<pc, turn_index, ctx, pending, snaps, queues, recovered, nudged,
          turnVars, script, stream, env, history, injects>>

------------------------------------------------------------------------------
(* Messages and events.                                                    *)
User(m) == [role |-> "user", id |-> m]
UserMessages(q) == [i \in DOMAIN q |-> User(q[i])]
Injected(count) == [i \in 1..count |-> User("injected")]
Assistant(calls) == [role |-> "assistant", turn |-> turn_index, calls |-> calls]
Result(c) == [role |-> "result", turn |-> turn_index, call |-> c]
ResultsOf(first, count) == [i \in 1..count |-> Result(first + i - 1)]
Users(s) == {s[i].id : i \in {j \in DOMAIN s : s[j].role = "user"}}

Event(type) == [type |-> type, reason |-> "none"]
End(reason) == [type |-> "TurnEnd", reason |-> reason]
NoAnswer == [kind |-> "none", calls |-> 0, incomplete |-> 0]

(* What the model may say: a visible answer, hidden reasoning only, or n   *)
(* tool calls of which the last was cut short by the token limit.          *)
Answers ==
  {[kind |-> k, calls |-> 0, incomplete |-> 0] : k \in {"visible", "reasoning"}}
  \cup {[kind |-> "calls", calls |-> n, incomplete |-> i] :
          n \in 1..MaxCalls, i \in 0..1}

(* The event stream after event e.                                         *)
Sees(e) ==
  /\ run' = IF e.type = "AgentStart" THEN "running"
            ELSE IF e.type = "AgentEnd" THEN "ended" ELSE run
  /\ turn' = IF e.type = "TurnStart" THEN "open"
             ELSE IF e.type = "TurnEnd" THEN "closed" ELSE turn
  /\ msg' = IF e.type = "TurnStart" THEN "none"
            ELSE IF e.type = "MessageStart" THEN "open"
            ELSE IF e.type = "MessageEnd" THEN "done" ELSE msg
  /\ last' = IF e.type = "TurnEnd" THEN e.reason ELSE last

(* A checked emit: the loop returns when the receiver is gone.             *)
emit(e, next) ==
  IF closed THEN pc' = "returned" /\ UNCHANGED stream
            ELSE pc' = next /\ Sees(e)

(* let _ = emit(..): the loop goes on either way.                          *)
emit_unchecked(e, next) ==
  /\ pc' = next
  /\ IF closed THEN UNCHANGED stream ELSE Sees(e)

(* The events of a turn cancelled before it started, and of one cancelled  *)
(* after its TurnStart and MessageStart (emit_cancellation_for_turn).      *)
handle_cancellation ==
  <<Event("TurnStart"), Event("MessageStart"), Event("MessageEnd"),
    End("Cancelled"), Event("AgentEnd")>>
started_turn_cancelled_anew == handle_cancellation  \* mutant
handle_started_turn_cancellation ==
  <<Event("MessageEnd"), End("Cancelled"), Event("AgentEnd")>>

(* The rest of the run is to emit events and return.                       *)
Ends(events) == pc' = "ending" /\ script' = events /\ UNCHANGED stream

------------------------------------------------------------------------------
(* Policies. A post-turn policy may stop the agent, replace the assistant  *)
(* message (keeping its tool calls), or inject a message, which goes to    *)
(* the pending messages and their snapshot.                                *)
run_post_turn_policy_check(verdict) ==
  /\ verdict \in {"Continue"} \cup Policies
  /\ IF verdict = "Inject"
       THEN /\ injects < MaxInjects
            /\ injects' = injects + 1
            /\ pending' = Append(pending, User("injected"))
            /\ snapPending' = pending'
       ELSE UNCHANGED <<injects, pending, snapPending>>

(* drain_queue: what one poll takes from queue q, and what it leaves.      *)
Drained(q, mode) == IF mode = "OneAtATime" /\ q # <<>> THEN <<Head(q)>> ELSE q
Left(q, mode) == IF mode = "OneAtATime" /\ q # <<>> THEN Tail(q) ELSE <<>>

(* Transformers are external: they leave the context alone or compact it,  *)
(* dropping the oldest message, and its results with it.                   *)
Compactions ==
  {SubSeq(ctx, n, Len(ctx)) :
     n \in {i \in 2..Len(ctx) : /\ ctx[i].role # "result"
                               /\ \A j \in 2..(i-1) : ctx[j].role = "result"}}
run_context_transformers ==
  IF Transformer THEN Compactions \cup {ctx} ELSE {ctx}

(* The context is published for Agent::pause.                              *)
publish_first_only(context) == UNCHANGED snapCtx  \* mutant
sync_loop_context_snapshot(context) == snapCtx' = context

------------------------------------------------------------------------------
(* run_loop_inner: AgentStart.                                             *)
Start ==
  /\ pc = "start"
  /\ emit(Event("AgentStart"), "turn")
  /\ UNCHANGED <<turn_index, ctx, pending, snaps, queues, recovered, nudged,
                 turnVars, script, env, history, injects>>

(* run_single_turn up to the cancellation check: pending messages move to  *)
(* the context, the pause snapshots follow. A cancelled turn is told in    *)
(* full (handle_cancellation).                                             *)
InjectPending ==
  /\ pc = "turn"
  /\ recovered' = FALSE
  /\ answer' = NoAnswer /\ results' = <<>> /\ stop' = FALSE /\ interrupted' = FALSE
  /\ pending' = <<>> /\ snapPending' = <<>>
  /\ sync_loop_context_snapshot(ctx \o pending)
  /\ given' = given \cup Users(pending)
  /\ IF cancelled
       THEN /\ ctx' = (ctx \o pending) \o <<Assistant(0)>>
            /\ Ends(handle_cancellation)
       ELSE /\ ctx' = ctx \o pending
            /\ pc' = "transform"
            /\ UNCHANGED <<script, stream>>
  /\ UNCHANGED <<turn_index, queues, nudged, env, stopped, injects>>

(* Both transformers, each with its refresh of the pause snapshot.         *)
Transform ==
  /\ pc = "transform"
  /\ ctx' \in run_context_transformers
  /\ sync_loop_context_snapshot(ctx')
  /\ pc' = "preturn"
  /\ UNCHANGED <<turn_index, pending, snapPending, queues, recovered, nudged,
                 turnVars, script, stream, env, history, injects>>

PreTurnContinue ==
  /\ pc = "preturn"
  /\ pc' = "turnstart"
  /\ UNCHANGED <<turn_index, ctx, pending, snaps, queues, recovered, nudged,
                 turnVars, script, stream, env, history, injects>>

(* The agent ends before the turn: AgentEnd without a TurnStart.           *)
PreTurnStop ==
  /\ pc = "preturn" /\ "Stop" \in Policies
  /\ stopped' = TRUE
  /\ Ends(<<Event("AgentEnd")>>)
  /\ UNCHANGED <<turn_index, ctx, pending, snaps, queues, recovered, nudged,
                 turnVars, env, given, injects>>

PreTurnInject ==
  /\ pc = "preturn" /\ "Inject" \in Policies /\ injects < MaxInjects
  /\ injects' = injects + 1
  /\ ctx' = Append(ctx, User("injected"))
  /\ sync_loop_context_snapshot(ctx')
  /\ pc' = "turnstart"
  /\ UNCHANGED <<turn_index, pending, snapPending, queues, recovered, nudged,
                 turnVars, script, stream, env, history>>

TurnStart ==
  /\ pc = "turnstart"
  /\ emit(Event("TurnStart"), "request")
  /\ UNCHANGED <<turn_index, ctx, pending, snaps, queues, recovered, nudged,
                 turnVars, script, env, history, injects>>

------------------------------------------------------------------------------
WaitForConsumer == IF closed THEN "request" ELSE "call"  \* mutant
CallStep == IF closed THEN "returned" ELSE "call"

(* The model call. BeforeLlmCall is not a lifecycle event, but the loop    *)
(* returns when it cannot be delivered.                                    *)
BeforeLlmCall ==
  /\ pc = "request"
  /\ pc' = CallStep
  /\ UNCHANGED <<turn_index, ctx, pending, snaps, queues, recovered, nudged,
                 turnVars, script, stream, env, history, injects>>

(* stream_with_retry begins: a call that finds the token cancelled streams *)
(* nothing, and the retry after an overflow has its MessageStart already.  *)
CallModel ==
  /\ pc = "call" /\ ~cancelled
  /\ IF recovered THEN pc' = "stream" /\ UNCHANGED stream
                  ELSE emit(Event("MessageStart"), "stream")
  /\ UNCHANGED <<turn_index, ctx, pending, snaps, queues, recovered, nudged,
                 turnVars, script, env, history, injects>>

(* StreamResult::Message with an answer, after its MessageEnd.             *)
StreamAnswers(a) ==
  /\ pc = "stream"
  /\ a.kind = "calls" => turn_index < MaxToolTurns
  /\ answer' = a
  /\ emit(Event("MessageEnd"), IF a.calls = 0 THEN "text" ELSE "calls")
  /\ UNCHANGED <<turn_index, ctx, pending, snaps, queues, recovered, nudged,
                 results, stop, interrupted, script, env, history, injects>>

(* StreamResult::Message with an error, or with one built for a malformed  *)
(* stream, whose MessageEnd is not checked.                                *)
StreamFails ==
  /\ pc = "stream"
  /\ emit(Event("MessageEnd"), "error") \/ emit_unchecked(Event("MessageEnd"), "error")
  /\ UNCHANGED <<turn_index, ctx, pending, snaps, queues, recovered, nudged,
                 turnVars, script, env, history, injects>>

(* StreamResult::Aborted: before the first attempt, between two attempts   *)
(* (neither tells the end of the message), or in the middle of one.        *)
StreamAborts ==
  /\ \/ pc = "call" /\ cancelled /\ pc' = "abort" /\ UNCHANGED stream
     \/ pc = "stream" /\ cancelled /\ pc' = "abort" /\ UNCHANGED stream
     \/ pc = "stream" /\ emit(Event("MessageEnd"), "abort")
  /\ UNCHANGED <<turn_index, ctx, pending, snaps, queues, recovered, nudged,
                 turnVars, script, env, history, injects>>

(* StreamResult::ContextOverflow: recovery needs a transformer and happens *)
(* once a turn; otherwise the overflow is the turn's error.                *)
StreamOverflows ==
  /\ pc = "stream"
  /\ pc' = IF recovered \/ ~Transformer THEN "overflow_error" ELSE "recover"
  /\ UNCHANGED <<turn_index, ctx, pending, snaps, queues, recovered, nudged,
                 turnVars, script, stream, env, history, injects>>

any_compacted(new) == new # ctx

(* attempt_overflow_recovery: compact, and ask again if that had an effect.*)
attempt_overflow_recovery ==
  /\ pc = "recover"
  /\ recovered' = TRUE
  /\ \E new \in run_context_transformers :
       /\ sync_loop_context_snapshot(new)
       /\ \/ /\ ~any_compacted(new)
             /\ pc' = "overflow_error"
             /\ UNCHANGED <<ctx, script, stream>>
          \/ /\ any_compacted(new) /\ cancelled
             /\ ctx' = Append(new, Assistant(0))
             /\ Ends(handle_started_turn_cancellation)
          \/ /\ any_compacted(new) /\ ~cancelled
             /\ ctx' = new
             /\ pc' = "call"
             /\ UNCHANGED <<script, stream>>
  /\ UNCHANGED <<turn_index, pending, snapPending, queues, nudged, turnVars, env,
                 history, injects>>

overflow_error ==
  /\ pc = "overflow_error"
  /\ emit_unchecked(Event("MessageEnd"), "error")
  /\ UNCHANGED <<turn_index, ctx, pending, snaps, queues, recovered, nudged,
                 turnVars, script, env, history, injects>>

ExitFailed(reason) == Ends(<<End(reason), Event("AgentEnd")>>)

(* The error or abort message is committed, post-turn policies see it, and *)
(* the run ends whatever they say: no follow-up is polled.                 *)
EndFailed(where, reason) ==
  /\ pc = where
  /\ ctx' = Append(ctx, Assistant(0))
  /\ \E v \in {"Continue"} \cup Policies :
       /\ run_post_turn_policy_check(v)
       /\ stopped' = (stopped \/ v = "Stop")
  /\ ExitFailed(reason)
  /\ UNCHANGED <<turn_index, snapCtx, queues, recovered, nudged, turnVars, env,
                 given>>
handle_error_stop == EndFailed("error", "Error")
handle_stream_abort == EndFailed("abort", "Aborted")

------------------------------------------------------------------------------
(* handle_no_tool_calls, up to TurnEnd: commit the answer, run post-turn   *)
(* policies, which may replace it by any other, publish the context.       *)
CommitText ==
  /\ pc = "text"
  /\ ctx' = Append(ctx, Assistant(0)) /\ sync_loop_context_snapshot(ctx')
  /\ \E v \in {"Continue"} \cup Policies :
       /\ run_post_turn_policy_check(v)
       /\ stop' = (v = "Stop") /\ stopped' = (stopped \/ stop')
       /\ \E k \in IF v = "Replace" THEN {"visible", "reasoning"} ELSE {answer.kind} :
            answer' = [answer EXCEPT !.kind = k]
  /\ emit(End(IF answer'.kind = "reasoning" THEN "ReasoningOnly" ELSE "Complete"),
          "aftertext")
  /\ UNCHANGED <<turn_index, queues, recovered, nudged, results, interrupted,
                 script, env, given>>

BreakInner(left) == left = <<>>

(* A stop of this turn is honoured once its TurnEnd is out.                *)
StopHonoured == stop

(* handle_no_tool_calls after TurnEnd: honour a stop, nudge once, poll     *)
(* steering; the inner loop goes on if anything is pending.                *)
AfterText ==
  LET reasoning == answer.kind = "reasoning"
      nudge == IF reasoning /\ Nudge /\ ~nudged THEN <<User("nudge")>> ELSE <<>>
      polled == Drained(steering, SteeringMode)
  IN  /\ pc = "aftertext"
      /\ IF StopHonoured
           THEN /\ Ends(<<Event("AgentEnd")>>)
                /\ UNCHANGED <<turn_index, pending, snapPending, steering, nudged>>
           ELSE /\ nudged' = (reasoning /\ (nudged \/ Nudge))
                /\ steering' = Left(steering, SteeringMode)
                /\ pending' = pending \o nudge \o UserMessages(polled)
                /\ snapPending' = pending'
                /\ turn_index' = turn_index + 1
                /\ pc' = IF BreakInner(pending') THEN "postloop" ELSE "turn"
                /\ UNCHANGED <<script, stream>>
      /\ UNCHANGED <<ctx, snapCtx, followUp, recovered, turnVars, env, history, injects>>

------------------------------------------------------------------------------
Whole == answer.calls - answer.incomplete  \* number of complete calls

(* handle_tool_calls, up to the dispatch: commit the message; calls cut    *)
(* short by the token limit (recover_incomplete_tool_calls) get an error   *)
(* result in the context and in tool_results, the others are dispatched.   *)
CommitCalls ==
  LET errors == ResultsOf(Whole + 1, answer.incomplete)
  IN  /\ pc = "calls"
      /\ ctx' = Append(ctx, Assistant(answer.calls)) \o errors
      /\ results' = errors
      /\ pc' = IF Whole = 0 THEN "commit" ELSE "tools"
      /\ UNCHANGED <<turn_index, pending, snaps, queues, recovered, nudged, answer,
                     stop, interrupted, script, stream, env, history, injects>>

CompletedOnly(messages) ==  \* mutant
  IF messages = <<>> THEN results \o ResultsOf(1, Whole) ELSE results
BatchResults(messages) == results \o ResultsOf(1, Whole)

(* The outcomes of the batch: every dispatched call has its result, and    *)
(* messages injected by pre-dispatch policies, then drained steering       *)
(* messages, become pending.                                               *)
BatchEnds(messages, next) ==
  LET inject == "Inject" \in Policies /\ injects < MaxInjects
  IN  /\ pc = "tools"
      /\ results' = BatchResults(messages)
      /\ \E k \in IF inject THEN 0..1 ELSE {0} :
           /\ injects' = injects + k
           /\ pending' = pending \o Injected(k) \o messages
      /\ snapPending' = pending'
      /\ pc' = next
      /\ UNCHANGED <<turn_index, ctx, snapCtx, followUp, recovered, nudged, answer,
                     script, stream, env, given>>

ToolsComplete ==
  /\ \E next \in {"commit", "transfer"} : BatchEnds(<<>>, next)
  /\ UNCHANGED <<steering, stop, interrupted, stopped>>
ToolsStopped ==
  /\ "Stop" \in Policies
  /\ BatchEnds(<<>>, "commit")
  /\ stop' = TRUE /\ stopped' = TRUE
  /\ UNCHANGED <<steering, interrupted>>
ToolsInterrupted ==
  LET polled == Drained(steering, SteeringMode)
  IN  /\ steering # <<>>
      /\ BatchEnds(UserMessages(polled), "commit")
      /\ steering' = Left(steering, SteeringMode)
      /\ interrupted' = TRUE
      /\ UNCHANGED <<stop, stopped>>
ToolsAborted ==
  /\ cancelled
  /\ BatchEnds(<<>>, "cancelled")
  /\ UNCHANGED <<steering, stop, interrupted, stopped>>
ToolsUndelivered ==
  /\ pc = "tools" /\ closed
  /\ pc' = "returned"
  /\ UNCHANGED <<turn_index, ctx, pending, snaps, queues, recovered, nudged,
                 turnVars, script, stream, env, history, injects>>

(* The batch was aborted: results are committed, a policy's stop is not    *)
(* needed any more, the turn ends as cancelled and with it the run.        *)
CommitCancelled ==
  /\ pc = "cancelled"
  /\ ctx' = ctx \o results
  /\ \E v \in {"Continue"} \cup Policies :
       /\ run_post_turn_policy_check(v)
       /\ stopped' = (stopped \/ v = "Stop")
  /\ Ends(<<End("Cancelled"), Event("AgentEnd")>>)
  /\ UNCHANGED <<turn_index, snapCtx, queues, recovered, nudged, turnVars, env,
                 given>>

(* Results are committed, post-turn policies run, the context is published *)
(* and TurnEnd emitted. A transfer the chain accepts ends the run; one it  *)
(* rejects has its confirmation rewritten and the turn ends as usual.      *)
CommitResults ==
  /\ pc \in {"commit", "transfer"}
  /\ ctx' = ctx \o results /\ sync_loop_context_snapshot(ctx')
  /\ \E v \in {"Continue"} \cup Policies :
       /\ run_post_turn_policy_check(v)
       /\ stop' = (stop \/ v = "Stop") /\ stopped' = (stopped \/ v = "Stop")
  /\ \/ /\ pc = "transfer"
        /\ Ends(<<End("Transfer"), Event("AgentEnd")>>)
     \/ /\ emit(End(IF interrupted THEN "SteeringInterrupt" ELSE "ToolsExecuted"),
                IF pc = "transfer" THEN "rejected" ELSE "aftertools")
        /\ UNCHANGED script
  /\ UNCHANGED <<turn_index, queues, recovered, nudged, answer, results,
                 interrupted, env, given>>

(* handle_tool_calls after TurnEnd: honour a stop, poll steering unless it *)
(* interrupted the batch (or the turn was a rejected transfer), go on.     *)
AfterTools ==
  LET poll == pc = "aftertools" /\ ~interrupted
      polled == IF poll THEN Drained(steering, SteeringMode) ELSE <<>>
  IN  /\ pc \in {"aftertools", "rejected"}
      /\ IF StopHonoured
           THEN /\ Ends(<<Event("AgentEnd")>>)
                /\ UNCHANGED <<turn_index, pending, snapPending, steering>>
           ELSE /\ steering' = IF poll THEN Left(steering, SteeringMode) ELSE steering
                /\ pending' = pending \o UserMessages(polled)
                /\ snapPending' = pending'
                /\ turn_index' = turn_index + 1
                /\ pc' = "turn"
                /\ UNCHANGED <<script, stream>>
      /\ UNCHANGED <<ctx, snapCtx, followUp, recovered, nudged, turnVars, env,
                     history, injects>>

------------------------------------------------------------------------------
(* The end of the inner loop: post-loop policies, then follow-ups.         *)
PostLoopContinue ==
  /\ pc = "postloop"
  /\ pc' = "followup"
  /\ UNCHANGED <<turn_index, ctx, pending, snaps, queues, recovered, nudged,
                 turnVars, script, stream, env, history, injects>>
PostLoopStop ==
  /\ pc = "postloop" /\ "Stop" \in Policies
  /\ stopped' = TRUE
  /\ Ends(<<Event("AgentEnd")>>)
  /\ UNCHANGED <<turn_index, ctx, pending, snaps, queues, recovered, nudged,
                 turnVars, env, given, injects>>
PostLoopInject ==
  /\ pc = "postloop" /\ "Inject" \in Policies /\ injects < MaxInjects
  /\ injects' = injects + 1
  /\ pending' = Append(pending, User("injected")) /\ snapPending' = pending'
  /\ pc' = "turn"
  /\ UNCHANGED <<turn_index, ctx, snapCtx, queues, recovered, nudged, turnVars,
                 script, stream, env, history>>

PollFollowUp ==
  LET polled == Drained(followUp, FollowUpMode)
  IN  /\ pc = "followup"
      /\ IF polled = <<>>
           THEN /\ Ends(<<Event("AgentEnd")>>)
                /\ UNCHANGED <<pending, snapPending, followUp>>
           ELSE /\ followUp' = Left(followUp, FollowUpMode)
                /\ pending' = pending \o UserMessages(polled)
                /\ snapPending' = pending'
                /\ pc' = "turn"
                /\ UNCHANGED <<script, stream>>
      /\ UNCHANGED <<turn_index, ctx, snapCtx, steering, recovered, nudged, turnVars,
                     env, history, injects>>

LastEvent == Len(script) = 1

(* emit_turn_end_and_agent_end and its like: the events of the ending, one *)
(* by one; the first that cannot be delivered ends the loop.               *)
Ending ==
  /\ pc = "ending"
  /\ emit(Head(script), IF LastEvent THEN "returned" ELSE "ending")
  /\ script' = Tail(script)
  /\ UNCHANGED <<turn_index, ctx, pending, snaps, queues, recovered, nudged,
                 turnVars, env, history, injects>>

------------------------------------------------------------------------------
(* The environment: the host queues messages, cancels, drops the stream.   *)
(* Queueing and cancelling no longer concern a run that is ending.         *)
Queue ==
  \E m \in Messages \ queued :
    /\ pc \notin {"ending", "returned"}
    /\ queued' = queued \cup {m}
    /\ \/ steering' = Append(steering, m) /\ UNCHANGED followUp
       \/ followUp' = Append(followUp, m) /\ UNCHANGED steering
    /\ UNCHANGED <<pc, turn_index, ctx, pending, snaps, recovered, nudged, turnVars,
                   script, stream, cancelled, closed, history, injects>>
Cancel ==
  /\ ~cancelled /\ pc \notin {"ending", "returned"}
  /\ cancelled' = TRUE
  /\ UNCHANGED <<pc, turn_index, ctx, pending, snaps, queues, recovered, nudged,
                 turnVars, script, stream, closed, queued, history, injects>>
DropStream ==
  /\ ~closed /\ pc # "returned"
  /\ closed' = TRUE
  /\ UNCHANGED <<pc, turn_index, ctx, pending, snaps, queues, recovered, nudged,
                 turnVars, script, stream, cancelled, queued, history, injects>>

(* start_loop cleared the snapshots; without them pause() reads the run's  *)
(* initial messages, which is what snapCtx holds.                          *)
Init ==
  /\ pc = "start" /\ turn_index = 0
  /\ ctx = <<User("prompt")>> /\ pending = <<>>
  /\ snapPending = <<>> /\ snapCtx = ctx
  /\ steering = <<>> /\ followUp = <<>>
  /\ recovered = FALSE /\ nudged = FALSE
  /\ answer = NoAnswer /\ results = <<>> /\ stop = FALSE /\ interrupted = FALSE
  /\ script = <<>>
  /\ run = "idle" /\ turn = "none" /\ msg = "none" /\ last = "none"
  /\ cancelled = FALSE /\ closed = FALSE /\ queued = {}
  /\ given = {"prompt"} /\ stopped = FALSE /\ injects = 0

Turn == InjectPending \/ Transform \/ PreTurnContinue \/ PreTurnStop
        \/ PreTurnInject \/ TurnStart \/ BeforeLlmCall
Model == CallModel \/ (\E a \in Answers : StreamAnswers(a)) \/ StreamFails
         \/ StreamAborts \/ StreamOverflows \/ attempt_overflow_recovery
         \/ overflow_error \/ handle_error_stop \/ handle_stream_abort
Text == CommitText \/ AfterText
Tools == CommitCalls \/ ToolsComplete \/ ToolsStopped \/ ToolsInterrupted
         \/ ToolsAborted \/ ToolsUndelivered \/ CommitCancelled \/ CommitResults
         \/ AfterTools
Outer == PostLoopContinue \/ PostLoopStop \/ PostLoopInject \/ PollFollowUp
Loop == Start \/ Turn \/ Model \/ Text \/ Tools \/ Outer \/ Ending
Env == Queue \/ Cancel \/ DropStream
Done == pc = "returned" /\ UNCHANGED vars

Next == Loop \/ Env \/ Done
Spec == Init /\ [][Next]_vars
FairSpec == Spec /\ WF_vars(Loop)

------------------------------------------------------------------------------
(* Properties.                                                             *)
P == INSTANCE EventProtocol
Senders == {"prompt", "injected", "nudge"}
ResultMessages == [role : {"result"}, turn : Nat, call : 1..MaxCalls]
Message == [role : {"user"}, id : Messages \cup Senders]
           \cup [role : {"assistant"}, turn : Nat, calls : 0..MaxCalls]
           \cup ResultMessages
Context == Seq(Message)
LoopEvents ==
  [type : {"AgentStart", "TurnStart", "MessageStart", "MessageEnd", "TurnEnd", "AgentEnd"},
   reason : {"none"} \cup P!Reasons]
Steps == {"start", "turn", "transform", "preturn", "turnstart", "request", "call",
          "stream", "error", "abort", "recover", "overflow_error", "text",
          "aftertext", "calls", "tools", "cancelled", "commit", "transfer",
          "rejected", "aftertools", "postloop", "followup", "ending", "returned"}

(* Every variable of LoopState keeps its type; what is left to emit is     *)
(* known only while the run is ending, and then it is something.           *)
PlaceType ==
  pc \in Steps /\ turn_index \in Nat /\ injects \in 0..MaxInjects
ScriptType == script \in Seq(LoopEvents) /\ (pc = "ending" => script # <<>>)
ContextType ==
  /\ ctx \in Context /\ pending \in Context
  /\ snapPending \in Context /\ snapCtx \in Context
QueueType ==
  /\ steering \in Seq(Messages) /\ followUp \in Seq(Messages)
  /\ queued \subseteq Messages /\ given \subseteq Messages \cup Senders
FlagType ==
  /\ recovered \in BOOLEAN /\ nudged \in BOOLEAN /\ cancelled \in BOOLEAN
  /\ closed \in BOOLEAN /\ stopped \in BOOLEAN
TurnType ==
  /\ answer \in [kind : {"none", "visible", "reasoning", "calls"},
                  calls : 0..MaxCalls, incomplete : 0..1]
  /\ answer.incomplete <= answer.calls /\ results \in Seq(ResultMessages)
  /\ stop \in BOOLEAN /\ interrupted \in BOOLEAN
TypeInvariant ==
  /\ PlaceType /\ ScriptType /\ ContextType /\ QueueType /\ FlagType /\ TurnType

(* FR-003 and AgentEvent's documentation: the consumer sees AgentStart,    *)
(* then whole turns, each with one message lifecycle (an aborted one may   *)
(* lack its end), none after a failed, cancelled or transferred turn, and  *)
(* AgentEnd once, last, and never inside a turn.                           *)
EventOrder == P!ProtocolSpec

(* Issue #619: whenever the model is asked, each assistant message of the  *)
(* context is followed, before the next one, by a result for each of its   *)
(* tool calls, whatever became of the batch: providers reject the request  *)
(* otherwise.                                                              *)
Answering(k, c) ==
  {j \in DOMAIN ctx :
     /\ j > k /\ ctx[j].role = "result"
     /\ ctx[j].turn = ctx[k].turn /\ ctx[j].call = c
     /\ \A i \in (k+1)..(j-1) : ctx[i].role # "assistant"}
CallsAnswered ==
  pc = "call" =>
    \A k \in {i \in DOMAIN ctx : ctx[i].role = "assistant"} :
      \A c \in 1..ctx[k].calls : Answering(k, c) # {}

(* turn.rs:376-378: one result for each call, so that the provider sees    *)
(* "a well-formed tool_use / tool_result pair".                            *)
AnsweredOnce ==
  pc = "call" =>
    \A k \in {i \in DOMAIN ctx : ctx[i].role = "assistant"} :
      \A c \in 1..ctx[k].calls :
        \A i, j \in Answering(k, c) : i = j

(* A message the host queued is in exactly one place: a queue, the pending *)
(* messages, or it was put into the context; polls, interrupts and         *)
(* injections neither lose nor repeat it.                                  *)
Ids(q) == {q[i] : i \in DOMAIN q}
Once(q) == \A i, j \in DOMAIN q : q[i] = q[j] => i = j
Conserved ==
  LET places == <<Ids(steering), Ids(followUp), Users(pending), given>>
  IN  /\ \A m \in queued : \E p \in DOMAIN places : m \in places[p]
      /\ \A m \in queued : \A p, r \in DOMAIN places :
           m \in places[p] /\ m \in places[r] => p = r
      /\ Once(steering) /\ Once(followUp)
      /\ \A i, j \in DOMAIN ctx :
           ctx[i].role = "user" /\ ctx[i].id \in Messages /\ ctx[i] = ctx[j] => i = j

(* pause_state.rs: whenever the loop can be paused, the two snapshots hold *)
(* every user message that left the queues and was not compacted away.     *)
PauseSees ==
  Users(ctx) \cup Users(pending) \subseteq Users(snapCtx) \cup Users(snapPending)

(* A run that ends on its own, not stopped, failed, cancelled or handed    *)
(* over, leaves no polled or injected message behind: each went to the     *)
(* model.                                                                  *)
NothingLeftPending ==
  (run = "ended" /\ ~stopped /\ last \notin P!FinalReasons) => pending = <<>>

(* Every message has its place, also in the snapshots a pause reads.       *)
MessagesKept == Conserved /\ PauseSees

(* Nothing is left open: no call without a result when the model is asked, *)
(* no message polled and then not sent when the run ends.                  *)
NothingOwed == CallsAnswered /\ NothingLeftPending

(* The loop returns: every continuation of the inner and the outer loop    *)
(* uses up a message, an injection, a nudge or an answer with tool calls.  *)
RunEnds == <>(pc = "returned")
==============================================================================
