------------------------------- MODULE TuiApp -------------------------------
(***************************************************************************)
(* The terminal application over an in-process agent (tui/src/app): one    *)
(* event loop handles keys, agent events and approval requests in any      *)
(* order, while the loop tasks of the agent and the tasks that forward     *)
(* their events run beside it.  A run that was aborted goes on until it    *)
(* sees its cancellation, and its events reach the application later.      *)
(*                                                                         *)
(* A submitted text is a number, the agent's history the set of the texts  *)
(* in it.  Rendering, scrolling, completion popups, model cycling and the  *)
(* wording of notices are left out; neighbouring notices are one.          *)
(***************************************************************************)
EXTENDS Naturals, FiniteSets, Sequences, SequencesExt

CONSTANTS MaxRuns,     \* bound on the runs started
          MaxTexts,    \* bound on the texts submitted
          MaxUiEvents,   \* capacity of the event channel
          MaxVisible,  \* MAX_VISIBLE_TURNS
          Hunks,       \* hunks of a reviewable write
          MaxCommands  \* bound on the session commands given

ASSUME TuiAssumption ==
  /\ MaxRuns \in Nat /\ MaxTexts \in Nat /\ MaxCommands \in Nat
  /\ MaxUiEvents \in Nat \ {0} /\ MaxVisible \in Nat \ {0} /\ Hunks \in Nat \ {0}

VARIABLES appStatus, \* AgentStatus
          agent,     \* the Agent: loop_active, generation, token, state.messages, tools
          runs,      \* per run: its loop task and the task forwarding its events
          inbox,     \* agent_tx: events not handled yet
          asked,     \* approval_rx: requests not handled yet
          pendingApproval,   \* pending_approval: 0 or the run whose tool asks
          review,    \* hunk_review: the run it was opened for and the decisions
          follow,    \* trust_follow_up
          trusted,   \* the tool is in session_trusted_tools
          opMode,    \* operating_mode, pending_plan_approval, plan_session_start
          messages,  \* view.messages
          steered,   \* pending_steered
          queue,     \* the agent's steering queue
          jobs,      \* pending_host_task and pending_compact
          stored,    \* the saved session: {} or {its history}
          next,      \* the next text
          commands,  \* session commands given so far
          live       \* history: texts submitted since the display was emptied

agentVars == <<agent, runs, queue>>
approvalVars == <<asked, pendingApproval, review, follow, trusted>>
viewVars == <<messages, steered, live>>
tuiVars == <<appStatus, agentVars, inbox, approvalVars, opMode, viewVars, jobs, stored,
             next, commands>>

Runs == 1 .. MaxRuns
Texts == 1 .. MaxTexts
NoReview == [run |-> 0, decisions |-> <<>>]
Execute == [plan |-> FALSE, asking |-> FALSE, start |-> 0, saved |-> FALSE]
Message(role, text, plan) == [role |-> role, text |-> text, plan |-> plan]
Notice == Message("notice", 0, FALSE)
User(t) == Message("user", t, FALSE)
Event(kind, context) == [kind |-> kind, context |-> context]
Unused == [phase |-> "unused", cancelled |-> FALSE, context |-> {}, reviewable |-> FALSE]

(* enter_plan_mode *)
Plan(shown) == [plan |-> TRUE, asking |-> FALSE, start |-> Len(shown), saved |-> TRUE]

(* A new application, or one that has just entered plan mode. *)
TuiInit ==
  /\ appStatus = "idle"
  /\ opMode \in {Execute, Plan(<<>>)}
  /\ agent = [active |-> FALSE, current |-> 0, token |-> 0, history |-> {},
              readOnly |-> opMode.plan, smart |-> TRUE]
  /\ runs = [r \in Runs |-> Unused]
  /\ inbox = <<>> /\ asked = <<>>
  /\ pendingApproval = 0 /\ review = NoReview /\ follow = FALSE /\ trusted = FALSE
  /\ messages = IF opMode.plan THEN <<Notice>> ELSE <<>>
  /\ steered = <<>> /\ queue = <<>>
  /\ jobs = {} /\ stored = {} /\ next = 1 /\ commands = 0 /\ live = {}

(* push_system_message *)
Notify(shown) ==
  IF shown # <<>> /\ Last(shown) = Notice THEN shown ELSE Append(shown, Notice)

IsUser(m) == m.role = "user"
Users(shown) == {k \in DOMAIN shown : IsUser(shown[k])}

(* trim_messages_to_recent_turns *)
Trimmed(shown) ==
  IF Cardinality(Users(shown)) <= MaxVisible THEN shown
  ELSE LET first == CHOOSE k \in Users(shown) :
                      Cardinality({j \in Users(shown) : j >= k}) = MaxVisible
       IN SubSeq(shown, first, Len(shown))

Streaming(shown) == shown # <<>> /\ Last(shown).role = "streaming"
Whole(shown) == [shown EXCEPT ![Len(shown)].role = "assistant"]

\* mutant: the texts that wait are dropped, not promoted
promoted_none(shown) == shown

(* The texts that waited for their turn are shown before its answer. *)
Promoted(shown) == shown \o [k \in DOMAIN steered |-> User(steered[k])]

-----------------------------------------------------------------------------
(* The agent's loop tasks, as far as the application sees them: every      *)
(* event goes through the task that forwards the stream to the channel.    *)
InboxRoom == Len(inbox) < MaxUiEvents
Emit(kind, context) == InboxRoom /\ inbox' = Append(inbox, Event(kind, context))
Moves(r, loop) == runs' = [runs EXCEPT ![r] = loop]
Goes(r, phase) == Moves(r, [runs[r] EXCEPT !.phase = phase])
OnlyLoop == UNCHANGED <<appStatus, pendingApproval, review, follow, trusted, opMode, viewVars,
                        jobs, stored, next, commands>>

LoopStarts(r) ==
  /\ runs[r].phase = "start"
  /\ Emit("start", {}) /\ Goes(r, "turn")
  /\ UNCHANGED <<agent, queue, asked>> /\ OnlyLoop

(* A turn takes the steering messages queued so far. *)
TurnStarts(r) ==
  /\ runs[r].phase = "turn" /\ ~runs[r].cancelled
  /\ Emit("message_start", {})
  /\ Moves(r, [runs[r] EXCEPT !.phase = "message", !.context = @ \union ToSet(queue)])
  /\ queue' = <<>>
  /\ UNCHANGED <<agent, asked>> /\ OnlyLoop

MessageEnds(r) ==
  /\ runs[r].phase = "message"
  /\ Emit("message_end", {})
  /\ \E phase \in {"tool", "turn_end"} : Goes(r, phase)
  /\ UNCHANGED <<agent, queue, asked>> /\ OnlyLoop

(* tui_approval_callback: the request waits in the approval channel. *)
ToolAsks(r) ==
  /\ runs[r].phase = "tool" /\ ~runs[r].cancelled
  /\ \E diff \in BOOLEAN :
       Moves(r, [runs[r] EXCEPT !.phase = "approval", !.reviewable = diff])
  /\ asked' = Append(asked, r)
  /\ UNCHANGED <<agent, queue, inbox>> /\ OnlyLoop

TurnEnds(r) ==
  /\ runs[r].phase = "turn_end" \/ (runs[r].phase = "tool" /\ runs[r].cancelled)
  /\ Emit("turn_end", {})
  /\ Goes(r, IF queue # <<>> /\ ~runs[r].cancelled THEN "turn" ELSE "end")
  /\ UNCHANGED <<agent, queue, asked>> /\ OnlyLoop

(* Cancellation ends the wait for an answer and any turn about to start. *)
LoopEnds(r) ==
  /\ \/ runs[r].phase = "end"
     \/ runs[r].cancelled /\ runs[r].phase \in {"turn", "approval"}
  /\ Emit("end", runs[r].context)
  /\ Moves(r, [runs[r] EXCEPT !.phase = "ended", !.context = {}, !.cancelled = FALSE])
  /\ UNCHANGED <<agent, queue, asked>> /\ OnlyLoop

(* The forwarding task drops the stream, whose guard clears loop_active    *)
(* unless a newer run or a reset has taken its generation.                 *)
StreamDropped(r) ==
  /\ runs[r].phase = "ended"
  /\ Goes(r, "done")
  /\ agent' = IF agent.current = r THEN [agent EXCEPT !.active = FALSE] ELSE agent
  /\ UNCHANGED <<queue, inbox, asked>> /\ OnlyLoop

LoopSteps(r) ==
  LoopStarts(r) \/ TurnStarts(r) \/ MessageEnds(r) \/ ToolAsks(r) \/ TurnEnds(r)
    \/ LoopEnds(r) \/ StreamDropped(r)

-----------------------------------------------------------------------------
(* The event loop.  Deferred work runs before the next event is taken. *)
Selecting == jobs = {}

CancelledRun(r) ==
  IF r = 0 \/ runs[r].phase \in {"ended", "done"} THEN runs
  ELSE [runs EXCEPT ![r].cancelled = TRUE]

(* An answer reaches the tool if it still waits for it. *)
Answered(loops, r) ==
  [loops EXCEPT ![r].phase = IF @ = "approval" THEN "turn_end" ELSE @,
                ![r].reviewable = FALSE]

\* mutant: a run that cannot start leaves the status at running
start_error_ignored(t, with, loops, shown) ==
  /\ appStatus' = "running" /\ agent' = with /\ runs' = loops /\ messages' = shown
  /\ UNCHANGED <<queue, steered>>

(* send_to_agent, from a handler that left the agent and the display so.   *)
(* `loops` are the loop tasks after the handler's answer to a tool, if any.*)
SendToAgent(t, with, loops, shown) ==
  \/ /\ appStatus = "running"
     /\ queue' = Append(queue, t) /\ steered' = Append(steered, t)
     /\ messages' = shown /\ agent' = with /\ runs' = loops
     /\ UNCHANGED appStatus
  \/ /\ appStatus # "running" /\ with.active
     /\ appStatus' = "error" /\ messages' = Append(shown, Notice)
     /\ agent' = with /\ runs' = loops
     /\ UNCHANGED <<queue, steered>>
  \/ /\ appStatus # "running" /\ ~with.active
     /\ \E r \in Runs :
          /\ runs[r] = Unused /\ \A q \in Runs : runs[q] = Unused => r <= q
          /\ agent' = [with EXCEPT !.active = TRUE, !.current = r, !.token = r,
                                   !.history = @ \union {t}]
          /\ runs' = [loops EXCEPT ![r] = [Unused EXCEPT !.phase = "start",
                                             !.context = with.history \union {t}]]
     /\ appStatus' = "running" /\ messages' = shown
     /\ UNCHANGED <<queue, steered>>

HandleAgentEvent ==
  /\ Selecting /\ inbox # <<>>
  /\ inbox' = Tail(inbox)
  /\ LET e == Head(inbox) IN
     \/ /\ e.kind = "start" /\ appStatus' = "running"
        /\ UNCHANGED <<agent, messages, steered, stored>>
     \/ /\ e.kind = "message_start"
        /\ messages' = Append(Promoted(messages), Message("streaming", 0, opMode.plan))
        /\ steered' = <<>>
        /\ UNCHANGED <<appStatus, agent, stored>>
     \/ /\ e.kind = "message_end"
        /\ messages' \in IF Streaming(messages) THEN {Whole(messages)}
                         ELSE {messages, Append(messages, Message("assistant", 0, opMode.plan))}
        /\ UNCHANGED <<appStatus, agent, steered, stored>>
     \/ /\ e.kind = "turn_end"
        /\ messages' \in {Trimmed(messages), Trimmed(Notify(messages))}
        /\ UNCHANGED <<appStatus, agent, steered, stored>>
     \/ /\ e.kind = "end"
        /\ agent' = [agent EXCEPT !.active = FALSE, !.history = e.context]
        /\ messages' = Trimmed(Promoted(messages)) /\ steered' = <<>>
        /\ appStatus' = "idle" /\ stored' = {e.context}
  /\ UNCHANGED <<runs, queue, approvalVars, opMode, live, jobs, next, commands>>

(* A request that arrives while another is pending takes its place, and    *)
(* the responder dropped rejects the tool that waits for it.               *)
HandleApprovalRequest ==
  /\ Selecting /\ asked # <<>>
  /\ asked' = Tail(asked)
  /\ LET r == Head(asked) IN
     \/ /\ agent.smart /\ trusted
        /\ runs' = Answered(runs, r)
        /\ UNCHANGED <<pendingApproval, follow>>
     \/ /\ ~(agent.smart /\ trusted)
        /\ runs' = IF pendingApproval = 0 THEN runs ELSE Answered(runs, pendingApproval)
        /\ pendingApproval' = r /\ follow' = FALSE
  /\ UNCHANGED <<appStatus, agent, queue, inbox, review, trusted, opMode, viewVars,
                 jobs, stored, next, commands>>

-----------------------------------------------------------------------------
(* Keys, in the order handle_key_event looks at them. *)
AbortAgent ==
  /\ runs' = CancelledRun(agent.token)
  /\ appStatus' = "aborted"
  /\ messages' = IF Streaming(messages) THEN Whole(messages) ELSE messages

(* Ctrl-C aborts a run, whatever prompt is open.  Between runs it ends the *)
(* program, as Ctrl-Q does: the behaviour ends there.                      *)
CtrlC ==
  /\ Selecting /\ appStatus = "running" /\ AbortAgent
  /\ UNCHANGED <<agent, queue, inbox, approvalVars, opMode, steered, live, jobs,
                 stored, next, commands>>

(* A key that finds the follow-up open answers it or, any other, closes it *)
(* and is looked at again; the clock closes it too.                        *)
TrustKey(yes) ==
  /\ Selecting /\ follow
  /\ follow' = FALSE /\ trusted' = (trusted \/ yes)
  /\ UNCHANGED <<appStatus, agentVars, inbox, asked, pendingApproval, review, opMode, viewVars,
                 jobs, stored, next, commands>>

PlanMessages ==
  {k \in DOMAIN messages :
     k > opMode.start /\ messages[k].plan /\ messages[k].role = "assistant"}

(* exit_plan_mode through restore_plan_mode_state *)
FullTools(a) == IF opMode.saved THEN [a EXCEPT !.readOnly = FALSE] ELSE a

ApprovePlan ==
  /\ Selecting /\ ~follow /\ opMode.asking
  /\ opMode' = Execute
  /\ \/ /\ PlanMessages = {}
        /\ agent' = FullTools(agent) /\ messages' = Notify(messages)
        /\ UNCHANGED <<appStatus, runs, queue, steered, next, live>>
     \/ /\ PlanMessages # {} /\ next <= MaxTexts /\ next' = next + 1
        /\ SendToAgent(next, FullTools(agent), runs,
                       Trimmed(Append(Notify(messages), User(next))))
        /\ live' = live \union {next}
  /\ UNCHANGED <<inbox, approvalVars, jobs, stored, commands>>

RejectPlan ==
  /\ Selecting /\ ~follow /\ opMode.asking
  /\ opMode' = [opMode EXCEPT !.asking = FALSE]
  /\ UNCHANGED <<appStatus, agentVars, inbox, approvalVars, viewVars, jobs, stored,
                 next, commands>>

(* finish_hunk_review: all approved, all rejected, or the approved hunks   *)
(* only; a rejection is reported to the agent as a text of its own.        *)
FinishReview(decisions) ==
  /\ review' = NoReview /\ pendingApproval' = 0
  /\ \/ /\ pendingApproval = 0 \/ FALSE \notin ToSet(decisions)
        /\ runs' = IF pendingApproval = 0 THEN runs ELSE Answered(runs, pendingApproval)
        /\ UNCHANGED <<appStatus, agent, queue, messages, steered, next>>
     \/ /\ pendingApproval # 0 /\ FALSE \in ToSet(decisions)
        /\ next <= MaxTexts /\ next' = next + 1
        /\ SendToAgent(next, agent, Answered(runs, pendingApproval), Notify(messages))

(* The review takes every key while it is open. *)
ReviewKey ==
  /\ Selecting /\ ~follow /\ ~opMode.asking /\ review # NoReview
  /\ \/ \E yes \in BOOLEAN :
          LET decisions == Append(review.decisions, yes) IN
          \/ /\ Len(decisions) < Hunks
             /\ review' = [review EXCEPT !.decisions = decisions]
             /\ UNCHANGED <<appStatus, agentVars, pendingApproval, messages, steered, next>>
          \/ Len(decisions) = Hunks /\ FinishReview(decisions)
     \/ FinishReview(review.decisions
                       \o [k \in 1 .. Hunks - Len(review.decisions) |-> TRUE])
     \/ /\ review' = NoReview
        /\ UNCHANGED <<appStatus, agentVars, pendingApproval, messages, steered, next>>
  /\ UNCHANGED <<inbox, asked, follow, trusted, opMode, live, jobs, stored, commands>>

(* So does the approval prompt. *)
ApprovalKey ==
  /\ Selecting /\ ~follow /\ ~opMode.asking /\ review = NoReview /\ pendingApproval # 0
  /\ \/ /\ runs[pendingApproval].reviewable
        /\ review' = [run |-> pendingApproval, decisions |-> <<>>]
        /\ UNCHANGED <<runs, pendingApproval, follow, trusted>>
     \/ /\ runs' = Answered(runs, pendingApproval) /\ pendingApproval' = 0
        /\ \/ follow' = agent.smart /\ UNCHANGED trusted
           \/ trusted' = TRUE /\ UNCHANGED follow
           \/ UNCHANGED <<follow, trusted>>
        /\ UNCHANGED review
  /\ UNCHANGED <<appStatus, agent, queue, inbox, asked, opMode, viewVars, jobs, stored,
                 next, commands>>

-----------------------------------------------------------------------------
(* Keys that reach the input: Esc, Shift-Tab and Enter. *)
AtInput == Selecting /\ ~follow /\ ~opMode.asking /\ review = NoReview /\ pendingApproval = 0

Esc ==
  /\ AtInput /\ appStatus = "running" /\ AbortAgent
  /\ UNCHANGED <<agent, queue, inbox, approvalVars, opMode, steered, live, jobs,
                 stored, next, commands>>

ToggleOperatingMode ==
  /\ AtInput /\ appStatus # "running" /\ commands < MaxCommands
  /\ commands' = commands + 1
  /\ \/ /\ ~opMode.plan
        /\ opMode' = Plan(messages)
        /\ agent' = [agent EXCEPT !.readOnly = TRUE] /\ messages' = Notify(messages)
     \/ /\ opMode.plan /\ opMode' = [opMode EXCEPT !.asking = TRUE]
        /\ UNCHANGED <<agent, messages>>
  /\ UNCHANGED <<appStatus, runs, queue, inbox, approvalVars, steered, live, jobs,
                 stored, next>>

SubmitUserText ==
  /\ AtInput /\ next <= MaxTexts /\ next' = next + 1
  /\ live' = live \union {next}
  /\ SendToAgent(next, agent, runs, IF appStatus = "running" THEN messages
                                    ELSE Trimmed(Append(messages, User(next))))
  /\ UNCHANGED <<inbox, approvalVars, opMode, jobs, stored, commands>>

(* Commands that change the session are refused while a run is on. *)
Command ==
  /\ AtInput /\ appStatus # "running"
  /\ commands < MaxCommands /\ commands' = commands + 1

Clear ==
  /\ Command /\ messages' = <<>> /\ live' = ToSet(steered)
  /\ UNCHANGED <<appStatus, agentVars, inbox, approvalVars, opMode, steered, jobs,
                 stored, next>>

(* reset_session_state and Agent::reset *)
Reset ==
  /\ Command
  /\ opMode' = Execute
  /\ agent' = [FullTools(agent) EXCEPT !.active = FALSE, !.current = 0, !.token = 0,
                                       !.history = {}]
  /\ runs' = CancelledRun(agent.token) /\ queue' = <<>>
  /\ messages' = <<Notice>> /\ live' = ToSet(steered)
  /\ trusted' = FALSE /\ follow' = FALSE
  /\ UNCHANGED <<appStatus, inbox, asked, pendingApproval, review, steered, jobs, stored, next>>

LoadSession ==
  /\ Command
  /\ \/ /\ stored = {} /\ messages' = Notify(messages) /\ UNCHANGED <<agent, live>>
     \/ \E saved \in stored :
          /\ messages' = Append(Trimmed([k \in 1 .. Cardinality(saved) |->
                                           User(SetToSortSeq(saved, <)[k])]), Notice)
          /\ agent' = [agent EXCEPT !.history = saved]
          /\ live' = saved \union ToSet(steered)
  /\ UNCHANGED <<appStatus, runs, queue, inbox, approvalVars, opMode, steered, jobs,
                 stored, next>>

SaveSession ==
  /\ Command /\ stored' = {agent.history} /\ messages' = Notify(messages)
  /\ UNCHANGED <<appStatus, agentVars, inbox, approvalVars, opMode, steered, live,
                 jobs, next>>

Untrust ==
  /\ AtInput /\ commands < MaxCommands /\ commands' = commands + 1
  /\ trusted' = FALSE /\ messages' = Notify(messages)
  /\ UNCHANGED <<appStatus, agentVars, inbox, asked, pendingApproval, review, follow, opMode, steered,
                 live, jobs, stored, next>>

SetApprovalMode ==
  /\ AtInput /\ commands < MaxCommands /\ commands' = commands + 1
  /\ agent' = [agent EXCEPT !.smart = ~@] /\ messages' = Notify(messages)
  /\ UNCHANGED <<appStatus, runs, queue, inbox, approvalVars, opMode, steered, live,
                 jobs, stored, next>>

(* A host command may be given at any time, /compact only between runs. *)
Defer(job) ==
  /\ AtInput /\ commands < MaxCommands /\ commands' = commands + 1
  /\ job = "compact" => appStatus # "running"
  /\ jobs' = jobs \union {job}
  /\ UNCHANGED <<appStatus, agentVars, inbox, approvalVars, opMode, viewVars, stored,
                 next>>

(* flush_host_task with ReplaceAgent: the new agent has tools, queues and  *)
(* a generation of its own.                                                *)
FlushHostTask ==
  /\ "swap" \in jobs /\ jobs' = jobs \ {"swap"}
  /\ messages' = Notify(messages)
  /\ \/ appStatus = "running" /\ UNCHANGED <<agent, queue>>
     \/ /\ appStatus # "running" /\ queue' = <<>>
        /\ agent' = [agent EXCEPT !.active = FALSE, !.current = 0, !.token = 0,
                                  !.readOnly = FALSE, !.smart = TRUE]
  /\ UNCHANGED <<appStatus, runs, inbox, approvalVars, opMode, steered, live, stored,
                 next, commands>>

(* compact_context may drop older messages; it refuses an active agent. *)
FlushCompact ==
  /\ jobs = {"compact"} /\ jobs' = {}
  /\ messages' = Notify(messages)
  /\ \/ UNCHANGED agent
     \/ /\ ~agent.active
        /\ \E kept \in SUBSET agent.history : agent' = [agent EXCEPT !.history = kept]
  /\ UNCHANGED <<appStatus, runs, queue, inbox, approvalVars, opMode, steered, live,
                 stored, next, commands>>

Keys ==
  \/ CtrlC \/ ApprovePlan \/ RejectPlan \/ ReviewKey \/ ApprovalKey
  \/ \E yes \in BOOLEAN : TrustKey(yes)
  \/ Esc \/ ToggleOperatingMode \/ SubmitUserText
  \/ Clear \/ Reset \/ LoadSession \/ SaveSession \/ Untrust \/ SetApprovalMode
  \/ \E job \in {"swap", "compact"} : Defer(job)

Flushes == FlushHostTask \/ FlushCompact

TuiNext ==
  \/ \E r \in Runs : LoopSteps(r)
  \/ HandleAgentEvent \/ HandleApprovalRequest
  \/ Keys \/ Flushes

(* The tasks and the event loop run; no key is ever pressed for sure. *)
TuiFairness ==
  /\ \A r \in Runs : WF_tuiVars(LoopSteps(r))
  /\ WF_tuiVars(HandleAgentEvent) /\ WF_tuiVars(HandleApprovalRequest)
  /\ WF_tuiVars(Flushes)

TuiSpec == TuiInit /\ [][TuiNext]_tuiVars /\ TuiFairness

-----------------------------------------------------------------------------
Shown(t) == Cardinality({k \in DOMAIN messages : messages[k] = User(t)})
Waiting(t) == Cardinality({k \in DOMAIN steered : steered[k] = t})

(* A text is shown once: at once, or after it waited in the overlay for    *)
(* the turn that takes it; it is never in both, and leaves the display     *)
(* only to newer ones (submit_user_text, send_to_agent, MessageStart and   *)
(* AgentEnd in handle_agent_event).                                        *)
TextsShownOnce ==
  /\ \A t \in Texts : Shown(t) + Waiting(t) <= 1
  /\ \A t \in live :
       Shown(t) + Waiting(t) = 0 => Cardinality(Users(messages)) >= MaxVisible

(* The status bar does not stay at "running" unless the user is asked: a   *)
(* run ends or is aborted and its last event is handled, or its request is *)
(* on the screen (AgentEnd and handle_approval_request).                   *)
TurnSettles == appStatus = "running" ~> (appStatus # "running" \/ pendingApproval # 0)
=============================================================================
