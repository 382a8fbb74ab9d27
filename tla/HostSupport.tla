---------------------------- MODULE HostSupport ----------------------------
(***************************************************************************)
(* Four helpers of a host program around the agent:                        *)
(*   - the watcher that reloads script tools from a directory              *)
(*     (hot_reload.rs);                                                    *)
(*   - checkpoints of an idle agent and their restore                      *)
(*     (agent/checkpointing.rs, checkpoint.rs, types/message_codec.rs);    *)
(*   - the carrier that puts an RPC client behind the terminal interface    *)
(*     (tui-remote/src/lib.rs);                                            *)
(*   - the glob match of the tool filter (tool_filter.rs).                 *)
(***************************************************************************)
EXTENDS Integers, Sequences, FiniteSets, SequencesExt

CONSTANTS
    ToolFiles,       \* definition files in the watched directory
    ToolNames,       \* names they define, positive numbers
    MaxFileEvents,   \* changes of the directory (bound)
    Models,          \* models of the agent; StreamModels have a stream function
    StreamModels,
    MaxHistory,      \* messages of the agent (bound)
    MaxBridged,      \* messages to the carrier (bound)
    GlobTexts,       \* patterns and names tried
    GlobPatterns

ASSUME SupportAssumption ==
    /\ ToolNames \subseteq Nat \ {0} /\ MaxFileEvents \in Nat
    /\ StreamModels \subseteq Models /\ MaxHistory \in Nat /\ MaxBridged \in Nat

VARIABLES
    helper,      \* which of the four is looked at
    dir,         \* content of each file
    notices,     \* notify's events, oldest first
    changes,     \* how often the directory changed
    watch,       \* the watcher's task
    agent,       \* the agent whose checkpoint is taken
    point,       \* the checkpoint in the store
    before,      \* the agent before the last restore
    carrier,      \* the carrier's task and its channels
    glob         \* a glob match under way

supportVars == <<helper, dir, notices, changes, watch, agent, point, before,
                 carrier, glob>>

----------------------------------------------------------------------------
(* Tool watcher.  A file defines a name, is unreadable (-1), or is not there: *)
(* never made or deleted (0), or moved away (-2).                           *)

NoDefinition == 0
Moved == -2
Contents == ToolNames \cup {-1}

NewWatch == [pc |-> "scan", tools |-> [f \in ToolFiles |-> NoDefinition], paths |-> <<>>,
             kind |-> "set", stale |-> {}, offered |-> {}]

Notice(paths, kind) == <<[paths |-> paths, kind |-> kind]>>
There(f) == dir[f] \notin {NoDefinition, Moved}

\* A deleted file gives a notice of removal; one that is moved gives notices of a
\* modified name, for the old path, the new one if it is in the directory, and both.
ChangeFile ==
    /\ changes < MaxFileEvents
    /\ changes' = changes + 1
    /\ \E f \in ToolFiles :
        \/ /\ \E c \in Contents : c # dir[f] /\ dir' = [dir EXCEPT ![f] = c]
           /\ notices' = notices \o Notice(<<f>>, "set")
        \/ /\ There(f) /\ dir' = [dir EXCEPT ![f] = NoDefinition]
           /\ notices' = notices \o Notice(<<f>>, "remove")
        \/ /\ There(f) /\ dir' = [dir EXCEPT ![f] = Moved]
           /\ notices' = notices \o Notice(<<f>>, "set")
        \/ \E g \in ToolFiles \ {f} :
             /\ There(f) /\ dir' = [dir EXCEPT ![f] = Moved, ![g] = dir[f]]
             /\ notices' = notices \o Notice(<<f>>, "set") \o Notice(<<g>>, "set") \o Notice(<<f, g>>, "set")
    /\ UNCHANGED watch

\* build_tool_list: what the host is sent.
build_tool_list(tools) == {tools[f] : f \in ToolFiles} \ {NoDefinition}

\* Loading without a look at the other files.
Loaded_beside(tools, f, name) == [tools EXCEPT ![f] = name]

\* A definition takes its name from every other file: last write wins.
Loaded(tools, f, name) ==
    [g \in ToolFiles |-> IF g = f THEN name
                         ELSE IF tools[g] = name THEN NoDefinition ELSE tools[g]]

Displaced(tools, f, name) == {g \in ToolFiles \ {f} : tools[g] = name}

\* The initial scan, in the directory's order; of equal names the last stays.
Scan ==
    /\ watch.pc = "scan"
    /\ \E order \in SetToSeqs(ToolFiles) :
         \E tools \in {FoldSeq(LAMBDA f, t : IF dir[f] \in ToolNames
                                             THEN Loaded(t, f, dir[f]) ELSE t,
                               watch.tools, order)} :
            watch' = [watch EXCEPT !.pc = "wait", !.tools = tools,
                         !.offered = build_tool_list(tools),
                         !.stale = {f \in ToolFiles : dir[f] \in ToolNames
                                                      /\ tools[f] # dir[f]}]
    /\ UNCHANGED <<dir, notices, changes>>

\* One event is taken; after the debounce every other one is thrown away.
TakeEvent ==
    /\ watch.pc = "wait"
    /\ notices # <<>>
    /\ watch' = [watch EXCEPT !.pc = "debounce", !.paths = Head(notices).paths,
                              !.kind = Head(notices).kind]
    /\ notices' = Tail(notices)
    /\ UNCHANGED <<dir, changes>>

Drain ==
    /\ watch.pc = "debounce"
    /\ watch' = [watch EXCEPT !.pc = "apply",
                    !.stale = @ \cup UNION {ToSet(n.paths) : n \in ToSet(notices)}]
    /\ notices' = <<>>
    /\ UNCHANGED <<dir, changes>>

\* One path of the taken event, applied to the file as it is now; a file that cannot
\* be read, or is not there any more, leaves the tool that was there.
AppliedTo(w, f) ==
    IF w.kind = "remove" THEN [w EXCEPT !.tools[f] = NoDefinition]
    ELSE IF dir[f] \in ToolNames
    THEN [w EXCEPT !.tools = Loaded(w.tools, f, dir[f]),
                   !.stale = (@ \ {f}) \cup Displaced(w.tools, f, dir[f])]
    ELSE w
Apply ==
    /\ watch.pc = "apply"
    /\ \E w \in {FoldLeft(AppliedTo, watch, watch.paths)} :
         watch' = [w EXCEPT !.pc = "wait",
                     !.offered = IF w.tools = watch.tools THEN @ ELSE build_tool_list(w.tools)]
    /\ UNCHANGED <<dir, notices, changes>>

StopWatching ==
    /\ watch.pc = "wait"
    /\ watch' = [watch EXCEPT !.pc = "stopped"]
    /\ UNCHANGED <<dir, notices, changes>>

Watching ==
    /\ helper = "watcher"
    /\ ChangeFile \/ Scan \/ TakeEvent \/ Drain \/ Apply \/ StopWatching
    /\ UNCHANGED <<helper, agent, point, before, carrier, glob>>

----------------------------------------------------------------------------
(* Checkpoints.  A message is of the model (with the tool it calls, or none), a
   custom one that can be saved, or a custom one that cannot. *)

Messages == {"text", "calls_known", "calls_gone", "custom", "opaque"}

\* serialize_messages: two lists and the order of their slots; what cannot be
\* serialized is left out.
Kinds(messages) == SelectSeq(messages, LAMBDA m : m # "opaque")
serialize_messages(messages) ==
    [llm |-> SelectSeq(messages, LAMBDA m : m \notin {"custom", "opaque"}),
     custom |-> SelectSeq(messages, LAMBDA m : m = "custom"),
     order |-> [i \in DOMAIN Kinds(messages) |->
                  [custom |-> Kinds(messages)[i] = "custom",
                   index |-> Cardinality({j \in 1..i : (Kinds(messages)[j] = "custom")
                                                       = (Kinds(messages)[i] = "custom")})]]]

\* restore_messages: slot by slot, custom ones only with a registry.
restore_messages(saved, registry) ==
    LET slots == SelectSeq(saved.order, LAMBDA s : ~s.custom \/ registry)
    IN  [i \in DOMAIN slots |-> IF slots[i].custom THEN saved.custom[slots[i].index]
                                ELSE saved.llm[slots[i].index]]

NewAgent == [messages |-> <<>>, tools |-> {"known"}, model |-> CHOOSE m \in StreamModels : TRUE,
             stream |-> CHOOSE m \in StreamModels : TRUE, state |-> 0, running |-> FALSE]
NoPoint == [saved |-> serialize_messages(<<>>), model |-> "none", state |-> 0,
            corrupt |-> FALSE]
NoRestore == [agent |-> NewAgent, point |-> NoPoint, result |-> "none",
              registry |-> FALSE]

AgentWorks ==
    /\ \/ /\ Len(agent.messages) < MaxHistory
          /\ \E m \in Messages : agent' = [agent EXCEPT !.messages = Append(@, m)]
       \/ agent' = [agent EXCEPT !.running = ~@]
       \/ \E m \in StreamModels : agent' = [agent EXCEPT !.model = m, !.stream = m]
       \/ agent' = [agent EXCEPT !.state = 1 - @]
    /\ before' = NoRestore
    /\ UNCHANGED point

\* Agent::agent_save_checkpoint; a snapshot may be damaged in the store later, and may
\* have been taken by an agent with models this one has no stream for.
agent_save_checkpoint ==
    /\ \E corrupt \in BOOLEAN, model \in {agent.model} \cup (Models \ StreamModels) :
          point' = [saved |-> serialize_messages(agent.messages), model |-> model,
                    state |-> agent.state, corrupt |-> corrupt /\ agent.state # 0]
    /\ before' = NoRestore
    /\ UNCHANGED agent

\* inject_noop_tools_for_missing_references.
Injected(tools, messages) ==
    IF "calls_gone" \in ToSet(messages) THEN tools \cup {"gone"} ELSE tools

\* restore_from_checkpoint: refused while running or with an unreadable state,
\* before anything has changed.
restore_from_checkpoint ==
    /\ point.model # "none"
    /\ \E registry \in BOOLEAN :
        \/ /\ agent.running \/ point.corrupt
           /\ before' = [agent |-> agent, point |-> point, result |-> "refused",
                         registry |-> registry]
           /\ UNCHANGED agent
        \/ /\ ~agent.running /\ ~point.corrupt
           /\ before' = [agent |-> agent, point |-> point, result |-> "restored",
                         registry |-> registry]
           /\ \E messages \in {restore_messages(point.saved, registry)} :
                agent' = [agent EXCEPT !.messages = messages,
                             !.tools = Injected(agent.tools, messages),
                             !.model = point.model,
                             !.stream = IF point.model \in StreamModels
                                        THEN point.model ELSE @,
                             !.state = point.state]
    /\ UNCHANGED point

Checkpointing ==
    /\ helper = "checkpoint"
    /\ AgentWorks \/ agent_save_checkpoint \/ restore_from_checkpoint
    /\ UNCHANGED <<helper, dir, notices, changes, watch, carrier, glob>>

----------------------------------------------------------------------------
(* Remote carrier *)

NewBridge == [pc |-> "idle", queue |-> <<>>, sent |-> 0, ends |-> <<>>,
              answers |-> <<>>, dropped |-> <<>>, current |-> 0, shown |-> 0, aborts |-> 0]

\* TuiTransport::send and control: numbered; an abort goes past the queue.
SubmitMessage ==
    /\ carrier.sent < MaxBridged
    /\ \E kind \in {"prompt", "control", "abort"} :
        carrier' =
          IF kind = "abort" THEN [carrier EXCEPT !.sent = @ + 1, !.aborts = @ + 1]
          ELSE IF carrier.pc = "lost"
          THEN [carrier EXCEPT !.sent = @ + 1,
                   !.answers = Append(@, [of |-> carrier.sent + 1, what |-> "closed"])]
          ELSE [carrier EXCEPT !.sent = @ + 1,
                   !.queue = Append(@, [id |-> carrier.sent + 1, kind |-> kind])]

\* The task started by from_client takes the next message.
TakeMessage ==
    /\ carrier.pc = "idle" /\ carrier.queue # <<>>
    /\ carrier' = [carrier EXCEPT !.queue = Tail(@), !.current = Head(carrier.queue).id,
                     !.shown = 0, !.pc = Head(carrier.queue).kind]

\* Events of the turn reach the interface; the agent's own end is the last one.
ForwardEnd ==
    /\ carrier.pc = "prompt" /\ carrier.shown = 0
    /\ carrier' = [carrier EXCEPT !.shown = 1, !.ends = Append(@, carrier.current)]

\* What is left in the queue when the task returns: controls see the channel
\* closed, of a prompt nobody hears again but for the end of the event stream.
Ids(queue) == [i \in DOMAIN queue |-> queue[i].id]
Closed(b) ==
    LET left(kind) == Ids(SelectSeq(b.queue, LAMBDA q : q.kind = kind))
    IN  [b EXCEPT !.pc = "lost", !.queue = <<>>, !.dropped = left("prompt"),
           !.answers = @ \o [i \in DOMAIN left("control") |-> [of |-> left("control")[i], what |-> "closed"]]]

\* The end of a prompt: a failed turn is ended for the interface, a lost
\* connection ends the task.
from_client ==
    /\ carrier.pc = "prompt"
    /\ \/ /\ carrier.shown = 1
          /\ carrier' = [carrier EXCEPT !.pc = "idle"]
       \/ \E lost \in BOOLEAN :
            \E b \in {[carrier EXCEPT !.pc = "idle", !.ends = Append(@, carrier.current)]} :
               carrier' = IF lost THEN Closed(b) ELSE b

\* handle_control with map_rpc_error; the answer goes to its own caller.
handle_control ==
    /\ carrier.pc = "control"
    /\ \E what \in {"response", "unsupported", "io", "closed"} :
         \E b \in {[carrier EXCEPT !.pc = "idle",
                       !.answers = Append(@, [of |-> carrier.current, what |-> what])]} :
            carrier' = IF what = "closed" THEN Closed(b) ELSE b

Bridging ==
    /\ helper = "bridge"
    /\ SubmitMessage \/ TakeMessage \/ ForwardEnd \/ from_client \/ handle_control
    /\ UNCHANGED <<helper, dir, notices, changes, watch, agent, point, before, glob>>

\* encode_snapshot_messages and decode_snapshot_messages: custom messages are
\* marked on the way out and skipped on the way in.
encode_snapshot_messages(messages) ==
    LET kept == Kinds(messages)
    IN  [i \in DOMAIN kept |-> [custom |-> kept[i] = "custom", message |-> kept[i]]]
decode_snapshot_messages(values) ==
    LET kept == SelectSeq(values, LAMBDA v : ~v.custom)
    IN  [i \in DOMAIN kept |-> kept[i].message]

----------------------------------------------------------------------------
(* Glob match *)

NewGlob(p, t) == [pattern |-> p, text |-> t, pi |-> 1, ti |-> 1, star |-> 0,
                  after |-> 1, result |-> "none"]

\* glob_matches, one iteration: a character, a star, back to the last star, or
\* no match; at the end of the text only stars may be left.
glob_matches ==
    /\ helper = "glob"
    /\ glob.result = "none"
    /\ \E c \in {IF glob.pi <= Len(glob.pattern) THEN glob.pattern[glob.pi] ELSE "end"} :
        \/ /\ glob.ti <= Len(glob.text)
           /\ c = "?" \/ c = glob.text[glob.ti]
           /\ glob' = [glob EXCEPT !.pi = @ + 1, !.ti = @ + 1]
        \/ /\ glob.ti <= Len(glob.text)
           /\ c = "*" /\ c # glob.text[glob.ti]
           /\ glob' = [glob EXCEPT !.star = glob.pi, !.pi = @ + 1, !.after = glob.ti]
        \/ /\ glob.ti <= Len(glob.text)
           /\ c \notin {"?", "*", glob.text[glob.ti]}
           /\ glob' = IF glob.star # 0
                      THEN [glob EXCEPT !.pi = glob.star + 1, !.after = @ + 1,
                                        !.ti = glob.after + 1]
                      ELSE [glob EXCEPT !.result = "no"]
        \/ /\ glob.ti > Len(glob.text)
           /\ glob' = IF c = "*" THEN [glob EXCEPT !.pi = @ + 1]
                      ELSE [glob EXCEPT !.result = IF c = "end" THEN "yes" ELSE "no"]
    /\ UNCHANGED <<helper, dir, notices, changes, watch, agent, point, before, carrier>>

----------------------------------------------------------------------------
SupportInit ==
    /\ helper \in {"watcher", "checkpoint", "bridge", "glob"}
    /\ dir = [f \in ToolFiles |-> NoDefinition]
    /\ notices = <<>>
    /\ changes = 0
    /\ watch = NewWatch
    /\ agent = NewAgent
    /\ point = NoPoint
    /\ before = NoRestore
    /\ carrier = NewBridge
    /\ \E p \in GlobPatterns, t \in GlobTexts :
         /\ helper # "glob" => p = <<>> /\ t = <<>>
         /\ glob = NewGlob(p, t)

SupportNext == Watching \/ Checkpointing \/ Bridging \/ glob_matches

SupportSpec == SupportInit /\ [][SupportNext]_supportVars

----------------------------------------------------------------------------
(* Properties *)

\* No tool name is offered for two files, the host's list is the watcher's, and
\* once the events are worked off every file whose own events were all looked at
\* is loaded as it is on disk (hot_reload.rs ToolWatcher::start).  Nothing is said
\* of a file that cannot be read or was moved away: its last tool stays.
WatcherExact ==
    /\ \A f, g \in ToolFiles : f # g /\ watch.tools[f] # NoDefinition =>
          watch.tools[f] # watch.tools[g]
    /\ watch.pc # "scan" => watch.offered = build_tool_list(watch.tools)
    /\ watch.pc = "wait" /\ notices = <<>> =>
         \A f \in ToolFiles \ watch.stale :
            dir[f] \notin {-1, Moved} => watch.tools[f] = dir[f]

\* A restore leaves the agent as the checkpoint describes it: its messages in
\* their order except the custom ones nobody can read back, a tool for every call
\* in them, the model and the session state, and a stream of that model if there
\* is one; a refused restore leaves the agent as it was.
RestoreExact ==
    /\ before.result = "refused" => agent = before.agent
    /\ before.result = "restored" =>
         /\ agent.messages = restore_messages(before.point.saved, before.registry)
         /\ "calls_gone" \in ToSet(agent.messages) => "gone" \in agent.tools
         /\ agent.model = before.point.model /\ agent.state = before.point.state
         /\ agent.model \in StreamModels => agent.stream = agent.model
    /\ \A registry \in BOOLEAN :
         restore_messages(serialize_messages(agent.messages), registry)
           = SelectSeq(agent.messages, LAMBDA m : m # "opaque" /\ (m = "custom" => registry))
    /\ decode_snapshot_messages(encode_snapshot_messages(agent.messages))
         = SelectSeq(agent.messages, LAMBDA m : m \notin {"custom", "opaque"})

\* Whatever the connection does, every prompt the carrier took is ended for the
\* interface before it takes the next message (twice when its turn failed after the
\* agent's own end), and every control is answered once, both in the order they were
\* sent.  A message waits, is at work, was ended or answered, or is a prompt that
\* still waited when the connection was lost.
InOrder(ids) == \A i, j \in DOMAIN ids : i < j => ids[i] <= ids[j]
BridgeAnswers ==
    LET answered == [i \in DOMAIN carrier.answers |-> carrier.answers[i].of]
        atWork == IF carrier.pc \in {"prompt", "control"} THEN {carrier.current} ELSE {}
        known == <<ToSet(answered), ToSet(carrier.ends) \cup atWork, ToSet(Ids(carrier.queue)), ToSet(carrier.dropped)>>
    IN  /\ InOrder(answered) /\ InOrder(carrier.ends) /\ IsInjective(answered)
        /\ \A i, j \in DOMAIN known : i # j => known[i] \cap known[j] = {}
        /\ Cardinality(UNION ToSet(known)) + carrier.aborts = carrier.sent
        /\ carrier.dropped # <<>> => carrier.pc = "lost"
        /\ carrier.pc = "lost" => carrier.queue = <<>>

\* What a pattern means: a star stands for any run of characters.
Means(p, t) ==
    LET m[i \in 0..Len(p), j \in 0..Len(t)] ==
          IF i = 0 THEN j = 0
          ELSE IF p[i] = "*" THEN m[i - 1, j] \/ (j > 0 /\ m[i, j - 1])
          ELSE j > 0 /\ (p[i] = "?" \/ p[i] = t[j]) /\ m[i - 1, j - 1]
    IN  m[Len(p), Len(t)]

\* The loop with its one backtracking point decides exactly that
\* (tool_filter.rs glob_matches).
GlobExact ==
    glob.result # "none" => (glob.result = "yes") = Means(glob.pattern, glob.text)

\* The four together: what a host sees of files, checkpoints, the remote agent
\* and the filter is what is there.
SupportExact == WatcherExact /\ RestoreExact /\ BridgeAnswers /\ GlobExact

=============================================================================
