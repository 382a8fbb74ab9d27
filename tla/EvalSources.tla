---------------------------- MODULE EvalSources ----------------------------
(***************************************************************************)
(* Where the evaluation framework gets its material from:                  *)
(*   - simulations: an actor played by a judge talks to an agent turn by   *)
(*     turn, a second judge answers the tool calls from a registry of      *)
(*     state buckets that several simulations share                        *)
(*     (simulation/orchestrator.rs, actor.rs, tool.rs);                    *)
(*   - generation: topics are planned, the cases spread over them, each    *)
(*     drafted by a judge, retried and validated (generation/topic.rs,     *)
(*     experiment.rs);                                                     *)
(*   - attachments of a case: declared, validated and materialized from a  *)
(*     file, inline bytes or a URL with its redirects (types.rs).          *)
(* Prompts, texts and schemas are left out; a judge answers anything.      *)
(***************************************************************************)
EXTENDS Integers, Sequences, FiniteSets, SequencesExt

CONSTANTS
    Simulations,     \* simulations that share one tool simulator
    SimLimits,       \* choices of max_turns for the simulations
    StreamTurns,     \* most turns of an agent within one prompt (bound)
    HistoryCap,      \* StateRegistry::history_cap
    CallIds,         \* ids of tool calls, the keys of the buckets
    MaxInvokes,      \* most answers a bucket is asked for (bound)
    Desired,         \* desired_count, num_topics of a request, retry_cap
    Topics,
    RetryCap,
    CaseTools,       \* tools a draft may name; the agent has AgentTools
    AgentTools,
    UrlNames,        \* names of remote URLs
    AllowedUrls,     \* what the filter lets through
    MaxRedirects     \* redirects followed (10 in the code)

ASSUME SourcesAssumption ==
    /\ SimLimits \subseteq [Simulations -> Nat] /\ StreamTurns \in Nat /\ HistoryCap \in Nat \ {0}
    /\ MaxInvokes \in Nat /\ Desired \in Nat \ {0} /\ Topics \in Nat \ {0}
    /\ RetryCap \in Nat \ {0} /\ MaxRedirects \in Nat \ {0}
    /\ AgentTools \subseteq CaseTools /\ AllowedUrls \subseteq UrlNames

VARIABLES
    source,      \* which of the three is looked at
    sims,        \* the simulations
    buckets,     \* StateRegistry: call id -> history of answers
    answered,    \* every answer recorded so far, per bucket, oldest first
    plan,        \* the generation under way
    fetch        \* the attachment being materialized

sourceVars == <<source, sims, buckets, answered, plan, fetch>>

----------------------------------------------------------------------------
(* Simulations *)

NewSim(max) ==
    [pc |-> "head", max |-> max, turns |-> 0, recorded |-> <<>>,
     from |-> 0, pending |-> <<>>, snapshot |-> <<>>, cancelled |-> FALSE,
     late |-> 0, signalled |-> FALSE, outcome |-> "none"]

SimEnds(s, o) == sims' = [sims EXCEPT ![s].pc = "over", ![s].outcome = o]

\* run_multiturn_simulation: head of the loop, up to the start of the stream.
\* The goal flag tested there is never set: an actor turn that sets it has ended
\* the loop in NextTurn.
SimTurn(s) ==
    /\ sims[s].pc = "head"
    /\ \/ /\ sims[s].turns >= sims[s].max
          /\ SimEnds(s, "agent_stopped")
       \/ /\ sims[s].turns < sims[s].max
          /\ sims[s].cancelled
          /\ SimEnds(s, "cancelled")
       \/ /\ sims[s].turns < sims[s].max
          /\ ~sims[s].cancelled
          /\ \/ SimEnds(s, "agent_error")        \* prompt_stream refuses
             \/ sims' = [sims EXCEPT ![s].pc = "stream",
                                     ![s].from = Len(sims[s].recorded)]
    /\ UNCHANGED <<buckets, answered>>

\* A result on a recorded turn: the agent's own, or the simulator's.
ResultBy(who, calls) == [i \in DOMAIN calls |-> [call |-> calls[i], by |-> who]]

\* The biased select between the token and the next event of the agent; of the
\* events only TurnEnd matters: its calls wait for the simulator, and the turn
\* keeps the results the agent's own tools gave (none on a turn cut short).
StreamEvent(s) ==
    /\ sims[s].pc = "stream"
    /\ \/ /\ sims[s].cancelled
          /\ SimEnds(s, "cancelled")
       \/ /\ ~sims[s].cancelled
          /\ Len(sims[s].recorded) - sims[s].from < StreamTurns
          /\ \E calls \in {<<>>} \cup {<<i>> : i \in CallIds} : \E own \in {<<>>, calls} :
                sims' = [sims EXCEPT
                    ![s].recorded = Append(@, [calls |-> calls, results |-> ResultBy("agent", own)]),
                    ![s].pending = @ \o calls]
       \/ /\ ~sims[s].cancelled
          /\ sims' = [sims EXCEPT ![s].pc = "tools"]
    /\ UNCHANGED <<buckets, answered>>

\* ToolSimulator::invoke up to the judge: an unknown tool fails the simulation,
\* otherwise the bucket's history is copied into the prompt.
Invoke(s) ==
    /\ sims[s].pc = "tools"
    /\ sims[s].pending # <<>>
    /\ Len(answered[Head(sims[s].pending)]) < MaxInvokes
    /\ \/ SimEnds(s, "tool_error")
       \/ sims' = [sims EXCEPT ![s].pc = "judging",
                               ![s].snapshot = buckets[Head(sims[s].pending)]]
    /\ UNCHANGED <<buckets, answered>>

\* A record that refuses what is beyond the cap instead of dropping the oldest.
record_refusing(history, entry) ==
    IF Len(history) >= HistoryCap THEN history ELSE Append(history, entry)

\* StateBucket::record: the oldest entries leave beyond the cap.
record(history, entry) ==
    IF Len(history) >= HistoryCap THEN Append(Tail(history), entry)
                                  ELSE Append(history, entry)

\* Rest of invoke: judge error, no body, unreadable body and a value outside
\* the schema fail the simulation; a value is recorded in the bucket and
\* appended to the last recorded turn, behind a result the call may have there.
Answer(s) ==
    /\ sims[s].pc = "judging"
    /\ \/ /\ SimEnds(s, "tool_error")
          /\ UNCHANGED <<buckets, answered>>
       \/ \E id \in {Head(sims[s].pending)} :
             \E entry \in {<<s, Len(answered[id]) + 1>>} :
                /\ buckets' = [buckets EXCEPT ![id] = record(@, entry)]
                /\ answered' = [answered EXCEPT ![id] = Append(@, entry)]
                /\ sims' = [sims EXCEPT
                       ![s].pc = "tools",
                       ![s].pending = Tail(@),
                       ![s].recorded[Len(sims[s].recorded)].results =
                            @ \o ResultBy("simulator", <<id>>)]

\* After the calls: the turn counts, then the actor is asked, and neither await
\* is raced with the token.
Counted(s) ==
    /\ sims[s].pc = "tools"
    /\ sims[s].pending = <<>>
    /\ sims' = [sims EXCEPT
           ![s].turns = @ + 1,
           ![s].pc = IF sims[s].turns + 1 >= sims[s].max THEN "over" ELSE "actor",
           ![s].outcome = IF sims[s].turns + 1 >= sims[s].max THEN "max_turns" ELSE @]
    /\ UNCHANGED <<buckets, answered>>

\* ActorSimulator::next_turn and turn_from_verdict: the goal is reached when
\* the verdict's label is the configured signal.
NextTurn(s) ==
    /\ sims[s].pc = "actor"
    /\ \/ SimEnds(s, "actor_error")
       \/ \E signal \in BOOLEAN :
             sims' = [sims EXCEPT ![s].signalled = signal,
                         ![s].pc = IF signal THEN "over" ELSE "head",
                         ![s].outcome = IF signal THEN "goal" ELSE @]
    /\ UNCHANGED <<buckets, answered>>

CancelSim(s) ==
    /\ sims[s].pc # "over" /\ ~sims[s].cancelled
    /\ sims' = [sims EXCEPT ![s].cancelled = TRUE,
                            ![s].late = Len(sims[s].recorded)]
    /\ UNCHANGED <<buckets, answered>>

Simulating ==
    /\ source = "simulation"
    /\ \E s \in Simulations : \/ SimTurn(s) \/ StreamEvent(s) \/ Invoke(s)
                              \/ Answer(s) \/ Counted(s) \/ NextTurn(s)
                              \/ CancelSim(s)
    /\ UNCHANGED <<source, plan, fetch>>

----------------------------------------------------------------------------
(* Generation *)

\* distribute: base cases for every topic, one more for the first remainder.
distribute(topics) ==
    [i \in DOMAIN topics |-> Desired \div Len(topics)
                               + (IF i <= Desired % Len(topics) THEN 1 ELSE 0)]

\* parse_topic_list and fallback_topics: a list of any length is cut and
\* padded, anything else replaced.
parse_topic_list(listed) ==
    [i \in 1..Topics |-> IF i <= listed THEN "listed" ELSE "fallback"]

\* TopicPlanner::plan.
Plan ==
    /\ plan.pc = "planning"
    /\ \/ plan' = [plan EXCEPT !.pc = "failed"]
       \/ \E listed \in 0..Topics + 1 :
             plan' = [plan EXCEPT !.pc = "drafting",
                                  !.slots = distribute(parse_topic_list(listed))]

Drafts == [messages : BOOLEAN, blank : BOOLEAN,
           trajectory : {<<t>> : t \in CaseTools} \cup {<<>>}]

\* draft_to_case: the trajectory keeps the tools the agent has.
draft_to_case(draft) ==
    [blank |-> draft.blank, declared |-> TRUE, distinct |-> TRUE,
     trajectory |-> SelectSeq(draft.trajectory, LAMBDA t : t \in AgentTools)]

\* EvalCase::validate: no blank field in the assertion, the interactions and
\* the examples, attachments well declared, environment states distinct.
validate(case) == ~case.blank /\ case.declared /\ case.distinct

\* The position of the case being drafted, topic by topic.
SlotDone == plan.slot > Len(plan.slots)

Skipped == /\ plan.pc = "drafting" /\ ~SlotDone
           /\ plan.index = plan.slots[plan.slot]
           /\ plan' = [plan EXCEPT !.slot = @ + 1, !.index = 0]

\* generate_case, one attempt: a judge error, an empty or unreadable body, a
\* draft without user messages and an invalid case are tried again.
Draft ==
    /\ plan.pc = "drafting" /\ ~SlotDone
    /\ plan.index < plan.slots[plan.slot]
    /\ \/ \E draft \in Drafts :
             /\ draft.messages /\ validate(draft_to_case(draft))
             /\ plan' = [plan EXCEPT
                    !.cases = Append(@, [slot |-> plan.slot, index |-> plan.index,
                                         tools |-> draft_to_case(draft).trajectory]),
                    !.index = @ + 1, !.attempt = 0, !.asked = @ + 1]
       \/ plan' = IF plan.attempt + 1 < RetryCap
                  THEN [plan EXCEPT !.attempt = @ + 1, !.asked = @ + 1]
                  ELSE [plan EXCEPT !.index = @ + 1, !.attempt = 0,
                                    !.asked = @ + 1, !.dropped = @ + 1]

Generated ==
    /\ plan.pc = "drafting" /\ SlotDone
    /\ plan' = [plan EXCEPT !.pc = "generated"]

Generating ==
    /\ source = "generation"
    /\ Plan \/ Skipped \/ Draft \/ Generated
    /\ UNCHANGED <<source, sims, buckets, answered, fetch>>

----------------------------------------------------------------------------
(* Attachments *)

Schemes == {"https", "http"}
Mimes == {"image", "other", "absent"}
Targets == [scheme : Schemes, name : UrlNames, suffix : {"image", "other"}]
Paths == [absolute : BOOLEAN, parents : BOOLEAN, exists : BOOLEAN,
          suffix : {"image", "other"}]
NoUrl == [scheme |-> "https", name |-> "none", suffix |-> "other"]
NoPath == [absolute |-> FALSE, parents |-> FALSE, exists |-> FALSE,
           suffix |-> "other"]

\* validate_attachment_mime and mime_from_path: four image types only.
validate_attachment_mime(mime) == mime = "image"

\* validate_attachment_declaration.
validate_attachment_declaration(a) ==
    CASE a.kind = "path"   -> ~a.path.absolute /\ ~a.path.parents
      [] a.kind = "base64" -> validate_attachment_mime(a.mime)
      [] a.kind = "url"    -> a.url.scheme = "https"

\* validate_remote_url.
validate_remote_url(url) == url.scheme = "https" /\ url.name \in AllowedUrls

Fetching(a) == [pc |-> "declared", kind |-> a.kind, path |-> a.path,
                mime |-> a.mime, url |-> a.url, hops |-> 0, visited |-> {},
                valid |-> validate_attachment_declaration(a), result |-> "none"]

NoFetch == Fetching([kind |-> "base64", path |-> NoPath, mime |-> "other",
                     url |-> NoUrl])

FetchEnded(r) == fetch' = [fetch EXCEPT !.pc = "ended", !.result = r]

\* Attachment::materialize. A case need not have been validated before.
materialize ==
    /\ fetch.pc = "declared"
    /\ CASE fetch.kind = "base64" ->
              FetchEnded(IF validate_attachment_mime(fetch.mime) THEN "bytes"
                    ELSE "unsupported")
         [] fetch.kind = "path" ->
              FetchEnded(IF fetch.path.absolute \/ fetch.path.parents
                        \/ ~fetch.path.exists THEN "not_found"
                    ELSE IF validate_attachment_mime(fetch.path.suffix)
                         THEN "bytes" ELSE "unsupported")
         [] fetch.kind = "url" ->
              IF validate_remote_url(fetch.url)
              THEN fetch' = [fetch EXCEPT !.pc = "get"]
              ELSE FetchEnded("blocked")

\* resolve_redirect_target: every redirect is validated like the first URL.
resolve_redirect_target(target) ==
    IF validate_remote_url(target)
    THEN fetch' = [fetch EXCEPT !.pc = "get", !.url = target, !.hops = @ + 1,
                                !.visited = @ \cup {fetch.url}]
    ELSE fetch' = [fetch EXCEPT !.pc = "ended", !.result = "blocked",
                                !.visited = @ \cup {fetch.url}]

\* materialize_checked_url, one round of its loop.
Get ==
    /\ fetch.pc = "get"
    /\ \/ fetch.hops >= MaxRedirects /\ FetchEnded("failed")
       \/ /\ fetch.hops < MaxRedirects
          /\ \/ FetchEnded("failed")               \* transport, status or no Location
             \/ \E target \in Targets : resolve_redirect_target(target)
             \/ \E mime \in Mimes :
                   \E ok \in {IF mime = "absent"
                              THEN validate_attachment_mime(fetch.url.suffix)
                              ELSE validate_attachment_mime(mime)} :
                      fetch' = [fetch EXCEPT !.pc = "ended",
                                   !.visited = @ \cup {fetch.url},
                                   !.result = IF ok THEN "bytes" ELSE "unsupported"]

Attaching ==
    /\ source = "attachment"
    /\ materialize \/ Get
    /\ UNCHANGED <<source, sims, buckets, answered, plan>>

----------------------------------------------------------------------------
NewPlan == [pc |-> "planning", slots |-> <<>>, slot |-> 1, index |-> 0,
            attempt |-> 0, asked |-> 0, dropped |-> 0, cases |-> <<>>]

Attachments ==
    {[kind |-> "path", path |-> p, mime |-> "other", url |-> NoUrl] : p \in Paths}
    \cup {[kind |-> "base64", path |-> NoPath, mime |-> m, url |-> NoUrl] :
              m \in {"image", "other"}}
    \cup {[kind |-> "url", path |-> NoPath, mime |-> "other", url |-> t] :
              t \in Targets}

SourcesInit ==
    /\ source \in {"simulation", "generation", "attachment"}
    /\ \E max \in SimLimits : sims = [s \in Simulations |-> NewSim(max[s])]
    /\ buckets = [i \in CallIds |-> <<>>]
    /\ answered = [i \in CallIds |-> <<>>]
    /\ plan = NewPlan
    /\ IF source = "attachment" THEN \E a \in Attachments : fetch = Fetching(a)
                                ELSE fetch = NoFetch

SourcesNext == Simulating \/ Generating \/ Attaching

SourcesSpec == SourcesInit /\ [][SourcesNext]_sourceVars

----------------------------------------------------------------------------
(* Properties *)

Results(who, turn) == SelectSeq(turn.results, LAMBDA r : r.by = who)

\* A simulation that ends well has one simulated result for every call its agent
\* made, in order, on the last turn of the prompt that made it, whatever the
\* other simulations did with the shared buckets, and never instead of the
\* agent's own result: a call the agent's tool answered too has two.  It takes
\* at most its max_turns turns, claims the goal only on the actor's signal, and
\* records nothing more of the agent once it has been cancelled.  A bucket keeps
\* the newest answers.
SimulationKept ==
    /\ \A s \in Simulations :
        /\ sims[s].turns <= sims[s].max
        /\ sims[s].outcome = "goal" => sims[s].signalled
        /\ sims[s].cancelled => Len(sims[s].recorded) = sims[s].late
        /\ sims[s].outcome \in {"goal", "max_turns", "agent_stopped"} =>
             /\ FlattenSeq([i \in DOMAIN sims[s].recorded |->
                              ResultBy("simulator", sims[s].recorded[i].calls)])
                  = FlattenSeq([i \in DOMAIN sims[s].recorded |->
                              Results("simulator", sims[s].recorded[i])])
             /\ \A i \in DOMAIN sims[s].recorded :
                  /\ Results("agent", sims[s].recorded[i])
                       \in {<<>>, ResultBy("agent", sims[s].recorded[i].calls)}
                  /\ Cardinality({j \in 1..i : Results("simulator", sims[s].recorded[j]) # <<>>})
                       <= sims[s].turns
    /\ \A id \in CallIds :
        /\ Len(buckets[id]) <= HistoryCap
        /\ IsSuffix(buckets[id], answered[id])
        /\ Len(buckets[id]) < HistoryCap => buckets[id] = answered[id]

\* A generation that ends asked for exactly the desired number of cases,
\* spread evenly over the topics, dropped or delivered every one of them, kept
\* their order, asked the judge at most RetryCap times for each, and lets no
\* case expect a tool the agent does not have.
GenerationExact ==
    /\ plan.asked <= Desired * RetryCap
    /\ plan.slots # <<>> =>
         /\ FoldSeq(LAMBDA c, sum : c + sum, 0, plan.slots) = Desired
         /\ \A i, j \in DOMAIN plan.slots : plan.slots[i] <= plan.slots[j] + 1
    /\ plan.pc = "generated" => Len(plan.cases) + plan.dropped = Desired
    /\ \A i \in DOMAIN plan.cases :
         /\ ToSet(plan.cases[i].tools) \subseteq AgentTools
         /\ \A j \in 1..i - 1 :
              \/ plan.cases[j].slot < plan.cases[i].slot
              \/ /\ plan.cases[j].slot = plan.cases[i].slot
                 /\ plan.cases[j].index < plan.cases[i].index

\* Bytes reach a judge only from inside the evaluation set's directory or from
\* https URLs the filter allows, redirects included, and only as images; a
\* declaration the validation refuses never yields bytes.
AttachmentsAllowed ==
    /\ \A u \in fetch.visited : validate_remote_url(u)
    /\ fetch.pc = "get" => validate_remote_url(fetch.url)
    /\ fetch.hops <= MaxRedirects
    /\ fetch.result = "bytes" =>
         /\ fetch.valid
         /\ fetch.kind = "path" => ~fetch.path.absolute /\ ~fetch.path.parents
         /\ fetch.kind = "url" => fetch.url \in fetch.visited

\* The three together: simulations, generated sets and attachments deliver what
\* was asked for and nothing from elsewhere (orchestrator.rs, experiment.rs,
\* types.rs).
SourcesKept == SimulationKept /\ GenerationExact /\ AttachmentsAllowed
=============================================================================
