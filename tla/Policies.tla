------------------------------ MODULE Policies ------------------------------
(***************************************************************************)
(* The policy slots of the loop (src/src/policy.rs) and the policies of    *)
(* src/policies: limits, deny list, sandbox, loop detection, filters,      *)
(* nudges and the two checkpoint policies, with the saves they leave        *)
(* running on the runtime while the loop goes on.                          *)
(*                                                                         *)
(* Text is the set of things in it that a pattern may match: a word        *)
(* [stem, upper, part] (in capitals, inside a longer word), or the name of *)
(* a pattern.  A path is [abs, to], `to` its components.                   *)
(***************************************************************************)
EXTENDS Integers, Sequences, FiniteSets, TLC, SequencesExt, FiniteSetsExt

CONSTANTS
  Chains,      \* the configured policies: records [pre, dispatch, post]
  MaxRuns,     \* bound: runs of the loop
  MaxPolicyTurns,  \* bound: turns evaluated, over all runs
  Uses,        \* what a turn may use: records [cost, input, output]
  ExtremeUse   \* the probe's cost and tokens (f64::MAX, u64::MAX); a limit beyond is none

(* Two rolling policies under one id would not wait for each other.        *)
ASSUME PolicyAssumption ==
  /\ MaxRuns \in Nat /\ MaxPolicyTurns \in Nat /\ ExtremeUse \in Nat
  /\ Uses \subseteq [cost : Nat, input : Nat, output : Nat]
  /\ \A c \in Chains, name \in {"rolling-checkpoint", "checkpoint"} :
       Cardinality({n \in DOMAIN c.post : c.post[n].name = name}) <= 1

VARIABLES
  chain,     \* the policies in force
  slot,      \* where the loop is: "pre", "dispatch", "post", "ended"
  usage,     \* PolicyContext: turn_index, accumulated use, new messages; turns and runs so far
  message,   \* the turn: text, phrases, calls (id -> name and arguments), results
  repeated,  \* LoopDetectionPolicy::history
  printed,   \* every fingerprint it was ever given
  verdict,   \* the last verdict of a slot
  executed,  \* the calls that reached their tools this turn
  saveTasks, \* save tasks in the order they were spawned
  kept       \* checkpoint id -> the task that wrote what the store holds

policyVars == <<chain, slot, usage, message, repeated, printed, verdict, executed, saveTasks, kept>>

NoLimit == ExtremeUse + 1
Continue == [k |-> "Continue"]
Stop(why) == [k |-> "Stop", why |-> why]
Skip(why) == [k |-> "Skip", why |-> why]
Inject(messages) == [k |-> "Inject", messages |-> messages]
Panic == [k |-> "panic"]
Rolling == 0  \* the rolling id; a per-turn id is the turn's index plus one
-----------------------------------------------------------------------------
(* The file system a sandbox looks at: directories, a file, a link out of  *)
(* the root and one that leads nowhere.                                    *)
SandboxRoot == <<"w">>
Directories == {<<>>, <<"w">>, <<"w", "d">>, <<"o">>}
PlainFiles == {<<"w", "f">>}
Links == <<"w", "l">> :> <<"o">> @@ <<"w", "g">> :> <<"o", "n">>
Nowhere == <<"nowhere">>

\* std::fs::sandbox_canonicalize
PathExists(q) == q \in Directories \cup PlainFiles
Enter(q) ==
  CASE q \in DOMAIN Links -> IF PathExists(Links[q]) THEN Links[q] ELSE Nowhere
    [] PathExists(q) -> q
    [] OTHER -> Nowhere
PolicyFollow(at, c) ==
  CASE at \in {Nowhere} \cup PlainFiles -> Nowhere
    [] c = ".." -> SubSeq(at, 1, Len(at) - 1)
    [] OTHER -> Enter(Append(at, c))
sandbox_canonicalize(to) == FoldLeft(PolicyFollow, <<>>, to)

\* std::fs::sandbox_metadata: does not follow the last component, and a
\* file is no directory
Listed(above, name) ==
  CASE above \in PlainFiles -> "other"
    [] above = Nowhere -> "NotFound"
    [] OTHER -> IF name = ".." \/ Append(above, name) \in Directories \cup PlainFiles \cup DOMAIN Links
                THEN "ok" ELSE "NotFound"
sandbox_metadata(to) == IF to = <<>> THEN "ok" ELSE Listed(sandbox_canonicalize(Front(to)), Last(to))

\* The longest prefix that exists, resolved, and the rest as written; a
\* rest with ".." in it has no file name to put aside.
Rejoined(to, found, resolved) ==
  IF \/ resolved = Nowhere
     \/ \E n \in (found + 1)..Len(to) : to[n] = ".."
     \/ found < Len(to) /\ resolved \in PlainFiles
  THEN Nowhere ELSE resolved \o SubSeq(to, found + 1, Len(to))
Prefixed(to, found) == Rejoined(to, found, sandbox_canonicalize(SubSeq(to, 1, found)))
resolve_existing_prefix(to) ==
  Prefixed(to, Max({n \in 0..Len(to) : sandbox_metadata(SubSeq(to, 1, n)) = "ok"}))

resolve_path(path, execution_root) ==
  resolve_existing_prefix(IF path.abs THEN path.to ELSE sandbox_canonicalize(execution_root) \o path.to)

\* An execution root is always given where a path is relative.
validate_path(path, allowed_root) ==
  IsPrefix(sandbox_canonicalize(allowed_root), resolve_path(path, SandboxRoot))
-----------------------------------------------------------------------------
(* Policies before a turn and before a dispatch.                           *)
\* Mutant: the output tokens are not looked at.
budget_without_output(p) ==
  IF usage.cost >= p.max_cost THEN Stop("cost")
  ELSE IF usage.input >= p.max_input THEN Stop("input") ELSE Continue

budget(p) ==
  IF usage.cost >= p.max_cost THEN Stop("cost")
  ELSE IF usage.input >= p.max_input THEN Stop("input")
  ELSE IF usage.output >= p.max_output THEN Stop("output") ELSE Continue

max_turns(p) == IF usage.turn_index >= p.max_turns THEN Stop("turns") ELSE Continue

PromptInjectionGuard ==
  [name |-> "guard",
   patterns |-> {"ignore_all_previous_instructions", "disregard_system_prompt", "you_are_now_a",
                 "forget_your_instructions", "override_your_programming", "new_persona", "jailbreak",
                 "pretend_you_are", "act_as_no_restrictions", "ignore_the_above"}]

\* check(): some pattern matches
PatternFound(p, text) == p.patterns \cap text # {}

prompt_guard_pre(p) == IF PatternFound(p, usage.said) THEN Stop("injection") ELSE Continue

pre_turn(p) ==
  CASE p.name = "budget" -> budget(p)
    [] p.name = "max_turns" -> max_turns(p)
    [] p.name = "guard" -> prompt_guard_pre(p)
    [] OTHER -> p.verdict          \* the host's own policies

sandbox(p, call) ==
  IF call.path.given /\ "path" \in p.path_fields /\ ~validate_path(call.path, p.allowed_root)
  THEN Skip("sandbox") ELSE Continue

deny_list(p, call) == IF call.name \in p.denied THEN Skip("denied") ELSE Continue

\* A verdict and the arguments the policy leaves behind.
pre_dispatch(p, call) ==
  CASE p.name = "sandbox" -> [v |-> sandbox(p, call), path |-> call.path]
    [] p.name = "tool_deny_list" -> [v |-> deny_list(p, call), path |-> call.path]
    [] OTHER -> [v |-> p.verdict, path |-> p.path]
-----------------------------------------------------------------------------
(* Policies after a turn.                                                  *)
\* Name and arguments of the call each result answers.
extract_fingerprint ==
  [n \in DOMAIN message.results |->
     LET r == message.results[n] IN IF r.id \in DOMAIN message.calls THEN message.calls[r.id] ELSE <<"_unknown", r.text>>]

SandboxTrimmed(h, most) == IF Len(h) > most THEN Tail(h) ELSE h
Pushed(p) == SandboxTrimmed(Append(repeated, extract_fingerprint), p.lookback + 1)

is_stuck(p, h) ==
  /\ Len(h) >= p.lookback
  /\ p.lookback > 0
  /\ \A n \in 1..p.lookback : h[Len(h) - n + 1] = Last(h)

loop_detection(p) ==
  IF ~is_stuck(p, Pushed(p)) THEN Continue
  ELSE IF p.on_detect = "Stop" THEN Stop("loop") ELSE Inject(<<[steer |-> p.lookback]>>)

ContentFilter == [name |-> "ContentFilter", rules |-> {}, enabled |-> {"all"}, case_insensitive |-> TRUE, whole_word |-> FALSE]

\* with_keyword(), with_category_keyword(): a whole word becomes a regex with
\* boundaries; either way the flags at the time of the call are kept.
push_keyword_rule(f, category, word) ==
  [f EXCEPT !.rules = @ \cup {[stem |-> word, category |-> category,
                               case_insensitive |-> f.case_insensitive, whole_word |-> f.whole_word]}]

should_evaluate_category(p, rule) ==
  (rule.category # "none" /\ p.enabled # {"all"}) => rule.category \in p.enabled

\* Keyword rules and whole-word rules (compiled to regexes) in turn.
content_filter(p) ==
  LET hit(rule) == \E w \in message.text :
        /\ w.stem = rule.stem
        /\ rule.case_insensitive \/ ~w.upper
        /\ rule.whole_word => ~w.part
  IN  IF \E r \in p.rules : should_evaluate_category(p, r) /\ hit(r) THEN Stop("filter") ELSE Continue

PiiRedactor(mode) ==
  [name |-> "pii-redactor", mode |-> mode, patterns |-> {"email", "us_phone", "ssn", "credit_card", "ipv4"}]

\* Redaction offers a message that has the text only.
pii_redactor(p) ==
  IF ~\E w \in message.text : w.stem \in p.patterns THEN Continue
  ELSE IF p.mode = "Stop" THEN Stop("pii")
  ELSE Inject(<<[redacted |-> {w \in message.text : w.stem \notin p.patterns}]>>)

prompt_guard_post(p) ==
  IF \E n \in DOMAIN message.results : PatternFound(p, {message.results[n].text}) THEN Stop("injection") ELSE Continue

threshold(sensitivity) == CASE sensitivity = "Low" -> 75 [] sensitivity = "Medium" -> 55 [] OTHER -> 35

\* The tables of phrases, their strongest and weakest entries.
Phrases ==
  << <<"correction", << <<"no, actually", 90>>, <<"actually, ", 60>> >> >>,
     <<"explicit_save", << <<"remember this", 95>>, <<"worth noting", 80>> >> >>,
     <<"decision", << <<"we decided to", 90>>, <<"we will use", 70>> >> >>,
     <<"preference", << <<"i prefer ", 90>>, <<"i use ", 55>> >> >> >>

\* The first phrase of a table that is in the text decides.
detect_any(table) ==
  LET found == SelectSeq(table, LAMBDA e : e[1] \in message.phrases)
  IN  IF found = <<>> THEN 0 ELSE found[1][2]

\* A summary and a confidence per category at or over the threshold.
memory_nudge(p) ==
  LET loud == SelectSeq(Phrases, LAMBDA c : detect_any(c[2]) >= threshold(p.sensitivity))
  IN  IF message.phrases = {} \/ loud = <<>> THEN Continue ELSE Inject([n \in DOMAIN loud |-> [nudge |-> loud[n][1]]])

post_turn(p) ==
  CASE p.name = "loop_detection" -> loop_detection(p)
    [] p.name = "ContentFilter" -> content_filter(p)
    [] p.name = "pii-redactor" -> pii_redactor(p)
    [] p.name = "guard" -> prompt_guard_post(p)
    [] p.name = "memory-nudge" -> memory_nudge(p)
    [] p.name = "max_turns" -> max_turns(p)
    [] p.name \in {"checkpoint", "rolling-checkpoint"} -> Continue
    [] OTHER -> p.verdict
-----------------------------------------------------------------------------
(* The runners: verdicts in order up to the first Stop; a panic counts as  *)
(* nothing; what is injected is collected.                                 *)
Ends(v) == v.k \in {"Stop", "Skip"}

\* How many policies of a chain are evaluated.
Asked(verdicts) ==
  LET ends == {n \in DOMAIN verdicts : Ends(verdicts[n])}
  IN  IF ends = {} THEN Len(verdicts) ELSE Min(ends)

run_policies(verdicts) ==
  LET asked == SubSeq(verdicts, 1, Asked(verdicts))
      said == FlattenSeq([n \in DOMAIN asked |-> IF asked[n].k = "Inject" THEN asked[n].messages ELSE <<>>])
  IN  CASE asked # <<>> /\ Ends(Last(asked)) -> Last(asked)
        [] said = <<>> -> Continue
        [] OTHER -> Inject(said)

\* Mutant: what a panicking policy wrote stays.
Left_no_snapshot(acc, d) ==
  [said |-> IF d.v.k = "panic" THEN acc.said ELSE Append(acc.said, d.v), call |-> [acc.call EXCEPT !.path = d.path]]

\* Each dispatch policy sees the arguments the one before left; a policy
\* that panics leaves them as it found them.
Left(acc, d) ==
  IF d.v.k = "panic" THEN acc ELSE [said |-> Append(acc.said, d.v), call |-> [acc.call EXCEPT !.path = d.path]]

\* The verdicts up to the first that ends, and the call as they leave it.
Dispatched(call) ==
  FoldLeft(LAMBDA acc, p : IF acc.said # <<>> /\ Ends(Last(acc.said)) THEN acc ELSE Left(acc, pre_dispatch(p, acc.call)),
           [said |-> <<>>, call |-> call], chain.dispatch)
run_pre_dispatch_policies(call) ==
  LET d == Dispatched(call) IN [v |-> run_policies(d.said), call |-> d.call]
-----------------------------------------------------------------------------
(* verify_production_guardrails: the first policy of each expected name is *)
(* probed with values no limit should allow.                               *)
Named(policies, name) == SelectSeq(policies, LAMBDA p : p.name = name)
Probe == [given |-> TRUE, abs |-> TRUE, to |-> <<"probe", "x">>]

\* RecommendedPolicies::apply
Budget(cost, input, output) == [name |-> "budget", max_cost |-> cost, max_input |-> input, max_output |-> output]
recommended(limits, max_turn, root, denied) ==
  [pre |-> <<limits, [name |-> "max_turns", max_turns |-> max_turn]>>,
   dispatch |-> <<[name |-> "sandbox", allowed_root |-> root, path_fields |-> {"path", "file_path", "file"}],
                  [name |-> "tool_deny_list", denied |-> denied]>>]

check_budget ==
  LET p == Named(chain.pre, "budget")
  IN  p # <<>> /\ Min({p[1].max_cost, p[1].max_input, p[1].max_output}) <= ExtremeUse
check_max_turns == Named(chain.pre, "max_turns") # <<>>   \* every limit is below usize::MAX or equal
check_sandbox ==
  LET p == Named(chain.dispatch, "sandbox")
  IN  p # <<>> /\ sandbox(p[1], [name |-> "probe", path |-> Probe]) # Continue
check_deny_list(tool) ==
  LET p == Named(chain.dispatch, "tool_deny_list")
  IN  p # <<>> /\ tool \in p[1].denied

verify_production_guardrails(tool) ==
  check_budget /\ check_max_turns /\ check_sandbox /\ check_deny_list(tool)
-----------------------------------------------------------------------------
(* The loop around the slots.                                              *)
Quiet == [text |-> {}, phrases |-> {}, calls |-> <<>>, results |-> <<>>]

PolicyInit ==
  /\ chain \in Chains
  /\ slot = "pre" /\ message = Quiet /\ verdict = Continue /\ executed = {}
  /\ usage = [turn_index |-> 0, cost |-> 0, input |-> 0, output |-> 0, said |-> {}, runs |-> 1, turns |-> 0]
  /\ repeated = <<>> /\ printed = <<>> /\ saveTasks = <<>>
  /\ kept = [id \in 0..MaxPolicyTurns |-> 0]

PreTurn ==
  /\ slot = "pre"
  /\ \E v \in {run_policies([n \in DOMAIN chain.pre |-> pre_turn(chain.pre[n])])} :
       verdict' = v /\ slot' = IF v.k = "Stop" THEN "ended" ELSE "dispatch"
  /\ UNCHANGED <<chain, usage, message, repeated, printed, executed, saveTasks, kept>>

\* The model's turn, one call of which goes through the dispatch slot.
Turn(m, call, use) ==
  /\ slot = "dispatch"
  /\ usage.turns < MaxPolicyTurns
  /\ \E d \in {run_pre_dispatch_policies(call)} :
       /\ verdict' = d.v
       /\ executed' = IF Ends(d.v) THEN {} ELSE {d.call}
       /\ slot' = IF d.v.k = "Stop" THEN "ended" ELSE "post"
  /\ message' = m
  /\ usage' = [usage EXCEPT !.cost = @ + use.cost, !.input = @ + use.input, !.output = @ + use.output, !.turns = @ + 1]
  /\ UNCHANGED <<chain, repeated, printed, saveTasks, kept>>

\* What a checkpoint holds, as far as it can be told apart here.
build_checkpoint == [turn_count |-> usage.turn_index, cost |-> usage.cost, results |-> Len(message.results)]

SaveTask(id, after) == <<[id |-> id, after |-> after, checkpoint |-> build_checkpoint, done |-> FALSE]>>

\* Mutant: the task does not wait for the one before it.
rolling_checkpoint_unchained == SaveTask(Rolling, 0)

\* evaluate(): the task takes the handle of the last one along.
rolling_checkpoint == SaveTask(Rolling, Max({0} \cup {n \in DOMAIN saveTasks : saveTasks[n].id = Rolling}))

checkpoint_id == usage.turn_index + 1
checkpoint == SaveTask(checkpoint_id, 0)

\* What the checkpoint policies of a chain, one of each at most, leave running.
Spawned(asked) ==
  (IF Named(asked, "rolling-checkpoint") = <<>> THEN <<>> ELSE rolling_checkpoint)
    \o (IF Named(asked, "checkpoint") = <<>> THEN <<>> ELSE checkpoint)

\* An injected assistant message replaces the turn's own, unless it would
\* change its tool calls.
Replaced(v) ==
  IF v.k = "Inject" /\ message.calls = <<>> /\ \E n \in DOMAIN v.messages : "redacted" \in DOMAIN v.messages[n]
  THEN [message EXCEPT !.text = (CHOOSE m \in ToSet(v.messages) : "redacted" \in DOMAIN m).redacted]
  ELSE message

\* evaluate() of every policy up to the first Stop, with what it writes.
PostTurn ==
  /\ slot = "post"
  /\ \E verdicts \in {[n \in DOMAIN chain.post |-> post_turn(chain.post[n])]} :
     \E asked \in {SubSeq(chain.post, 1, Asked(verdicts))} :
     \E v \in {run_policies(verdicts)}, detectors \in {Named(asked, "loop_detection")} :
         /\ verdict' = v
         /\ slot' = IF v.k = "Stop" THEN "ended" ELSE "pre"
         /\ repeated' = IF detectors = <<>> THEN repeated ELSE Pushed(detectors[1])
         /\ printed' = IF detectors = <<>> THEN printed ELSE Append(printed, extract_fingerprint)
         /\ saveTasks' = saveTasks \o Spawned(asked)
         /\ message' = Replaced(v)
  /\ usage' = [usage EXCEPT !.turn_index = @ + 1]
  /\ executed' = {}
  /\ UNCHANGED <<chain, kept>>

\* Another prompt: the same policies, a loop that counts from zero.
NextRun(said) ==
  /\ slot = "ended" /\ usage.runs < MaxRuns
  /\ slot' = "pre"
  /\ usage' = [usage EXCEPT !.turn_index = 0, !.cost = 0, !.input = 0, !.output = 0, !.said = said, !.runs = @ + 1]
  /\ executed' = {} /\ verdict' = Continue
  /\ UNCHANGED <<chain, message, repeated, printed, saveTasks, kept>>

\* A save task: its predecessor has ended, and the store writes or refuses.
Save(n, ok) ==
  /\ ~saveTasks[n].done
  /\ saveTasks[n].after > 0 => saveTasks[saveTasks[n].after].done
  /\ saveTasks' = [saveTasks EXCEPT ![n].done = TRUE]
  /\ kept' = IF ok THEN [kept EXCEPT ![saveTasks[n].id] = n] ELSE kept
  /\ UNCHANGED <<chain, slot, usage, message, repeated, printed, verdict, executed>>

Word(stem) == [stem |-> stem, upper |-> FALSE, part |-> FALSE]
Answers(names) == [calls |-> [n \in DOMAIN names |-> <<"tool", names[n]>>], results |-> [n \in DOMAIN names |-> [id |-> n, text |-> "fine"]]]
TurnMessages ==
  {[Quiet EXCEPT !.text = {w}] : w \in {Word("email"), [Word("spam") EXCEPT !.upper = TRUE], [Word("spam") EXCEPT !.part = TRUE]}}
  \cup {[Quiet EXCEPT !.phrases = f] : f \in {{"actually, ", "we will use"}, {"i use "}}}
  \cup {[Quiet EXCEPT !.calls = Answers(q).calls, !.results = Answers(q).results] : q \in {<<>>, <<"a">>, <<"b">>}}
  \cup {[Quiet EXCEPT !.results = <<[id |-> 7, text |-> t]>>] : t \in {"fine", "new_persona"}}
Route(to) == [given |-> TRUE, abs |-> Head(to) \in {"w", "o"}, to |-> to]
TurnCalls ==
  [name : {"bash"}, path : {[given |-> FALSE]}]
  \cup [name : {"write"}, path : {Route(t) : t \in {<<"w", "d", "n">>, <<"o">>, <<"w", "l", "n">>, <<"w", "l", "..", "w">>,
     <<"w", "d", "..", "f">>, <<"w", "f", "n">>, <<"w", "g">>, <<"w", "g", "n">>, <<"w", "n", "..", "..", "o">>, <<"d", "..", "..">>, <<"l">>}}]

PolicyNext ==
  \/ PreTurn
  \/ \E m \in TurnMessages, c \in TurnCalls, use \in Uses :
       (m = Quiet \/ c = [name |-> "bash", path |-> [given |-> FALSE]]) /\ Turn(m, c, use)
  \/ PostTurn
  \/ \E said \in {{}, {"jailbreak"}} : NextRun(said)
  \/ \E n \in DOMAIN saveTasks, ok \in BOOLEAN : Save(n, ok)

PolicySpec == PolicyInit /\ [][PolicyNext]_policyVars
-----------------------------------------------------------------------------
\* Where a tool that opens or creates the path would end up.
Lands(path) ==
  FoldLeft(LAMBDA at, c : CASE c = ".." -> IF at = <<>> THEN at ELSE Front(at)
                            [] Append(at, c) \in DOMAIN Links -> Links[Append(at, c)]
                            [] OTHER -> Append(at, c),
           IF path.abs THEN <<>> ELSE SandboxRoot, path.to)

(* Guardrails hold: no turn begins once its run has used up a limit of the *)
(* budget, whatever the other policies of the chain do.  When              *)
(* verify_production_guardrails accepts a configuration, none begins at    *)
(* the extreme use it probed with, the expected tool never runs, and       *)
(* whatever runs has the path the policies that finished left it, which    *)
(* the system resolves inside the allowed root, through links, missing     *)
(* directories and "..".  A text the redactor let pass shows nothing of    *)
(* what it looks for, unless the turn has calls.  The detector's bounded   *)
(* deque decides as the whole history would.                               *)
WithinBudget(p) == usage.cost < p.max_cost /\ usage.input < p.max_input /\ usage.output < p.max_output
GuardrailsHold ==
  /\ slot = "dispatch" => \A p \in ToSet(Named(chain.pre, "budget")) : WithinBudget(p)
  /\ verify_production_guardrails("bash") =>
       /\ slot = "dispatch" => Min({usage.cost, usage.input, usage.output}) < ExtremeUse
       /\ \A call \in executed :
            /\ call.name # "bash"
            /\ call.path.given => IsPrefix(Named(chain.dispatch, "sandbox")[1].allowed_root, Lands(call.path))
  /\ (slot = "pre" /\ usage.turn_index > 0 /\ message.calls = <<>>) =>
       \A p \in ToSet(Named(chain.post, "pii-redactor")) : ~\E w \in message.text : w.stem \in p.patterns
  /\ \A p \in {q \in ToSet(chain.post) : q.name = "loop_detection"} :
       is_stuck(p, repeated) <=>
         /\ p.lookback \in 1..Len(printed)
         /\ \E f \in {Last(printed)} : \A n \in Len(printed) - p.lookback + 1..Len(printed) : printed[n] = f

(* The rolling checkpoint only moves forward: however the runtime          *)
(* schedules the saves, an older turn's snapshot never replaces a newer    *)
(* one under the rolling id.                                               *)
RollingForward == [][kept'[Rolling] >= kept[Rolling]]_policyVars
=============================================================================
