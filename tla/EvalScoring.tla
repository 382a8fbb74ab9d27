------------------------------ MODULE EvalScoring ------------------------------
(***************************************************************************)
(* From the events of a run to a metric (eval/src).  TrajectoryCollector   *)
(* builds the Invocation turn by turn; each evaluator then either does not *)
(* apply to the case and the invocation or gives a score, which passes     *)
(* when it reaches its threshold.  A panicking evaluator scores zero.      *)
(* What a judge, an embedder, a compiler or a caller's closure answers is  *)
(* free.                                                                   *)
(***************************************************************************)
EXTENDS Naturals, Integers, Sequences, FiniteSets, SequencesExt

CONSTANTS ScoredTools,  \* names of tools
          MaxEvalTurns, \* bound on the turns of the run
          MaxTurnCalls  \* bound on the tool calls of a turn

ASSUME ScoringAssumption == MaxEvalTurns \in Nat /\ MaxTurnCalls \in Nat

Unit == 60   \* a score of 1.0
NoCalls == << >>

VARIABLES collected, \* per turn recorded, its calls
          pending,   \* the turn being recorded: the calls started so far
          message,   \* the calls the assistant message of that turn will have
          executed,  \* history: per turn ended, those calls as they were executed
          metric     \* the evaluator, its inputs and its result, once it has run

scoringVars == <<collected, pending, message, executed, metric>>

NoTurn == [open |-> FALSE, calls |-> NoCalls]
NoMetric == [by |-> "nothing"]

(* A call's arguments are 1 as the model wrote them and 2 when a policy or *)
(* an approver has edited them before the tool started.                    *)
CallMessages == {[i \in 1 .. n |-> [id |-> i, name |-> f[i], args |-> 1, ran |-> 1]] :
               n \in 0 .. MaxTurnCalls, f \in [1 .. MaxTurnCalls -> ScoredTools]}

RecordedCall(call, args) == [id |-> call.id, name |-> call.name, args |-> args]

ScoringInit ==
  /\ collected = << >> /\ pending = NoTurn /\ message = NoCalls
  /\ executed = << >> /\ metric = NoMetric

-----------------------------------------------------------------------------
(* TrajectoryCollector::observe. *)
ObserveTurnStart ==
  /\ metric = NoMetric /\ ~pending.open /\ Len(collected) < MaxEvalTurns
  /\ pending' = [open |-> TRUE, calls |-> NoCalls]
  /\ message' \in CallMessages
  /\ UNCHANGED <<collected, executed, metric>>

(* A call refused before it starts gives no event; those that do start may *)
(* do so in any order.                                                     *)
ObserveToolStart ==
  /\ metric = NoMetric /\ pending.open
  /\ \E i \in DOMAIN message, args \in {1, 2} :
       /\ \A j \in DOMAIN pending.calls : pending.calls[j].id # message[i].id
       /\ pending' = [pending EXCEPT !.calls = Append(@, RecordedCall(message[i], args))]
       /\ message' = [message EXCEPT ![i].ran = args]
  /\ UNCHANGED <<collected, executed, metric>>

StartedAs(observed, call) == SelectSeq(observed, LAMBDA c : c.id = call.id)

finalize_tool_calls(observed, calls) ==
  [i \in DOMAIN calls |->
     IF StartedAs(observed, calls[i]) = NoCalls THEN RecordedCall(calls[i], calls[i].args)
     ELSE Head(StartedAs(observed, calls[i]))]

ObserveTurnEnd ==
  /\ metric = NoMetric /\ pending.open
  /\ collected' = Append(collected, finalize_tool_calls(pending.calls, message))
  /\ executed' = Append(executed, [i \in DOMAIN message |-> RecordedCall(message[i], message[i].ran)])
  /\ pending' = NoTurn /\ message' = NoCalls
  /\ UNCHANGED metric

(* A stream that ends inside a turn loses the turn, as if it had ended     *)
(* before it.                                                              *)
FinishScoring == ~pending.open /\ UNCHANGED <<collected, pending, message, executed>>
Actual == FlattenSeq(collected)

-----------------------------------------------------------------------------
(* Scores. *)
ScoreOf(value, threshold) ==
  [applies |-> TRUE, value |-> value, pass |-> value >= threshold]
NoScore == [applies |-> FALSE, value |-> 0, pass |-> FALSE]
PassOrFail(passed) == ScoreOf(IF passed THEN Unit ELSE 0, Unit \div 2)
AnyScore == {ScoreOf(v, Unit \div 2) : v \in {0, 20, 30, 60}}

ExpectedCalls == [name : ScoredTools, args : {0, 1, 2}]  \* 0: any arguments

matches_expected(e, a) == e.name = a.name /\ (e.args = 0 \/ e.args = a.args)

AtLeastOne(n) == IF n = 0 THEN 1 ELSE n

score_exact(expected, actual) ==
  IF Len(expected) # Len(actual) THEN ScoreOf(0, Unit)
  ELSE ScoreOf((Unit * Cardinality({i \in DOMAIN expected : matches_expected(expected[i], actual[i])}))
                \div AtLeastOne(Len(expected)), Unit)

(* The scan over the actual calls. *)
Scan(expected, actual) ==
  FoldLeft(LAMBDA found, a :
             IF found < Len(expected) /\ matches_expected(expected[found + 1], a)
             THEN found + 1 ELSE found,
           0, actual)

score_in_order(expected, actual) ==
  IF expected = << >> THEN PassOrFail(TRUE)
  ELSE ScoreOf((Unit * Scan(expected, actual)) \div Len(expected), Unit)

score_any_order(expected, actual) ==
  IF expected = << >> THEN PassOrFail(TRUE)
  ELSE ScoreOf((Unit * Cardinality({i \in DOMAIN expected :
                        \E j \in DOMAIN actual : matches_expected(expected[i], actual[j])}))
                \div Len(expected), Unit)

TrajectoryScore(mode, expected) ==
  CASE mode = "exact" -> score_exact(expected, Actual)
    [] mode = "in_order" -> score_in_order(expected, Actual)
    [] mode = "any_order" -> score_any_order(expected, Actual)

(* Distinct calls over all calls, and the turns an ideal run would take,   *)
(* weighed six to four.                                                    *)
DistinctCalls == {<<Actual[i].name, Actual[i].args>> : i \in DOMAIN Actual}

EfficiencyScore(ideal) ==
  IF Actual = << >> THEN NoScore
  ELSE ScoreOf((36 * Cardinality(DistinctCalls)) \div Len(Actual)
                + (24 * (IF ideal < Len(collected) THEN ideal ELSE Len(collected)))
                    \div Len(collected), Unit \div 2)

EvaluateCalls ==
  /\ metric = NoMetric
  /\ \/ \E mode \in {"exact", "in_order", "any_order"}, n \in 0 .. 2 :
       \E expected \in [1 .. n -> ExpectedCalls] :
         metric' = [by |-> "trajectory", mode |-> mode, expected |-> expected,
                    result |-> TrajectoryScore(mode, expected)]
     \/ \E ideal \in 0 .. 2 \cup {AtLeastOne(Cardinality(DistinctCalls))} :
         metric' = [by |-> "efficiency", ideal |-> ideal, result |-> EfficiencyScore(ideal)]
  /\ FinishScoring

-----------------------------------------------------------------------------
(* What the other evaluators need of the case and of the last turn's text, *)
(* "response" when there is one and "text" when it is not blank.           *)
QualityNeeds ==
  [helpfulness |-> {"prompt", "text"}, correctness |-> {"prompt", "text"},
   conciseness |-> {"text"}, coherence |-> {"text"},
   response_relevance |-> {"prompt", "text"}, hallucination |-> {"prompt", "text"},
   faithfulness |-> {"context", "text"}, plan_adherence |-> {"system", "text"},
   laziness |-> {"prompt", "text"}, goal_success_rate |-> {"assertion", "text"}]
RagNeeds ==
  [rag_groundedness |-> {"context", "prompt", "text"},
   rag_retrieval_relevance |-> {"context", "prompt"},
   rag_helpfulness |-> {"context", "prompt", "text"}]
SafetyNeeds ==
  [harmfulness |-> {"text"}, toxicity |-> {"text"}, fairness |-> {"text"},
   prompt_injection |-> {"prompt"}, code_injection |-> {"prompt"}, pii_leakage |-> {"text"}]
AgentNeeds ==
  [trajectory_accuracy |-> {"prompt", "text"},
   trajectory_accuracy_with_ref |-> {"trajectory", "prompt", "text"},
   task_completion |-> {"assertion", "text"}, user_satisfaction |-> {"prompt", "text"},
   agent_tone |-> {"text"}, knowledge_retention |-> {"prompt", "text"},
   language_detection |-> {"prompt", "text"}, perceived_error |-> {"text"},
   interactions |-> {"interactions", "prompt", "text"}]
SelectionNeeds == [semantic_tool_selection |-> {"selection", "calls"}]
ParameterNeeds == [semantic_tool_parameter |-> {"intent", "calls"}]
ImageNeeds == [image_safety |-> {"attachments"}]
CodeNeeds == [cargo_check |-> {"response", "code"}, clippy |-> {"response", "code"}]
CodeJudgeNeeds == [code_llm_judge |-> {"prompt", "response"}]
SimpleNeeds == [exact_match |-> {"response"}, levenshtein_distance |-> {"response"}]
StructuredNeeds == [json_match |-> {"response"}, json_schema |-> {"response"}]
EmbeddingNeeds == [embedding_similarity |-> {"text"}]
ResponseNeeds == [response |-> {"criteria"}]   \* no response is compared as an empty one
EnvironmentNeeds == [environment_state |-> {"states", "capture"}]
BudgetNeeds == [budget |-> {"limits"}]

Needs == QualityNeeds @@ RagNeeds @@ SafetyNeeds @@ AgentNeeds @@ SelectionNeeds @@ ParameterNeeds
           @@ ImageNeeds @@ CodeNeeds @@ CodeJudgeNeeds @@ SimpleNeeds @@ StructuredNeeds
           @@ EmbeddingNeeds @@ ResponseNeeds @@ EnvironmentNeeds @@ BudgetNeeds

Offered(given, text) == given \cup text \cup (IF Actual = << >> THEN {} ELSE {"calls"})

(* Keys of an object compared one by one: a share of them, all, or none    *)
(* must be equal.                                                          *)
compare(strategy, keys, equal) ==
  IF keys = {} THEN PassOrFail(TRUE)
  ELSE CASE strategy = "average" ->
              ScoreOf((Unit * Cardinality(equal)) \div Cardinality(keys), Unit \div 2)
         [] strategy = "all" -> PassOrFail(equal = keys)
         [] strategy = "none" -> PassOrFail(equal = {})

JsonScores ==
  {PassOrFail(FALSE)} \cup   \* the response is no JSON
  {compare(s, {1, 2}, e) : s \in {"average", "all", "none"}, e \in SUBSET {1, 2}}

(* One verdict that fails, an error or a timeout outweighs the mean. *)
semantic_aggregate(scores, failed) ==
  IF failed THEN PassOrFail(FALSE)
  ELSE ScoreOf(FoldLeft(LAMBDA x, y : x + y, 0, scores) \div AtLeastOne(Len(scores)), Unit \div 2)

SemanticScores == {semantic_aggregate(<<x, y>>, f) : x, y \in {20, 60}, f \in BOOLEAN}

SampleScores(e) ==
  CASE e = "json_match" -> JsonScores
    [] e \in {"semantic_tool_selection", "semantic_tool_parameter"} -> SemanticScores
    [] e \in {"response", "exact_match", "environment_state", "budget", "cargo_check", "clippy",
              "json_schema"} -> {PassOrFail(TRUE), PassOrFail(FALSE)}
    [] OTHER -> AnyScore

-----------------------------------------------------------------------------
(* Samples of one evaluator, which share a threshold, become one score. *)
ValuesOf(samples) == [i \in DOMAIN samples |-> samples[i].value]
SumOf(numbers) == FoldLeft(LAMBDA x, y : x + y, 0, numbers)
MeanScore(samples) == ScoreOf(SumOf(ValuesOf(samples)) \div Len(samples), Unit \div 2)

Weighted(weights, samples) ==
  IF Len(weights) # Len(samples) \/ SumOf(weights) = 0 THEN MeanScore(samples)
  ELSE ScoreOf(SumOf([i \in DOMAIN samples |-> weights[i] * samples[i].value]) \div SumOf(weights),
              Unit \div 2)

aggregate(how, samples) ==
  CASE how = "average" -> MeanScore(samples)
    [] how = "all_pass" -> PassOrFail(\A i \in DOMAIN samples : samples[i].pass)
    [] how = "any_pass" -> PassOrFail(\E i \in DOMAIN samples : samples[i].pass)
    [] how = "weighted" -> Weighted(<<0, 1>>, samples)
    [] how = "misweighted" -> Weighted(<<1>>, samples)

(* A configured aggregator, or the evaluator's own default. *)
with_safety_default(e) == IF e \in DOMAIN SafetyNeeds THEN "all_pass" ELSE "average"

Sampled(e, how, text, samples) ==
  [by |-> e, how |-> how, text |-> text, samples |-> samples,
   result |-> IF samples = << >> THEN NoScore
              ELSE aggregate(IF how = "unset" THEN with_safety_default(e) ELSE how, samples)]

(* Of the calls these evaluators ask only whether there are any (bound). *)
EvaluateSampled ==
  /\ metric = NoMetric /\ Len(collected) <= 1 /\ Len(Actual) <= 1
  /\ \E e \in DOMAIN Needs, text \in {{}, {"response"}, {"response", "text"}},
        how \in {"unset", "average", "all_pass", "any_pass", "weighted", "misweighted"} :
     \E given \in {{}, Needs[e] \ {"text", "response", "calls"}} :
       \/ /\ ~(Needs[e] \subseteq Offered(given, text))
          /\ metric' = Sampled(e, how, text, << >>)
       \/ /\ Needs[e] \subseteq Offered(given, text)
          /\ \E a, b \in SampleScores(e) : metric' = Sampled(e, how, text, <<a, b>>)
  /\ FinishScoring

ScoringNext ==
  \/ ObserveTurnStart \/ ObserveToolStart \/ ObserveTurnEnd
  \/ EvaluateCalls \/ EvaluateSampled

ScoringSpec == ScoringInit /\ [][ScoringNext]_scoringVars

-----------------------------------------------------------------------------
(* The longest prefix of the expected calls that can be found, in order,   *)
(* among the actual ones.                                                  *)
LongestFound(expected, actual) ==
  CHOOSE k \in 0 .. Len(expected) :
    /\ \E at \in [1 .. k -> DOMAIN actual] :
         /\ \A i, j \in 1 .. k : i < j => at[i] < at[j]
         /\ \A i \in 1 .. k : matches_expected(expected[i], actual[at[i]])
    /\ k < Len(expected) =>
         ~ \E at \in [1 .. k + 1 -> DOMAIN actual] :
             /\ \A i, j \in 1 .. k + 1 : i < j => at[i] < at[j]
             /\ \A i \in 1 .. k + 1 : matches_expected(expected[i], actual[at[i]])

(* Whatever order the tools of a turn started in, and whichever of them    *)
(* were edited or refused, the recorded trajectory is the assistant's, in  *)
(* its order and with the arguments that ran; the scan over it finds as    *)
(* much of the expected path as any search could; a path matched exactly   *)
(* is also matched in order, and one matched in order in any order; and    *)
(* samples that agree decide the metric, while one failing sample of a     *)
(* safety evaluator left at its default always fails it.                   *)
ScoresFit ==
  /\ collected = executed
  /\ metric.by = "trajectory" =>
       LET e == metric.expected IN
       /\ metric.mode = "in_order" /\ e # << >> =>
            metric.result.value = (Unit * LongestFound(e, Actual)) \div Len(e)
       /\ e # << >> /\ score_exact(e, Actual).pass => score_in_order(e, Actual).pass
       /\ score_in_order(e, Actual).pass => score_any_order(e, Actual).pass
  /\ metric.by = "efficiency" /\ metric.result.applies =>
       /\ metric.result.value \in 0 .. Unit
       /\ metric.result.value = Unit <=>
            Cardinality(DistinctCalls) = Len(Actual) /\ Len(collected) <= metric.ideal
  /\ metric.by \in DOMAIN Needs /\ metric.result.applies =>
       LET s == metric.samples IN
       /\ (\A i \in DOMAIN s : s[i].pass) => metric.result.pass
       /\ (\A i \in DOMAIN s : ~s[i].pass) => ~metric.result.pass
       /\ metric.by \in DOMAIN SafetyNeeds /\ metric.how = "unset" /\ metric.result.pass =>
            \A i \in DOMAIN s : s[i].pass
=============================================================================
