----------------------------- MODULE MCEvaluation -----------------------------
(***************************************************************************)
(* The evaluation crates, one subject at a time: a behaviour is one of     *)
(* `part` (prompt evolution, calls to a judge, its cache, scoring, traces, *)
(* the material of a run, its results), and the others stay in an initial  *)
(* state.  The runner of an eval set is in MCWorkflows.                    *)
(***************************************************************************)
EXTENDS Evolution, Judges, EvalScoring, TraceIngest, EvalSources, EvalResults

VARIABLE part

Parts == {"evolution", "judges", "cache", "scoring", "traces", "sources", "results"}

evaluationVars == <<part, evolveVars, judgeVars, cacheVars, scoringVars, traceVars, sourceVars,
                    resultVars>>

EvaluationInit ==
  /\ part \in Parts
  /\ EvolveInit /\ CacheInit /\ ScoringInit
  /\ JudgeInit
  /\ part # "judges" => /\ judge = "openai" /\ asker = "evaluator" /\ flavor = "none"
                        /\ tokens = {"client"}
  /\ TraceInit /\ (part # "traces" => subject = "extract")
  /\ SourcesInit
  /\ part # "sources" => source = "generation" /\ \A s \in Simulations : sims[s] = NewSim((CHOOSE m \in SimLimits : TRUE)[s])
  /\ ResultsInit /\ (part # "results" => outlet = "cli")

EvaluationNext ==
  /\ UNCHANGED part
  /\ \/ part = "evolution" /\ EvolveNext
     \/ part # "evolution" /\ UNCHANGED evolveVars
  /\ \/ part = "judges" /\ JudgeNext
     \/ part # "judges" /\ UNCHANGED judgeVars
  /\ \/ part = "cache" /\ CacheNext
     \/ part # "cache" /\ UNCHANGED cacheVars
  /\ \/ part = "scoring" /\ ScoringNext
     \/ part # "scoring" /\ UNCHANGED scoringVars
  /\ \/ part = "traces" /\ TraceNext
     \/ part # "traces" /\ UNCHANGED traceVars
  /\ \/ part = "sources" /\ SourcesNext
     \/ part # "sources" /\ UNCHANGED sourceVars
  /\ \/ part = "results" /\ ResultsNext
     \/ part # "results" /\ UNCHANGED resultVars

EvaluationSpec == EvaluationInit /\ [][EvaluationNext]_evaluationVars

-----------------------------------------------------------------------------
(* The instance. *)
EvalPriorities == [c1 |-> "none", c2 |-> "p2"]

KV(k, t, v) == [key |-> k, val |-> [t |-> t, v |-> v]]
MCShapes ==
  {[name |-> "llm", attrs |-> <<KV("gen_ai.system", "text", 5), KV("gen_ai.request.model", "text", 6),
      KV("gen_ai.usage.input_tokens", "int", 2), KV("gen_ai.usage.output_tokens", "digits", 1)>>],
   [name |-> "llm", attrs |-> <<KV("llm.provider", "text", 5), KV("llm.model_name", "text", 6),
      KV("llm.token_count.prompt", "int", 2), KV("gen_ai.usage.input_tokens", "int", -1)>>],
   [name |-> "tool", attrs |-> <<KV("gen_ai.tool.name", "text", 7), KV("gen_ai.response.model", "nested", 8),
      KV("", "text", 1), KV("llm.token_count.prompt", "null", 0)>>]}
MCTurns ==
  {[calls |-> c, node |-> n] :
     c \in {<< >>, <<"transfer_to_agent">>, <<"a", "transfer_to_agent">>}, n \in {1, 2}}
MCAnchors ==
  {[y |-> 1970, m |-> 1, d |-> 1, n |-> 0], [y |-> 1971, m |-> 12, d |-> 1, n |-> 699],
   [y |-> 1999, m |-> 12, d |-> 1, n |-> 10926], [y |-> 2099, m |-> 12, d |-> 1, n |-> 47451]}

MCSimLimits == {<<2, 1>>, <<0, 2>>}

MCMetrics == <<2, 0, 1>>
MCOutcomes ==
  {[total |-> 0, passed |-> 0, cost |-> 0], [total |-> 3, passed |-> 3, cost |-> 2],
   [total |-> 3, passed |-> 2, cost |-> 1], [total |-> 2, passed |-> 1, cost |-> 1]}

-----------------------------------------------------------------------------
(* A score is about what happened: the calls and turns it counts are those *)
(* of the run, recorded or read back from any trace store                  *)
(* (TrajectoryCollector, Score::aggregate, the trace providers).           *)
ScoresHonest == ScoresFit /\ TracesFaithful

(* What surrounds a run adds and hides nothing: simulated tools, generated *)
(* cases and attachments, the cache of verdicts, the sandbox, the exports, *)
(* the gate and the store of results (simulation, generation, JudgeCache,  *)
(* sandbox, training, langsmith, swink-eval).                              *)
HarnessHonest == SourcesKept /\ CacheExact /\ ResultsHonest
=============================================================================
