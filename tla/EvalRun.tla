------------------------------- MODULE EvalRun -------------------------------
(***************************************************************************)
(* EvalRunner::run_set (eval/src/runner.rs): the cases of a set are joined *)
(* in one task under a semaphore, each takes its invocation from the cache *)
(* or from an agent raced with the runner's token, and is then scored      *)
(* synchronously NumRuns times, which holds up the other cases.  Runs that *)
(* follow share the cache and have a token of their own.                   *)
(***************************************************************************)
EXTENDS Naturals, Sequences, FiniteSets

CONSTANTS NumCases,         \* cases of the set
          Parallelism,      \* with_parallelism
          NumRuns,          \* with_num_runs
          MaxJudgeAttempts, \* RetryPolicy::max_attempts
          MaxSets           \* bound on the runs of the set

ASSUME EvalAssumption ==
  /\ NumCases \in Nat /\ MaxSets \in Nat
  /\ Parallelism \in Nat \ {0} /\ NumRuns \in Nat \ {0}  \* with_* panic on 0
  /\ MaxJudgeAttempts \in Nat \ {0}

Cases == 1 .. NumCases

VARIABLES sets,       \* runs of the set begun
          runOpen,    \* run_set has not returned
          runToken,   \* the runner's CancellationToken
          stage,      \* per case: "queued", "waiting", "agent", "scoring", "done"
          invocation, \* per case: "none", "genuine", or "placeholder"
          samples,    \* per case: the metric of each scoring of the evaluators
          attempt,    \* judge attempts of the sample being taken, 0 between samples
          result,     \* per case: "none", "pass" or "fail"
          store,      \* per case: the cached invocation, or "none"
          stuck       \* whether agents and judges may never answer

evalVars == <<sets, runOpen, runToken, stage, invocation, samples, attempt,
              result, store, stuck>>

Fresh(x) == [c \in Cases |-> x]

EvalInit ==
  /\ sets = 0 /\ runOpen = FALSE /\ runToken = FALSE /\ attempt = 0
  /\ stage = Fresh("queued") /\ invocation = Fresh("none")
  /\ samples = Fresh(<< >>) /\ result = Fresh("none")
  /\ store = Fresh("none") /\ stuck \in BOOLEAN

-----------------------------------------------------------------------------
(* A new runner, or the same with another token. *)
RunSet ==
  /\ ~runOpen /\ sets < MaxSets
  /\ runOpen' = TRUE /\ sets' = sets + 1
  /\ UNCHANGED <<runToken, stage, invocation, samples, attempt, result, store, stuck>>

(* Nothing but the cache outlives the future of run_set. *)
Closes ==
  /\ runOpen' = FALSE /\ runToken' = FALSE
  /\ stage' = Fresh("queued") /\ invocation' = Fresh("none")
  /\ samples' = Fresh(<< >>) /\ result' = Fresh("none")
  /\ UNCHANGED <<sets, attempt, store, stuck>>

CancelRun ==
  /\ runOpen /\ ~runToken
  /\ runToken' = TRUE
  /\ UNCHANGED <<sets, runOpen, stage, invocation, samples, attempt, result, store, stuck>>

(* The joined futures are polled one at a time, never during a scoring. *)
Polled == runOpen /\ \A c \in Cases : stage[c] # "scoring"

(* run_set's future is dropped at an await, the agents with their streams. *)
DropSet == Polled /\ Closes

-----------------------------------------------------------------------------
(* A case until its invocation is there. *)
Settle(c, verdict) ==
  /\ stage' = [stage EXCEPT ![c] = "done"]
  /\ result' = [result EXCEPT ![c] = verdict]

(* join_all polls the cases in their order at first. *)
FirstPoll(c) ==
  /\ Polled /\ stage[c] = "queued" /\ \A d \in 1 .. c - 1 : stage[d] # "queued"
  /\ IF runToken THEN Settle(c, "fail")
     ELSE stage' = [stage EXCEPT ![c] = "waiting"] /\ UNCHANGED result
  /\ UNCHANGED <<sets, runOpen, runToken, invocation, samples, attempt, store, stuck>>

Holders == {c \in Cases : stage[c] \in {"agent", "scoring"}}

(* acquire_case_permit prefers the token, which is looked at once more     *)
(* with the permit in hand.                                                *)
WaitCancelled(c) ==
  /\ Polled /\ stage[c] = "waiting" /\ runToken
  /\ Settle(c, "fail")
  /\ UNCHANGED <<sets, runOpen, runToken, invocation, samples, attempt, store, stuck>>

(* The cache: a failed read is a miss, a failed write is only logged. *)
StoreGet(c) == {store[c], "none"}
StorePut(c, inv) == {store, [store EXCEPT ![c] = inv]}

(* The semaphore serves its waiters in order.  A factory or an agent that  *)
(* refuses ends the case.                                                  *)
AcquirePermit(c) ==
  /\ Polled /\ stage[c] = "waiting" /\ ~runToken
  /\ \A d \in 1 .. c - 1 : stage[d] # "waiting"
  /\ Cardinality(Holders) < Parallelism
  /\ \E cached \in StoreGet(c) :
       \/ /\ cached # "none"
          /\ invocation' = [invocation EXCEPT ![c] = cached]
          /\ stage' = [stage EXCEPT ![c] = "scoring"]
          /\ UNCHANGED result
       \/ /\ cached = "none"
          /\ stage' = [stage EXCEPT ![c] = "agent"]
          /\ UNCHANGED <<invocation, result>>
       \/ cached = "none" /\ Settle(c, "fail") /\ UNCHANGED invocation
  /\ UNCHANGED <<sets, runOpen, runToken, samples, attempt, store, stuck>>

(* Whatever invoke_agent_impl returns is put into the cache. *)
Invoked(c, inv) ==
  /\ invocation' = [invocation EXCEPT ![c] = inv]
  /\ store' \in StorePut(c, inv)
  /\ stage' = [stage EXCEPT ![c] = "scoring"]
  /\ UNCHANGED <<sets, runOpen, runToken, samples, attempt, result, stuck>>

(* select! drops the stream, and with it the agent's request. *)
AgentCancelled(c) ==
  /\ Polled /\ stage[c] = "agent" /\ runToken
  /\ Invoked(c, "placeholder")

AgentReturns(c) ==
  /\ Polled /\ stage[c] = "agent" /\ ~runToken
  /\ Invoked(c, "genuine")

-----------------------------------------------------------------------------
(* The scoring: one metric per sample stands for those of the evaluators,  *)
(* "none" for evaluators that do not apply.                                *)
Sampling(c) == runOpen /\ stage[c] = "scoring" /\ attempt > 0

Sampled(c, metric) ==
  /\ samples' = [samples EXCEPT ![c] = Append(@, metric)]
  /\ attempt' = 0
  /\ UNCHANGED <<sets, runOpen, runToken, stage, invocation, result, store, stuck>>

BeginSample(c) ==
  /\ runOpen /\ stage[c] = "scoring" /\ attempt = 0
  /\ Len(samples[c]) < NumRuns /\ ~runToken
  /\ attempt' = 1
  /\ UNCHANGED <<sets, runOpen, runToken, stage, invocation, samples, result, store, stuck>>

(* An evaluator without a judge answers whether or not the token is set;   *)
(* a panic is turned into a failing metric.                                *)
EvaluatorAnswers(c) ==
  /\ Sampling(c)
  /\ \E metric \in {"pass", "fail", "none"} : Sampled(c, metric)

(* JudgeError::Transport is retried, and fails the metric in the end. *)
JudgeTransportError(c) ==
  /\ Sampling(c) /\ ~runToken
  /\ \/ /\ attempt < MaxJudgeAttempts /\ attempt' = attempt + 1
        /\ UNCHANGED <<sets, runOpen, runToken, stage, invocation, samples,
                       result, store, stuck>>
     \/ attempt = MaxJudgeAttempts /\ Sampled(c, "fail")

(* The attempt in flight or the backoff is given up. *)
JudgeCancelled(c) == Sampling(c) /\ runToken /\ Sampled(c, "fail")

(* scored_case_result over the aggregated metric: no metric at all fails,  *)
(* and samples that differ are settled by the evaluator's aggregator.      *)
CaseVerdicts(c) ==
  LET metrics == {samples[c][i] : i \in 1 .. Len(samples[c])} \ {"none"}
  IN  IF metrics = {} THEN {"fail"} ELSE metrics

Scored(c, verdict) ==
  /\ Settle(c, verdict)
  /\ UNCHANGED <<sets, runOpen, runToken, invocation, samples, attempt, store, stuck>>

(* The token seen before a sample adds the failing "cancelled" metric. *)
SamplesCancelled(c) ==
  /\ runOpen /\ stage[c] = "scoring" /\ attempt = 0
  /\ Len(samples[c]) < NumRuns /\ runToken
  /\ Scored(c, "fail")

FinishCase(c) ==
  /\ runOpen /\ stage[c] = "scoring" /\ Len(samples[c]) = NumRuns
  /\ \E v \in CaseVerdicts(c) : Scored(c, v)

SetReturn == runOpen /\ (\A c \in Cases : stage[c] = "done") /\ Closes

RunnerSteps ==
  \/ \E c \in Cases :
       \/ FirstPoll(c) \/ WaitCancelled(c) \/ AcquirePermit(c) \/ AgentCancelled(c)
       \/ BeginSample(c) \/ JudgeCancelled(c) \/ SamplesCancelled(c) \/ FinishCase(c)
  \/ SetReturn

Answers(c) == AgentReturns(c) \/ EvaluatorAnswers(c)

EvalNext ==
  \/ RunSet \/ CancelRun \/ DropSet \/ RunnerSteps
  \/ \E c \in Cases : Answers(c) \/ JudgeTransportError(c)

(* The task is polled when something in it is ready; an agent and an       *)
(* evaluator answer in the end unless they are stuck.                      *)
EvalFairness ==
  /\ WF_evalVars(RunnerSteps)
  /\ \A c \in Cases : WF_evalVars(~stuck /\ Answers(c))

EvalSpec == EvalInit /\ [][EvalNext]_evalVars /\ EvalFairness

-----------------------------------------------------------------------------
(* A case passes only on all of its samples, and only if one of them       *)
(* passed: cancellation at any point of the scoring, cases that wait for   *)
(* their permit meanwhile, and evaluators that do not apply never leave a  *)
(* pass behind (dispatch_evaluators, scored_case_result).                  *)
PassEarned ==
  \A c \in Cases : result[c] = "pass" =>
    /\ Len(samples[c]) = NumRuns
    /\ \E i \in 1 .. NumRuns : samples[c][i] = "pass"

(* run_set returns, and when agents and judges never answer it returns     *)
(* once its token is cancelled, the cases that wait for a permit or behind *)
(* a scoring included.                                                     *)
SetReturns == runOpen /\ (~stuck \/ runToken) ~> ~runOpen
=============================================================================
