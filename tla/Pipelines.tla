----------------------------- MODULE Pipelines -----------------------------
(***************************************************************************)
(* One run of PipelineExecutor (patterns/src/pipeline): a sequence of      *)
(* steps, a loop over one agent, or parallel branches whose results come   *)
(* back through a channel and are merged by a strategy.  Branches are      *)
(* spawned tasks that outlive the run unless they are cancelled.           *)
(*                                                                         *)
(* Agents are numbers: step or branch i is agent i, the aggregator of a    *)
(* Custom merge is agent 0.  Prompts of the agents in `hung` never return. *)
(***************************************************************************)
EXTENDS Integers, Sequences, FiniteSets, SequencesExt

CONSTANTS MaxBranches,    \* bound on branches, steps and iterations
          Quotas          \* the values of n in Fastest { n }

ASSUME PipelinesAssumption == MaxBranches \in Nat /\ Quotas \subseteq Nat

VARIABLES plan,       \* the pipeline: [form, count, merge, quota]
          hung,       \* agents whose prompt does not return
          pipe,       \* where run() is
          pipeResult, \* what it returned
          step,       \* steps or iterations completed
          outer,      \* the caller's cancellation token
          child,      \* the token of the branches, cancelled by the merge
          branch,     \* per branch: "none", "spawned", "prompting" or "ended"
          arrived,    \* the channel: [who, ok]
          collected,  \* branches whose results the merge has taken, in order
          firstError  \* the error a First or Fastest merge would report

pipelineVars == <<plan, hung, pipe, pipeResult, step, outer, child, branch, arrived,
                  collected, firstError>>

Branches == 1 .. MaxBranches
Aggregator == 0

Plans ==
  [form : {"sequential"}, count : 0 .. MaxBranches, merge : {"none"}, quota : {0}]
  \cup [form : {"loop"}, count : 0 .. MaxBranches,
        merge : {"MaxIterations", "Condition"}, quota : {0}]
  \cup [form : {"parallel"}, count : 0 .. MaxBranches,
        merge : {"Concat", "First", "Custom"}, quota : {0}]
  \cup [form : {"parallel"}, count : 0 .. MaxBranches, merge : {"Fastest"}, quota : Quotas]

PipelinesInit ==
  /\ plan \in Plans
  /\ hung \in SUBSET (0 .. plan.count)
  /\ pipe = "begin" /\ pipeResult = "none" /\ step = 0
  /\ outer \in BOOLEAN /\ child = FALSE
  /\ branch = [b \in Branches |-> "none"]
  /\ arrived = << >> /\ collected = << >> /\ firstError = "none"

Cancelled == outer \/ child
BranchUnchanged == UNCHANGED <<child, branch, arrived, collected, firstError>>

Returns(o) == pipe' = "returned" /\ pipeResult' = o

CancelPipeline ==
  /\ ~outer /\ outer' = TRUE
  /\ UNCHANGED <<plan, hung, pipe, pipeResult, step>> /\ BranchUnchanged

-----------------------------------------------------------------------------
(* run_sequential and run_loop: the token is looked at between prompts     *)
(* only, and a step's answer is the next one's input.                      *)
BeginSteps ==
  /\ pipe = "begin" /\ plan.form # "parallel"
  /\ pipe' = "between"
  /\ UNCHANGED <<plan, hung, pipeResult, step, outer>> /\ BranchUnchanged

NextStep ==
  /\ pipe = "between" /\ step < plan.count
  /\ \/ outer /\ Returns("Cancelled")
     \/ ~outer /\ Returns("AgentNotFound")
     \/ ~outer /\ pipe' = "prompting" /\ UNCHANGED pipeResult
  /\ UNCHANGED <<plan, hung, step, outer>> /\ BranchUnchanged

StepReturns ==
  /\ pipe = "prompting" /\ step + 1 \notin hung
  /\ \/ Returns("StepFailed") /\ UNCHANGED step
     \/ /\ step' = step + 1
        /\ \/ pipe' = "between" /\ UNCHANGED pipeResult
           \/ plan.merge = "Condition" /\ Returns("Ok")
  /\ UNCHANGED <<plan, hung, outer>> /\ BranchUnchanged

StepsExhausted ==
  /\ pipe = "between" /\ step = plan.count
  /\ Returns(IF plan.merge = "Condition" THEN "MaxIterationsReached" ELSE "Ok")
  /\ UNCHANGED <<plan, hung, step, outer>> /\ BranchUnchanged

-----------------------------------------------------------------------------
(* run_parallel *)
BeginParallel ==
  /\ pipe = "begin" /\ plan.form = "parallel"
  /\ IF outer THEN Returns("Cancelled") /\ UNCHANGED branch
     ELSE /\ pipe' = "merging" /\ UNCHANGED pipeResult
          /\ branch' = [b \in Branches |-> IF b <= plan.count THEN "spawned" ELSE "none"]
  /\ UNCHANGED <<plan, hung, step, outer, child, arrived, collected, firstError>>

(* The task ends: its result, or the error that stands for a panic, is in  *)
(* the channel, which has room for one per branch, if it is still read.    *)
BranchEnds(b, r) ==
  /\ branch' = [branch EXCEPT ![b] = "ended"]
  /\ arrived' = IF pipe = "returned" THEN arrived ELSE Append(arrived, [who |-> b, is |-> r])
  /\ UNCHANGED <<plan, hung, pipe, pipeResult, step, outer, child, collected, firstError>>

BranchStarts(b) ==
  /\ branch[b] = "spawned"
  /\ \/ Cancelled /\ BranchEnds(b, "Cancelled")
     \/ ~Cancelled /\ BranchEnds(b, "AgentNotFound")
     \/ /\ ~Cancelled
        /\ branch' = [branch EXCEPT ![b] = "prompting"]
        /\ UNCHANGED <<plan, hung, pipe, pipeResult, step, outer, child, arrived,
                       collected, firstError>>

BranchReturns(b) ==
  /\ branch[b] = "prompting" /\ b \notin hung
  /\ \E r \in {"Ok", "StepFailed"} : BranchEnds(b, r)

BranchCancelled(b) ==
  branch[b] = "prompting" /\ Cancelled /\ BranchEnds(b, "Cancelled")

Merging == pipe = "merging" /\ arrived # << >>
Arrival == Head(arrived)
(* Every sender is gone. *)
Closed == pipe = "merging" /\ arrived = << >>
          /\ \A b \in Branches : branch[b] \in {"none", "ended"}

TakesArrival ==
  /\ collected' = Append(collected, Arrival.who) /\ arrived' = Tail(arrived)
  /\ UNCHANGED firstError

(* Concat and Custom wait for all and stop at the first error; nobody      *)
(* tells the other branches.                                               *)
MergeAll ==
  /\ Merging /\ plan.merge \in {"Concat", "Custom"}
  /\ IF Arrival.is = "Ok" THEN TakesArrival /\ UNCHANGED <<pipe, pipeResult>>
     ELSE Returns(Arrival.is) /\ UNCHANGED <<arrived, collected, firstError>>
  /\ UNCHANGED <<plan, hung, step, outer, child, branch>>

SkipsError ==
  /\ Arrival.is # "Ok"
  /\ firstError' = IF firstError = "none" THEN Arrival.is ELSE firstError
  /\ arrived' = Tail(arrived)
  /\ UNCHANGED <<pipe, pipeResult, child, collected>>

Wins == Returns("Ok") /\ child' = TRUE

merge_first ==
  /\ Merging /\ plan.merge = "First"
  /\ SkipsError \/ (Arrival.is = "Ok" /\ TakesArrival /\ Wins)
  /\ UNCHANGED <<plan, hung, step, outer, branch>>

\* mutant: results in the order they came
arrival_order(s) == s
(* collected.sort_by_key(index), of branches that each are there once: at  *)
(* place i is the one up to which there are i.                             *)
by_index(s) ==
  [i \in 1 .. Len(s) |->
     CHOOSE b \in Range(s) : Cardinality({x \in Range(s) : x <= b}) = i]

(* The quota is compared after a result has been taken. *)
merge_fastest ==
  /\ Merging /\ plan.merge = "Fastest"
  /\ \/ SkipsError
     \/ /\ Arrival.is = "Ok" /\ arrived' = Tail(arrived) /\ UNCHANGED firstError
        /\ LET taken == Append(collected, Arrival.who)
           IN  IF Len(taken) >= plan.quota
               THEN collected' = by_index(taken) /\ Wins
               ELSE collected' = taken /\ UNCHANGED <<pipe, pipeResult, child>>
  /\ UNCHANGED <<plan, hung, step, outer, branch>>

(* The channel is closed before the merge has what it wants; Concat and    *)
(* Custom have put each result in the slot of its branch.                  *)
BranchesDone ==
  /\ Closed
  /\ CASE plan.merge = "Concat" -> Returns("Ok")
       [] plan.merge = "Custom" -> \/ Returns("AgentNotFound")
                                   \/ pipe' = "aggregating" /\ UNCHANGED pipeResult
       [] OTHER -> Returns(IF collected # << >> THEN "Ok"
                           ELSE IF firstError # "none" THEN firstError ELSE "StepFailed")
  /\ collected' = by_index(collected)
  /\ UNCHANGED <<plan, hung, step, outer, child, branch, arrived, firstError>>

(* The aggregator's prompt does not look at the token. *)
AggregatorReturns ==
  /\ pipe = "aggregating" /\ Aggregator \notin hung
  /\ Returns("Ok") \/ Returns("StepFailed")
  /\ UNCHANGED <<plan, hung, step, outer, child, branch, arrived, collected, firstError>>

Merge == MergeAll \/ merge_first \/ merge_fastest \/ BranchesDone \/ AggregatorReturns
Steps == BeginSteps \/ NextStep \/ StepReturns \/ StepsExhausted \/ BeginParallel
BranchSteps(b) == BranchStarts(b) \/ BranchReturns(b) \/ BranchCancelled(b)

PipelinesNext ==
  \/ CancelPipeline \/ Steps \/ Merge
  \/ \E b \in Branches : BranchSteps(b)

(* The runtime polls what is ready; a prompt returns unless it hangs. *)
PipelinesFairness ==
  /\ WF_pipelineVars(Steps) /\ WF_pipelineVars(Merge)
  /\ \A b \in Branches : WF_pipelineVars(BranchSteps(b))

PipelinesSpec == PipelinesInit /\ [][PipelinesNext]_pipelineVars /\ PipelinesFairness

-----------------------------------------------------------------------------
Successes == {b \in Branches : \E i \in DOMAIN collected : collected[i] = b}

(* What a merge reports fits what the branches did, in whatever order they *)
(* ended and whatever was cancelled: steps in the order of declaration,    *)
(* all of them (Concat, Custom), or no more than asked for, fewer only     *)
(* when no branch is left (First, Fastest); and First and Fastest fail     *)
(* only when no branch has succeeded (merge_concat ... merge_custom).      *)
OutcomeFits ==
  pipe = "returned" /\ plan.form = "parallel" =>
    /\ pipeResult = "Ok" =>
         /\ \A i, j \in DOMAIN collected : i < j => collected[i] < collected[j]
         /\ plan.merge \in {"Concat", "Custom"} => Successes = 1 .. plan.count
         /\ plan.merge = "First" => Len(collected) = 1
         /\ plan.merge = "Fastest" =>
              \/ Len(collected) = plan.quota
              \/ plan.quota = 0 /\ Len(collected) = 1
              \/ Len(collected) < plan.quota /\ \A b \in Branches : branch[b] \in {"none", "ended"}
    /\ pipeResult # "Ok" /\ plan.merge \in {"First", "Fastest"} => collected = << >>

(* Nothing of a run is left behind: when its prompts return, when it is    *)
(* cancelled, and when a First or Fastest merge has its results, the run   *)
(* returns and every branch ends, even those whose agent hangs.  Steps,    *)
(* iterations and the aggregator are not raced against the token, so       *)
(* these must return by themselves (run_parallel, merge_first,             *)
(* merge_fastest).                                                         *)
MustStop ==
  \/ hung = {}
  \/ /\ plan.form = "parallel" /\ Aggregator \notin hung
     /\ outer \/ (pipeResult = "Ok" /\ plan.merge \in {"First", "Fastest"})

PipelineStops ==
  MustStop ~> (pipe = "returned" /\ \A b \in Branches : branch[b] \in {"none", "ended"})
=============================================================================
