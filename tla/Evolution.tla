----------------------------- MODULE Evolution -----------------------------
(***************************************************************************)
(* The optimisation cycles of src/evolve: baseline, diagnosis, mutation,   *)
(* evaluation, acceptance gate, persistence, and the target the accepted   *)
(* candidates change.  Scores are small integers, a value of a component   *)
(* is a name, and what an evaluation set returns is the environment's      *)
(* choice: one metric per case, with the component the failing evaluator   *)
(* points at.                                                              *)
(***************************************************************************)
EXTENDS Integers, Sequences, FiniteSets, SequencesExt, FiniteSetsExt

CONSTANTS
  CasePriority,    \* eval case -> "none", "p1", "p2"; the cases of the set
  Values,          \* values strategies propose; the original is "original"
  MaxCost,         \* CycleBudget::max_cost
  Threshold,       \* acceptance_threshold, on the sum of the scores
  MaxWeakPoints,   \* max_weak_points
  Strategies,      \* number of mutation strategies
  Cycles           \* run_cycles(max)

Cases == DOMAIN CasePriority
Components == {"full_prompt", "tool"}
PassMark == 1
Scores == 0..3

VARIABLES
  target,      \* component -> value
  spent,       \* CycleBudget::spent
  cycle,       \* cycle_number, 0 before the first
  phase,       \* "idle", "baseline", "mutation", "evaluation", "gate", "persist", "done", "failed"
  snapshot,    \* BaselineSnapshot: case -> [value, blames]
  weak,        \* weak points still to mutate, worst first, with the strategies left
  candidates,  \* all_candidates
  evaluated,   \* CandidateResults
  acceptance,  \* what the gate said
  status,      \* CycleStatus
  manifests    \* cycle -> [there, entries]: what load_history finds

evolveVars == <<target, spent, cycle, phase, snapshot, weak, candidates, evaluated, acceptance, status, manifests>>

NoAcceptance == [applied |-> <<>>, accepted_not_applied |-> <<>>, rejected |-> <<>>]
is_exhausted == spent >= MaxCost
Aggregate(results) == MapThenSumSet(LAMBDA c : results[c].value, Cases)   \* aggregate_from_results, over n
-----------------------------------------------------------------------------
(* Diagnosis: failing metrics grouped by component, worst group first.     *)
component_for_evaluator(metric) == IF metric.blames = "tool" THEN "tool" ELSE "full_prompt"

Failures(results, comp) ==
  {c \in Cases : results[c].value < PassMark /\ component_for_evaluator(results[c]) = comp}
Severity(results, comp) == MapThenSumSet(LAMBDA c : PassMark - results[c].value, Failures(results, comp))

\* Equal severities come in either order: the groups are a HashMap's.
diagnose(results) ==
  LET weakpoints == {comp \in Components : Failures(results, comp) # {}}
  IN  {SubSeq(q, 1, IF Len(q) < MaxWeakPoints THEN Len(q) ELSE MaxWeakPoints) :
         q \in {r \in SetToSeqs(weakpoints) : \A i, j \in DOMAIN r :
                  i < j => Severity(results, r[i]) >= Severity(results, r[j])}}
-----------------------------------------------------------------------------
(* Candidates: identified by the text alone, whatever they would change.   *)
deduplicate(all, original) ==
  LET kept == SelectSeq([n \in DOMAIN all |-> [all[n] EXCEPT !.first = \A m \in 1..n - 1 : all[m].value # all[n].value]],
                        LAMBDA c : c.first /\ c.value # original)
  IN  kept
-----------------------------------------------------------------------------
(* The gate.                                                               *)
\* Mutant: only a case marked so is protected.
is_p1_marked(c) == CasePriority[c] = "p1"

\* Anything but an explicit p2 or p3 is protected.
is_p1(c) == CasePriority[c] \notin {"p2", "p3"}

Passes(results, c) == results[c].value >= PassMark

Verdict(cr) ==
  LET improvement == Aggregate(cr.results) - Aggregate(snapshot)
  IN  CASE improvement <= 0 -> "NoImprovement"
        [] improvement > 0 /\ improvement < Threshold -> "BelowThreshold"
        [] OTHER -> IF \E c \in Cases : is_p1(c) /\ Passes(snapshot, c) /\ ~Passes(cr.results, c)
                    THEN "P1Regression" ELSE "Accepted"

\* A stable sort by improvement, best first.
Ranked(crs) ==
  LET most == Cardinality(Cases) * Max(Scores)
  IN  FlattenSeq([k \in 1..most |-> SelectSeq(crs, LAMBDA r : Aggregate(r.results) = most - k + 1)])

gate_evaluate ==
  LET ranked == Ranked(SelectSeq(evaluated, LAMBDA r : Verdict(r) = "Accepted"))
      fresh(n) == \A m \in 1..n - 1 : ranked[m].component # ranked[n].component
      part(P(_)) == [i \in 1..Cardinality({n \in DOMAIN ranked : P(n)}) |->
                       ranked[CHOOSE n \in DOMAIN ranked : P(n) /\ Cardinality({m \in 1..n : P(m)}) = i]]
  IN  [applied |-> part(fresh), accepted_not_applied |-> part(LAMBDA n : ~fresh(n)),
       rejected |-> SelectSeq(evaluated, LAMBDA r : Verdict(r) # "Accepted")]
-----------------------------------------------------------------------------
EvolveInit ==
  /\ target = [c \in Components |-> "original"]
  /\ spent = 0 /\ cycle = 0 /\ phase = "idle" /\ status = "none"
  /\ snapshot = <<>> /\ weak = <<>> /\ candidates = <<>> /\ evaluated = <<>>
  /\ acceptance = NoAcceptance
  /\ manifests = [n \in 1..Cycles |-> [there |-> FALSE, entries |-> <<>>]]

Finish(s) == phase' = "done" /\ status' = s

\* run_cycle() begins.
BeginCycle ==
  /\ phase = "idle" /\ cycle < Cycles
  /\ cycle' = cycle + 1
  /\ snapshot' = <<>> /\ weak' = <<>> /\ candidates' = <<>> /\ evaluated' = <<>> /\ acceptance' = NoAcceptance
  /\ IF is_exhausted THEN Finish("BudgetExhausted") ELSE phase' = "baseline" /\ status' = status
  /\ UNCHANGED <<target, spent, manifests>>

\* The evaluation set over the factory's own agents, then the diagnosis.
Baseline(results) ==
  /\ phase = "baseline"
  /\ snapshot' = results
  /\ spent' = spent + 1
  /\ \E points \in diagnose(results) :
       IF spent + 1 >= MaxCost THEN Finish("BudgetExhausted") /\ UNCHANGED weak
       ELSE IF points = <<>> THEN Finish("NoDiagnosis") /\ UNCHANGED weak
       ELSE /\ phase' = "mutation" /\ status' = status
            /\ weak' = [n \in DOMAIN points |-> [component |-> points[n], left |-> Strategies]]
  /\ UNCHANGED <<target, cycle, candidates, evaluated, acceptance, manifests>>

\* One strategy on one weak point: candidates, or an error or panic noted as
\* none.  What the strategy spends on its judge it records itself.
Mutate(proposed, cost) ==
  /\ phase = "mutation" /\ weak # <<>>
  /\ LET point == Head(weak)
         original == target[point.component]
         offered == [n \in DOMAIN proposed |-> [component |-> point.component, value |-> proposed[n], first |-> TRUE]]
         all == candidates \o offered
         ended == spent + cost >= MaxCost
     IN  /\ spent' = spent + cost
         /\ candidates' = IF point.left = 1 \/ ended THEN deduplicate(all, original) ELSE all
         /\ weak' = IF point.left = 1 THEN Tail(weak) ELSE [weak EXCEPT ![1].left = @ - 1]
         /\ IF ended THEN Finish("BudgetExhausted") ELSE UNCHANGED <<phase, status>>
  /\ UNCHANGED <<target, cycle, snapshot, evaluated, acceptance, manifests>>

EndMutation ==
  /\ phase = "mutation" /\ weak = <<>>
  /\ IF candidates = <<>> THEN Finish("NoImprovements") ELSE phase' = "evaluation" /\ UNCHANGED status
  /\ UNCHANGED <<target, spent, cycle, snapshot, weak, candidates, evaluated, acceptance, manifests>>

Unevaluated == Len(evaluated) < Len(candidates) /\ ~is_exhausted

\* The set again, with the candidate in place of what it would change.
EvaluateCandidate(results) ==
  /\ phase = "evaluation" /\ Unevaluated
  /\ LET c == candidates[Len(evaluated) + 1]
     IN  evaluated' = Append(evaluated, [component |-> c.component, value |-> c.value, results |-> results])
  /\ spent' = spent + 1
  /\ UNCHANGED <<target, cycle, phase, snapshot, weak, candidates, acceptance, status, manifests>>

\* An evaluation set that fails ends run_cycles with its error.
EvaluationFails ==
  /\ phase = "baseline" \/ (phase = "evaluation" /\ Unevaluated)
  /\ phase' = "failed"
  /\ UNCHANGED <<target, spent, cycle, snapshot, weak, candidates, evaluated, acceptance, status, manifests>>

Gate ==
  /\ phase = "evaluation" /\ ~Unevaluated
  /\ acceptance' = gate_evaluate
  /\ phase' = "persist"
  /\ UNCHANGED <<target, spent, cycle, snapshot, weak, candidates, evaluated, status, manifests>>

Entries ==
  LET noted(seq, v) == [n \in DOMAIN seq |-> [component |-> seq[n].component, value |-> seq[n].value, verdict |-> v]]
  IN  noted(acceptance.applied, "Accepted") \o noted(acceptance.accepted_not_applied, "AcceptedNotApplied")
      \o noted(acceptance.rejected, "Rejected")

\* persist(): the configurations, then the manifest in one write; an error
\* anywhere loses the rest and is dropped, and a write cut short leaves the
\* first lines (load_history skips a line it cannot parse).
Persist(there, lines) ==
  /\ phase = "persist"
  /\ manifests' = [manifests EXCEPT ![cycle] = [there |-> there, entries |-> SubSeq(Entries, 1, lines)]]
  /\ Finish(IF acceptance.applied = <<>> /\ acceptance.accepted_not_applied = <<>> THEN "NoImprovements" ELSE "Complete")
  /\ UNCHANGED <<target, spent, cycle, snapshot, weak, candidates, evaluated, acceptance>>

\* What a candidate changes: the whole prompt, or one tool's description.
apply_candidate_to_target(t, r) == [t EXCEPT ![r.component] = r.value]

\* Every applied candidate, and the next cycle unless this one says stop.
NextCycle ==
  /\ phase = "done" /\ status = "Complete"
  /\ target' = FoldLeft(apply_candidate_to_target, target, acceptance.applied)
  /\ phase' = "idle"
  /\ UNCHANGED <<spent, cycle, snapshot, weak, candidates, evaluated, acceptance, status, manifests>>

EvolveNext ==
  \/ BeginCycle \/ EndMutation \/ EvaluationFails \/ Gate \/ NextCycle
  \/ \E results \in [Cases -> [value : Scores, blames : {"tool", "prompt"}]] : Baseline(results)
  \/ \E proposed \in {<<>>} \cup {<<v>> : v \in Values} \cup {<<v, w>> : v, w \in Values}, cost \in {0, 1} : Mutate(proposed, cost)
  \/ \E results \in [Cases -> [value : Scores, blames : {"prompt"}]] : EvaluateCandidate(results)
  \/ \E lines \in 0..Len(evaluated) : Persist(TRUE, lines)
  \/ Persist(FALSE, 0)

EvolveSpec == EvolveInit /\ [][EvolveNext]_evolveVars
\* Cycles in order, those whose manifest is there.
load_history == [n \in {m \in 1..cycle : manifests[m].there} |-> manifests[n].entries]
-----------------------------------------------------------------------------
(* Changes are earned and paid for: what a cycle applies beats that        *)
(* cycle's baseline by the threshold, breaks no protected case it passed,  *)
(* is one per component and the best of those accepted for it, and changes *)
(* something; nothing is spent once the budget is; and a manifest read     *)
(* back after a failed or torn write claims nothing the gate did not say.  *)
ChangesEarned ==
  /\ \A r \in ToSet(acceptance.applied) :
       /\ Aggregate(r.results) >= Aggregate(snapshot) + Threshold
       /\ \A c \in Cases : CasePriority[c] # "p2" /\ snapshot[c].value >= PassMark => r.results[c].value >= PassMark
       /\ \A s \in ToSet(acceptance.applied) \cup ToSet(acceptance.accepted_not_applied) :
            s.component = r.component => Aggregate(s.results) <= Aggregate(r.results)
       /\ r.value # target[r.component] \/ phase = "idle"
  /\ \A i, j \in DOMAIN acceptance.applied :
       i # j => acceptance.applied[i].component # acceptance.applied[j].component
  /\ spent <= MaxCost
  /\ phase \in {"baseline", "mutation"} => ~is_exhausted
  /\ cycle \in DOMAIN load_history => IsPrefix(load_history[cycle], Entries)
=============================================================================
