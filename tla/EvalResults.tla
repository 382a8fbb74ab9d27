---------------------------- MODULE EvalResults ----------------------------
(***************************************************************************)
(* What the evaluation framework does at its outer end:                    *)
(*   - the sandbox that runs extracted code: a child, a thread that reaps  *)
(*     it and a parent that enforces the wall clock                        *)
(*     (evaluators/code/sandbox);                                          *)
(*   - training data made from scored traces (training.rs);                *)
(*   - the push of a result to LangSmith (report/langsmith.rs);            *)
(*   - the store of sets and results, the gate and the command line        *)
(*     (store.rs, gate.rs, bin/swink_eval.rs).                             *)
(* Record layouts, report texts and HTTP bodies are left out.              *)
(***************************************************************************)
EXTENDS Integers, Sequences, FiniteSets, SequencesExt

CONSTANTS
    TraceCases,      \* ids of cases traces belong to
    MaxTraceScore,   \* scores are 0..MaxTraceScore
    MaxTraces,       \* traces of one export (bound)
    QualityThreshold,       \* quality_threshold
    CaseMetrics,     \* metrics of each case of a pushed result, in order
    MaxExports,      \* exports of one result (bound)
    Outcomes,        \* results a run may have: [total, passed, cost]
    MinRate,         \* gate: pass rate in percent and cost; duration is
    MaxGateCost,     \*   a limit of the same form as cost
    MaxRuns,         \* runs of the command line (bound)
    Stamps           \* timestamps of stored results

ASSUME ResultsAssumption ==
    /\ MaxTraceScore \in Nat /\ MaxTraces \in Nat /\ QualityThreshold \in Nat
    /\ CaseMetrics \in Seq(Nat) /\ MaxExports \in Nat /\ MaxRuns \in Nat
    /\ MinRate \in 0..100 /\ MaxGateCost \in Nat /\ Stamps \subseteq Nat

VARIABLES
    outlet,      \* which of the four is looked at
    box,         \* the sandboxed execution
    batch,       \* the traces to export
    push,        \* the LangSmith export under way
    remote,      \* per case, the runs LangSmith has: [by, feedback]
    out,         \* the file of `swink-eval run --out`
    cli,         \* the command being executed and its exit code
    evalStore    \* FsEvalStore's files

resultVars == <<outlet, box, batch, push, remote, out, cli, evalStore>>

----------------------------------------------------------------------------
(* Sandbox *)

Fresh == [pc |-> "idle", child |-> "none", status |-> "none", said |-> "nothing",
          heir |-> FALSE, late |-> FALSE, told |-> FALSE, waiter |-> "none",
          seen |-> "none", exceeded |-> FALSE, verdict |-> "none"]

\* SandboxedExecutionEvaluator::evaluate: without code there is no metric; a
\* missing directory, command or child is a failure.
Execute ==
    /\ box.pc = "idle"
    /\ \/ box' = [box EXCEPT !.pc = "over", !.verdict = "absent"]
       \/ box' = [box EXCEPT !.pc = "over", !.verdict = "fail"]
       \/ \E heir \in BOOLEAN :
             box' = [box EXCEPT !.pc = "watching", !.child = "running",
                                !.heir = heir, !.waiter = "polling"]

Statuses == {"zero", "nonzero", "xcpu", "memory"}

ChildExits ==
    /\ box.child = "running"
    /\ \E s \in Statuses, t \in {"nothing", "fds", "memory", "network"} :
          box' = [box EXCEPT !.child = "zombie", !.status = s, !.said = t]

HeirExits == box.heir /\ box' = [box EXCEPT !.heir = FALSE]

DeadlinePasses ==
    /\ box.pc = "watching" /\ ~box.late
    /\ box' = [box EXCEPT !.late = TRUE]

\* The waiter's loop: waitpid with WNOHANG, or a blocking one once it is told.
\* The thread is finished a moment after waitpid returned.
Reap ==
    /\ box.waiter = "polling" /\ box.child = "zombie"
    /\ box' = [box EXCEPT !.child = "reaped", !.waiter = "returning",
                          !.seen = box.status]

WaiterEnds == box.waiter = "returning" /\ box' = [box EXCEPT !.waiter = "finished"]

\* wait_with_wall_clock: the parent's poll.
Watch ==
    /\ box.pc = "watching"
    /\ \/ /\ box.waiter = "finished"
          /\ box' = [box EXCEPT !.pc = "draining"]
       \/ /\ box.waiter # "finished" /\ box.late
          /\ box' = [box EXCEPT !.pc = "joining", !.exceeded = TRUE, !.told = TRUE,
                        !.child = IF @ = "running" THEN "zombie" ELSE @,
                        !.status = IF box.child = "running" THEN "killed" ELSE @]

Join ==
    /\ box.pc = "joining" /\ box.waiter = "finished"
    /\ box' = [box EXCEPT !.pc = "draining"]

\* classify: the limit a run exceeded, the most specific first (network access
\* not allowed, the default).
classify(b) ==
    IF b.exceeded THEN "wall_clock"
    ELSE IF b.seen = "xcpu" THEN "cpu"
    ELSE IF b.seen = "memory" THEN "memory"
    ELSE b.said

\* Standard error is read to its end, which an heir of the pipe can delay; then
\* the outcome is classified.
run_sandboxed_unix ==
    /\ box.pc = "draining" /\ ~box.heir
    /\ box' = [box EXCEPT !.pc = "over",
                  !.verdict = IF classify(box) # "nothing" THEN classify(box)
                              ELSE IF box.seen = "zero" THEN "pass" ELSE "fail"]

Sandboxing ==
    /\ outlet = "sandbox"
    /\ \/ Execute \/ ChildExits \/ HeirExits \/ DeadlinePasses \/ Reap
       \/ WaiterEnds \/ Watch \/ Join \/ run_sandboxed_unix
    /\ UNCHANGED <<outlet, batch, push, remote, out, cli, evalStore>>

----------------------------------------------------------------------------
(* Training data *)

Texts == {"empty", "text"}
Traces == [case : TraceCases, score : 0..MaxTraceScore, users : 0..2,
           turns : UNION {[1..n -> Texts] : n \in 0..2},
           response : {"none", "empty", "text"}]
PlainTraces == {t \in Traces : t.users = 1 /\ t.turns = <<"text">>
                               /\ t.response = "text"}

\* TrainingReporter::render hands over every case result; their content varies
\* in the first trace only.
AddTrace ==
    /\ outlet = "training"
    /\ Len(batch) < MaxTraces
    /\ \E t \in IF batch = <<>> THEN Traces ELSE PlainTraces :
          batch' = Append(batch, t)
    /\ UNCHANGED <<outlet, box, push, remote, out, cli, evalStore>>

\* build_chatml_record: system prompt, user messages
\* (an empty one when there is none), turns, then the final response where the
\* last turn is empty or missing.
build_chatml_record(t) ==
    LET head == <<[role |-> "system", content |-> "text"]>>
                \o [i \in 1..t.users |-> [role |-> "user", content |-> "text"]]
                \o (IF t.users = 0 /\ t.turns # <<>>
                    THEN <<[role |-> "user", content |-> "empty"]>> ELSE <<>>)
        said == head \o [i \in DOMAIN t.turns |->
                            [role |-> "assistant", content |-> t.turns[i]]]
        end  == said[Len(said)]
    IN  IF t.response = "none" THEN said
        ELSE IF end.role = "assistant" /\ end.content = "empty" /\ t.response # "empty"
        THEN [said EXCEPT ![Len(said)].content = t.response]
        ELSE IF end.role # "assistant"
        THEN Append(said, [role |-> "assistant", content |-> t.response])
        ELSE said

\* build_sharegpt_record: the same conversation under other role names.
Named(role) == CASE role = "system" -> "system" [] role = "user" -> "human"
                 [] OTHER -> "gpt"
build_sharegpt_record(t) ==
    LET r == build_chatml_record(t)
    IN  [i \in DOMAIN r |-> [from |-> Named(r[i].role), value |-> r[i].content]]

\* The traces an exporter takes; without one it reports NothingToExport.
Qualified(traces) == SelectSeq(traces, LAMBDA t : t.score >= QualityThreshold)

\* ChatMlExporter::export and ShareGptExporter::export: one line per trace.
chatml_export(traces) ==
    LET q == Qualified(traces) IN [i \in DOMAIN q |-> build_chatml_record(q[i])]
sharegpt_export(traces) ==
    LET q == Qualified(traces) IN [i \in DOMAIN q |-> build_sharegpt_record(q[i])]

\* DpoExporter::export: of each case with two traces or more, the first of the
\* best and the last of the worst (a stable sort by falling score).
Group(traces, c) == {i \in DOMAIN traces : traces[i].case = c}

Best(traces, g) ==
    CHOOSE i \in g : \A j \in g : \/ traces[j].score < traces[i].score
                                  \/ traces[j].score = traces[i].score /\ i <= j

Worst(traces, g) ==
    CHOOSE i \in g : \A j \in g : \/ traces[j].score > traces[i].score
                                  \/ traces[j].score = traces[i].score /\ i >= j

dpo_pairs(traces) ==
    {<<Best(traces, Group(traces, c)), Worst(traces, Group(traces, c))>> :
        c \in {d \in TraceCases : Cardinality(Group(traces, d)) >= 2}}

----------------------------------------------------------------------------
(* LangSmith *)

NewPush == [pc |-> "idle", exports |-> 0, case |-> 0, metric |-> 0, pushed |-> 0,
            failed |-> 0]

StartExport ==
    /\ push.pc \in {"idle", "failed"} /\ push.exports < MaxExports
    /\ push' = [push EXCEPT !.pc = "run", !.exports = @ + 1, !.case = 1,
                            !.metric = 1, !.pushed = 0, !.failed = 0]
    /\ UNCHANGED remote

\* A POST that is refused or lost leaves nothing, one whose answer is lost or
\* unreadable has been carried out all the same.
\* create_run: its errors end the export without a count.
create_run ==
    /\ push.pc = "run"
    /\ \/ /\ push.case > Len(CaseMetrics)
          /\ push' = [push EXCEPT !.pc = "pushed"]
          /\ UNCHANGED remote
       \/ /\ push.case <= Len(CaseMetrics)
          /\ push' = [push EXCEPT !.pc = "failed"]
          /\ UNCHANGED remote
       \/ /\ push.case <= Len(CaseMetrics)
          /\ \E answered \in BOOLEAN :
                push' = [push EXCEPT !.pc = IF answered THEN "feedback" ELSE "failed"]
          /\ remote' = [remote EXCEPT ![push.case] =
                           Append(@, [by |-> push.exports, feedback |-> <<>>])]

\* create_feedback, metric by metric, on the run just created.
create_feedback ==
    /\ push.pc = "feedback"
    /\ \/ /\ push.metric > CaseMetrics[push.case]
          /\ push' = [push EXCEPT !.pc = "run", !.case = @ + 1, !.metric = 1]
          /\ UNCHANGED remote
       \/ /\ push.metric <= CaseMetrics[push.case]
          /\ \E sent, answered \in BOOLEAN :
                /\ answered => sent
                /\ push' = IF answered THEN [push EXCEPT !.metric = @ + 1]
                           ELSE [push EXCEPT !.pc = "failed", !.pushed = push.case - 1,
                                    !.failed = Len(CaseMetrics) - (push.case - 1)]
                /\ remote' = IF sent
                             THEN [remote EXCEPT ![push.case][Len(remote[push.case])].feedback =
                                      Append(@, push.metric)]
                             ELSE remote

Pushing ==
    /\ outlet = "langsmith"
    /\ StartExport \/ create_run \/ create_feedback
    /\ UNCHANGED <<outlet, box, batch, out, cli, evalStore>>

----------------------------------------------------------------------------
(* Command line, gate, store *)

NoResult == [total |-> 0, passed |-> 0, cost |-> 0]
NewCli == [pc |-> "idle", result |-> NoResult, runs |-> 0, code |-> "none",
           judged |-> NoResult, written |-> {}]

\* run_subcommand up to the write of the result file.
RunSet ==
    /\ cli.pc = "idle" /\ cli.runs < MaxRuns
    /\ \/ cli' = [cli EXCEPT !.runs = @ + 1, !.code = "config"]
       \/ cli' = [cli EXCEPT !.runs = @ + 1, !.code = "runtime"]
       \/ \E r \in Outcomes, target \in {"write", "report"} :
             cli' = [cli EXCEPT !.runs = @ + 1, !.pc = target, !.result = r]
    /\ UNCHANGED out

\* write_result: fs::write truncates the file and writes it, not atomically; it
\* may fail or the process end in between.
write_result ==
    /\ \/ /\ cli.pc = "write"
          /\ out' = [out EXCEPT !.state = "partial"]
          /\ \/ cli' = [cli EXCEPT !.pc = "writing"]
             \/ cli' = [cli EXCEPT !.pc = "idle", !.code = "runtime"]
             \/ cli' = [cli EXCEPT !.pc = "idle", !.code = "none"]
       \/ /\ cli.pc = "writing"
          /\ out' = [state |-> "whole", result |-> cli.result]
          /\ cli' = [cli EXCEPT !.pc = "report", !.written = @ \cup {cli.result}]

\* emit_report and the code it leads to.
emit_report ==
    /\ cli.pc = "report"
    /\ \E shown \in BOOLEAN :
          cli' = [cli EXCEPT !.pc = "idle",
                     !.code = IF ~shown THEN "runtime"
                              ELSE IF cli.result.passed < cli.result.total
                                   THEN "gate_failed" ELSE "ok"]
    /\ UNCHANGED out

\* check_gate: an empty set has the full rate.
check_gate(r) ==
    /\ r.total > 0 => 100 * r.passed >= MinRate * r.total
    /\ r.cost <= MaxGateCost

\* gate_subcommand: possibly while another process is writing the file.
gate_subcommand ==
    /\ \E readable \in BOOLEAN :
          cli' = [cli EXCEPT !.judged = out.result, !.code =
                     IF out.state # "whole" \/ ~readable THEN "gate_config"
                     ELSE IF check_gate(out.result) THEN "gate_ok" ELSE "gate_failed"]
    /\ UNCHANGED out

Commanding ==
    /\ outlet = "cli"
    /\ RunSet \/ write_result \/ emit_report \/ gate_subcommand
    /\ UNCHANGED <<outlet, box, batch, push, remote, evalStore>>

NoFile == 0

\* save_set and save_result write atomically under validated names; a set placed
\* as YAML is read before the saved JSON.
save_set == \E v \in 1..2 : evalStore' = [evalStore EXCEPT !.json = v]
PlaceYaml == \E v \in 3..4 : evalStore' = [evalStore EXCEPT !.yaml = v]
load_set == evalStore' = [evalStore EXCEPT !.loaded =
                IF evalStore.yaml # NoFile THEN evalStore.yaml ELSE evalStore.json]
save_result ==
    \E t \in Stamps : evalStore' = [evalStore EXCEPT !.results = @ \cup {t}]

\* list_results: the stems that are numbers, in ascending order.
list_results ==
    evalStore' = [evalStore EXCEPT !.listed = SetToSortSeq(evalStore.results, <)]

Storing ==
    /\ outlet = "store"
    /\ save_set \/ PlaceYaml \/ load_set \/ save_result \/ list_results
    /\ UNCHANGED <<outlet, box, batch, push, remote, out, cli>>

----------------------------------------------------------------------------
ResultsInit ==
    /\ outlet \in {"sandbox", "training", "langsmith", "cli", "store"}
    /\ box = Fresh
    /\ batch = <<>>
    /\ push = NewPush
    /\ remote = [i \in DOMAIN CaseMetrics |-> <<>>]
    /\ out = [state |-> "none", result |-> NoResult]
    /\ cli = NewCli
    /\ evalStore = [json |-> NoFile, yaml |-> NoFile, loaded |-> NoFile,
                    results |-> {}, listed |-> <<>>]

ResultsNext == Sandboxing \/ AddTrace \/ Pushing \/ Commanding \/ Storing

ResultsSpec == ResultsInit /\ [][ResultsNext]_resultVars

----------------------------------------------------------------------------
(* Properties *)

\* However the child's end, the waiter, the deadline and the parent interleave,
\* the evaluation leaves no child behind, passes only a child that ended with
\* code zero before any kill, and reports a killed child as wall_clock
\* (posix.rs wait_with_wall_clock).
SandboxHonest ==
    box.waiter # "none" /\ box.pc = "over" =>
        /\ box.child = "reaped"
        /\ box.seen = box.status
        /\ box.verdict = "pass" => box.status = "zero" /\ ~box.told
        /\ box.status = "killed" => box.verdict = "wall_clock"
        /\ box.verdict = "fail" => box.status = "nonzero"

\* Whatever traces a batch holds, a preference pair has two different traces of
\* one case, none of the case better than the chosen or worse than the rejected
\* one, and every case with two qualified traces has one; a record shows every
\* user message and turn in order and, where there is a response with text, ends
\* with text of the assistant (training.rs).
TrainingFaithful ==
    LET q == Qualified(batch)
        pairs == dpo_pairs(q)
    IN  /\ \A p \in pairs :
              /\ p[1] # p[2] /\ q[p[1]].case = q[p[2]].case
              /\ \A i \in DOMAIN q : q[i].case = q[p[1]].case =>
                    q[p[2]].score <= q[i].score /\ q[i].score <= q[p[1]].score
        /\ \A i, j \in DOMAIN q : i # j /\ q[i].case = q[j].case =>
              Cardinality({p \in pairs : q[p[1]].case = q[i].case}) = 1
        /\ \E lines \in {sharegpt_export(batch)} : \A i \in DOMAIN lines :
              /\ Len(lines) = Len(q)
              /\ \A k \in DOMAIN lines[i] : lines[i][k].from = "gpt" =>
                    \E h \in 1..k - 1 : lines[i][h].from = "human" \/ q[i].turns = <<>>
        /\ q # <<>> =>
             \E t \in {q[Len(q)]} : \E r \in {chatml_export(batch)[Len(q)]} :
                /\ Cardinality({i \in DOMAIN r : r[i].role = "user" /\ r[i].content = "text"}) = t.users
                /\ t.turns # <<>> => \E i \in DOMAIN r :
                      /\ r[i].role = "user"
                      /\ \A j \in DOMAIN r : r[j].role = "assistant" => i < j
                /\ Cardinality({i \in DOMAIN r : r[i].role = "assistant"}) >= Len(t.turns)
                /\ t.response = "text" /\ (t.turns # <<>> => t.turns[Len(t.turns)] = "empty") =>
                      r[Len(r)] = [role |-> "assistant", content |-> "text"]

\* A push that succeeds has one run per case of its own with every metric once
\* and in order, also after earlier exports failed half way; one that fails at a
\* feedback counts as pushed exactly the cases that are complete (langsmith.rs).
PushCounted ==
    LET complete(i) == \E k \in DOMAIN remote[i] :
                          /\ remote[i][k].by = push.exports
                          /\ remote[i][k].feedback = [m \in 1..CaseMetrics[i] |-> m]
    IN  /\ push.pc = "pushed" =>
             \A i \in DOMAIN CaseMetrics :
                /\ complete(i)
                /\ Cardinality({k \in DOMAIN remote[i] : remote[i][k].by = push.exports}) = 1
        /\ push.pc = "failed" /\ push.failed > 0 =>
             /\ push.pushed + push.failed = Len(CaseMetrics)
             /\ \A i \in 1..push.pushed : complete(i)

\* The gate passes only on a result that some run wrote completely, one with the
\* required rate and cost, even if a run is writing or has died meanwhile; a run
\* that exits with zero had no failing case (swink_eval.rs, gate.rs).
GateSound ==
    /\ cli.code = "gate_ok" =>
         /\ cli.judged \in cli.written
         /\ cli.judged.total - cli.judged.passed < cli.judged.total
              \/ cli.judged.total = 0 \/ MinRate = 0
         /\ cli.judged.cost <= MaxGateCost
    /\ cli.code = "ok" /\ cli.pc = "idle" => cli.result.passed = cli.result.total

\* A listing shows results that were saved, each once and ascending (store.rs).
StoreReads ==
    /\ ToSet(evalStore.listed) \subseteq evalStore.results
    /\ \A i, j \in DOMAIN evalStore.listed : i < j => evalStore.listed[i] < evalStore.listed[j]

\* All of the above: what leaves the framework is what was measured.
ResultsHonest ==
    SandboxHonest /\ TrainingFaithful /\ PushCounted /\ GateSound /\ StoreReads
=============================================================================
