----------------------------- MODULE MCWorkflows -----------------------------
(***************************************************************************)
(* What must come to an end, one at a time: a behaviour is one of `part`   *)
(* (a batch of tool calls, a supervised agent, a pipeline, the connections *)
(* to MCP servers, the runs of an eval set), and the others stay in an     *)
(* initial state.                                                          *)
(***************************************************************************)
EXTENDS ToolDispatch, Orchestrator, Pipelines, McpManager, EvalRun

VARIABLE part

Parts == {"tools", "orchestrator", "pipelines", "mcp", "eval"}

workflowVars == <<part, vars, orchVars, pipelineVars, mcpVars, evalVars>>

WorkflowsInit ==
  /\ part \in Parts
  /\ McpInit
  /\ Init /\ (part # "tools" => policy = "Concurrent")
  /\ OrchInit /\ (part # "orchestrator" => ~hangs)
  /\ EvalInit /\ (part # "eval" => ~stuck)
  /\ PipelinesInit
  /\ part # "pipelines" => plan.form = "sequential" /\ plan.count = 0 /\ hung = {0} /\ ~outer

WorkflowsNext ==
  /\ UNCHANGED part
  /\ \/ part = "tools" /\ Next
     \/ part # "tools" /\ UNCHANGED vars
  /\ \/ part = "orchestrator" /\ OrchNext
     \/ part # "orchestrator" /\ UNCHANGED orchVars
  /\ \/ part = "pipelines" /\ PipelinesNext
     \/ part # "pipelines" /\ UNCHANGED pipelineVars
  /\ \/ part = "mcp" /\ McpNext
     \/ part # "mcp" /\ UNCHANGED mcpVars
  /\ \/ part = "eval" /\ EvalNext
     \/ part # "eval" /\ UNCHANGED evalVars

(* The fairness of FairSpec, OrchSpec, PipelinesSpec, McpSpec and EvalSpec, *)
(* each for the behaviours of its part.                                    *)
WorkflowsFairness ==
  /\ WF_vars(part = "tools" /\ Coordinator)
  /\ WF_orchVars(part = "orchestrator" /\ TaskSteps)
  /\ WF_orchVars(part = "orchestrator" /\ ~hangs /\ PromptReturns)
  /\ \A c \in Callers : /\ WF_orchVars(part = "orchestrator" /\ Accept(c))
                        /\ WF_orchVars(part = "orchestrator" /\ Refuse(c))
  /\ WF_pipelineVars(part = "pipelines" /\ Steps)
  /\ WF_pipelineVars(part = "pipelines" /\ Merge)
  /\ \A b \in Branches : WF_pipelineVars(part = "pipelines" /\ BranchSteps(b))
  /\ WF_mcpVars(part = "mcp" /\ ManagerSteps)
  /\ \A c \in Connections :
       /\ WF_mcpVars(part = "mcp" /\ SetupSteps(c))
       /\ WF_mcpVars(part = "mcp" /\ MonitorSteps(c))
       /\ WF_mcpVars(part = "mcp" /\ ShutdownSteps(c))
       /\ WF_mcpVars(part = "mcp" /\ DropConnection(c))
  /\ WF_evalVars(part = "eval" /\ RunnerSteps)
  /\ \A c \in Cases : WF_evalVars(part = "eval" /\ ~stuck /\ Answers(c))

WorkflowsSpec == WorkflowsInit /\ [][WorkflowsNext]_workflowVars /\ WorkflowsFairness

(* A batch of tool calls ends when its tools return and the approver       *)
(* answers, and when it is cancelled even if they never do (Coordinator).  *)
ToolBatchEnds == part = "tools" => CancelEndsBatch /\ BatchEnds

(* What ends has its due result: a pipeline's outcome is what its branches *)
(* gave under its merge strategy, an eval case passes only by its scores   *)
(* (merge_first, merge_fastest, merge_concat; EvalRunner::run_case).       *)
OutcomesEarned == OutcomeFits /\ PassEarned

(* Everything started comes to an end: batches of tool calls, requests to  *)
(* a supervised agent, pipelines, MCP services that nobody holds any more, *)
(* runs of an eval set, whatever hangs, fails, is cancelled or dropped.    *)
WorkflowsEnd == ToolBatchEnds /\ RequestsResolved /\ PipelineStops /\ NoOrphans /\ SetReturns
=============================================================================
