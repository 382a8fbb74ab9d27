---------------------------- MODULE EventProtocol ----------------------------
(***************************************************************************)
(* What a run of the agent loop promises the consumer of its event stream: *)
(* the order of the lifecycle events of AgentEvent, src/src/loop_/event.rs.*)
(* The stream may be cut anywhere (the consumer drops it), so the protocol *)
(* is a safety specification: no event ever comes out of order.            *)
(***************************************************************************)

VARIABLES
  run,   \* "idle", "running", "ended"
  turn,  \* "none", "open", "closed"
  msg,   \* message of the open turn: "none", "open", "done"
  last   \* TurnEndReason of the last closed turn, "none" before one

protocolVars == <<run, turn, msg, last>>

\* After a turn that ended for one of these reasons there is no other turn.
FinalReasons == {"Error", "Aborted", "Cancelled", "Transfer"}
Reasons == FinalReasons \cup
           {"Complete", "ReasoningOnly", "ToolsExecuted", "SteeringInterrupt"}

ProtocolInit == run = "idle" /\ turn = "none" /\ msg = "none" /\ last = "none"

AgentStart ==
  /\ run = "idle"
  /\ run' = "running" /\ UNCHANGED <<turn, msg, last>>

TurnStart ==
  /\ run = "running" /\ turn # "open" /\ last \notin FinalReasons
  /\ turn' = "open" /\ msg' = "none" /\ UNCHANGED <<run, last>>

MessageStart ==
  /\ turn = "open" /\ msg = "none"
  /\ msg' = "open" /\ UNCHANGED <<run, turn, last>>

MessageEnd ==
  /\ turn = "open" /\ msg = "open"
  /\ msg' = "done" /\ UNCHANGED <<run, turn, last>>

(* Only a turn aborted while streaming may end without a finished message. *)
TurnEnd(reason) ==
  /\ turn = "open"
  /\ msg = "done" \/ reason = "Aborted"
  /\ turn' = "closed" /\ last' = reason /\ UNCHANGED <<run, msg>>

AgentEnd ==
  /\ run = "running" /\ turn # "open"
  /\ run' = "ended" /\ UNCHANGED <<turn, msg, last>>

ProtocolNext ==
  \/ AgentStart \/ TurnStart \/ MessageStart \/ MessageEnd \/ AgentEnd
  \/ \E reason \in Reasons : TurnEnd(reason)

ProtocolSpec == ProtocolInit /\ [][ProtocolNext]_protocolVars
==============================================================================
