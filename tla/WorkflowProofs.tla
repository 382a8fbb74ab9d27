--------------------------- MODULE WorkflowProofs ---------------------------
(***************************************************************************)
(* Proofs about what comes to an end, for any sizes: the MCP connections   *)
(* shut down leave nothing running or unreported, what a pipeline merges   *)
(* fits what its branches gave, an eval case passes only by its samples,   *)
(* and the requests to a judge stay within its policies and tokens.        *)
(***************************************************************************)
EXTENDS MCWorkflows, Judges, FiniteSetTheorems, TLAPS

ServiceType ==
  /\ service \in [Connections -> {"none", "handshake", "up", "closed", "gone"}]
  /\ monitor \in [Connections -> {"none", "waiting", "woken", "emit", "aborting", "ended"}]
  /\ state \in [Connections -> SUBSET {"live", "peer", "handle"}]
PhaseType ==
  /\ setup \in [Connections -> {"none", "begin", "discover", "failed", "spawned", "stored",
                                "ready", "dropped"}]
  /\ shut \in [Connections -> {"none", "begin", "await", "emit", "returned"}]
  /\ toolCall \in [Connections -> {"none", "sent", "done"}]
ReportType ==
  /\ wasLive \in [Connections -> BOOLEAN]
  /\ told \in [Connections -> [up : Nat, down : Nat]]
ManagerType ==
  /\ manager \in [pc : {"idle", "shutdown", "connect", "collision", "dropped"},
                  round : 0 .. MaxRounds]
  /\ manager.pc = "shutdown" => manager.round < MaxRounds
  /\ listed \subseteq Connections /\ lent \subseteq Connections

(* Connections, reports and the manager hold values the code's types allow. *)
McpType == ServiceType /\ PhaseType /\ ReportType /\ ManagerType

(* The strengthening for ShutdownComplete.  The manager has begun only the *)
(* connections of its rounds, lists those that are ready, and shuts down   *)
(* no other ...                                                            *)
RoundsBegun ==
  /\ \A c \in Connections : setup[c] # "none" => c[2] <= manager.round
  /\ \A c \in listed : setup[c] = "ready"
ShutReady ==
  \A c \in Connections :
    /\ shut[c] # "none" => setup[c] \in {"ready", "dropped"}
    /\ shut[c] \in {"begin", "await", "emit"} => setup[c] = "ready"
(* ... a service lives as long as the monitor that owns it waits ...       *)
MonitorOwns ==
  \A c \in Connections :
    /\ setup[c] \in {"none", "begin", "discover", "failed"} <=> monitor[c] = "none"
    /\ setup[c] = "none" => service[c] = "none"
    /\ monitor[c] \in {"woken", "emit", "ended"} => service[c] = "gone"
(* ... its handle is there for a shutdown that has not yet taken the lock, *)
(* unless the monitor has been at the lock first; afterwards the state is  *)
(* empty, and what the monitor still does is what shutdown waits for ...   *)
HandleKept ==
  \A c \in Connections :
    /\ setup[c] \in {"stored", "ready"} /\ shut[c] \in {"none", "begin"}
         /\ monitor[c] \in {"waiting", "woken"} => "handle" \in state[c]
    /\ monitor[c] = "aborting" => shut[c] \notin {"none", "begin"} \/ setup[c] = "dropped"
    /\ shut[c] \in {"await", "emit", "returned"} => state[c] = {}
    /\ shut[c] = "await" => monitor[c] \in {"aborting", "woken", "emit", "ended"}
    /\ shut[c] \in {"emit", "returned"} => monitor[c] \in {"emit", "ended"}
(* ... and an end is reported by the monitor that saw it or by shutdown.   *)
EndReported ==
  \A c \in Connections :
    /\ monitor[c] = "ended" =>
         told[c].down > 0 \/ shut[c] \notin {"none", "begin"} \/ setup[c] = "dropped"
    /\ shut[c] = "await" => wasLive[c]
    /\ shut[c] = "emit" /\ monitor[c] = "ended" => wasLive[c] \/ told[c].down > 0
    /\ shut[c] = "returned" /\ monitor[c] = "ended" => told[c].down > 0
ShutdownSafe == RoundsBegun /\ ShutReady /\ MonitorOwns /\ HandleKept /\ EndReported

(* The types are kept.                                                     *)
THEOREM McpTypeCorrect == McpSpec => []McpType
<1>1. McpInit => McpType
  BY McpAssumption DEF McpInit, McpType, ServiceType, PhaseType, ReportType,
     ManagerType, Told, ManagerAt
<1>2. McpType /\ [McpNext]_mcpVars => McpType'
  <2> SUFFICES ASSUME McpType, [McpNext]_mcpVars PROVE McpType'
    OBVIOUS
  <2>1. ASSUME NEW c \in Connections, Handshake(c) PROVE McpType'
    <3>1. ServiceType'
      BY <2>1, McpAssumption DEF McpType, Handshake, Put, ManagerUnchanged,
         ServiceType, PhaseType, ReportType, ManagerType
    <3>2. PhaseType'
      BY <2>1, McpAssumption DEF McpType, Handshake, Put, ManagerUnchanged,
         PhaseType, ServiceType, ReportType, ManagerType
    <3> QED BY <2>1, <3>1, <3>2 DEF McpType, Handshake, ManagerUnchanged,
       ReportType, ManagerType
  <2>2. ASSUME NEW c \in Connections, DiscoverTools(c) PROVE McpType'
    <3>1. ServiceType'
      <4>1. {"live", "peer"} \in SUBSET {"live", "peer", "handle"}
        OBVIOUS
      <4>2. state' = state \/ state' = [state EXCEPT ![c] = {"live", "peer"}]
        BY <2>2 DEF DiscoverTools, Put
      <4>3. state' \in [Connections -> SUBSET {"live", "peer", "handle"}]
        BY <4>1, <4>2 DEF McpType, ServiceType
      <4> QED BY <2>2, <4>3 DEF DiscoverTools, Put, McpType, ServiceType
    <3>2. PhaseType'
      BY <2>2, McpAssumption DEF McpType, DiscoverTools, Put,
         ManagerUnchanged, PhaseType, ServiceType, ReportType, ManagerType
    <3> QED BY <2>2, <3>1, <3>2 DEF McpType, DiscoverTools, ManagerUnchanged,
       ReportType, ManagerType
  <2>3. ASSUME NEW c \in Connections, StoreHandle(c) PROVE McpType'
    <3>1. ServiceType'
      BY <2>3, McpAssumption DEF McpType, StoreHandle, Put, ManagerUnchanged,
         ServiceType, PhaseType, ReportType, ManagerType
    <3>2. PhaseType'
      BY <2>3, McpAssumption DEF McpType, StoreHandle, Put, ManagerUnchanged,
         PhaseType, ServiceType, ReportType, ManagerType
    <3> QED BY <2>3, <3>1, <3>2 DEF McpType, StoreHandle, ManagerUnchanged,
       ReportType, ManagerType
  <2>4. ASSUME NEW c \in Connections, EmitConnected(c) PROVE McpType'
    <3>1. PhaseType'
      BY <2>4, McpAssumption DEF McpType, EmitConnected, Put, Told,
         ManagerUnchanged, PhaseType, ServiceType, ReportType, ManagerType
    <3>2. ReportType'
      BY <2>4, McpAssumption DEF McpType, EmitConnected, Put, Told,
         ManagerUnchanged, ReportType, ServiceType, PhaseType, ManagerType
    <3> QED BY <2>4, <3>1, <3>2 DEF McpType, EmitConnected, ManagerUnchanged,
       ServiceType, ManagerType
  <2>5. ASSUME NEW c \in Connections, MonitorWakes(c) PROVE McpType'
    <3>1. ServiceType'
      BY <2>5, McpAssumption DEF McpType, MonitorWakes, Put, ManagerUnchanged,
         ServiceType, PhaseType, ReportType, ManagerType
    <3> QED BY <2>5, <3>1 DEF McpType, MonitorWakes, ManagerUnchanged,
       PhaseType, ReportType, ManagerType
  <2>6. ASSUME NEW c \in Connections, MonitorLock(c) PROVE McpType'
    <3>1. ServiceType'
      BY <2>6, McpAssumption DEF McpType, MonitorLock, Put, ManagerUnchanged,
         ServiceType, PhaseType, ReportType, ManagerType
    <3> QED BY <2>6, <3>1 DEF McpType, MonitorLock, ManagerUnchanged,
       PhaseType, ReportType, ManagerType
  <2>7. ASSUME NEW c \in Connections, MonitorEmit(c) PROVE McpType'
    <3>1. ServiceType'
      BY <2>7, McpAssumption DEF McpType, MonitorEmit, Put, Told,
         ManagerUnchanged, ServiceType, PhaseType, ReportType, ManagerType
    <3>2. ReportType'
      BY <2>7, McpAssumption DEF McpType, MonitorEmit, Put, Told,
         ManagerUnchanged, ReportType, ServiceType, PhaseType, ManagerType
    <3> QED BY <2>7, <3>1, <3>2 DEF McpType, MonitorEmit, ManagerUnchanged,
       PhaseType, ManagerType
  <2>8. ASSUME NEW c \in Connections, MonitorAborted(c) PROVE McpType'
    <3>1. ServiceType'
      BY <2>8, McpAssumption DEF McpType, MonitorAborted, Put,
         ManagerUnchanged, ServiceType, PhaseType, ReportType, ManagerType
    <3> QED BY <2>8, <3>1 DEF McpType, MonitorAborted, ManagerUnchanged,
       PhaseType, ReportType, ManagerType
  <2>9. ASSUME NEW c \in Connections, ShutdownLock(c) PROVE McpType'
    <3>1. ServiceType'
      BY <2>9, McpAssumption DEF McpType, ShutdownLock, Put, Abort,
         ManagerUnchanged, ServiceType, PhaseType, ReportType, ManagerType
    <3>2. PhaseType'
      BY <2>9, McpAssumption DEF McpType, ShutdownLock, Put, Abort,
         ManagerUnchanged, PhaseType, ServiceType, ReportType, ManagerType
    <3>3. ReportType'
      BY <2>9, McpAssumption DEF McpType, ShutdownLock, Put, Abort,
         ManagerUnchanged, ReportType, ServiceType, PhaseType, ManagerType
    <3> QED BY <2>9, <3>1, <3>2, <3>3 DEF McpType, ShutdownLock,
       ManagerUnchanged, ManagerType
  <2>10. ASSUME NEW c \in Connections, ShutdownAwait(c) PROVE McpType'
    <3>1. PhaseType'
      BY <2>10, McpAssumption DEF McpType, ShutdownAwait, Put,
         ManagerUnchanged, PhaseType, ServiceType, ReportType, ManagerType
    <3> QED BY <2>10, <3>1 DEF McpType, ShutdownAwait, ManagerUnchanged,
       ServiceType, ReportType, ManagerType
  <2>11. ASSUME NEW c \in Connections, ShutdownEmit(c) PROVE McpType'
    <3>1. PhaseType'
      BY <2>11, McpAssumption DEF McpType, ShutdownEmit, Put, Told,
         ManagerUnchanged, PhaseType, ServiceType, ReportType, ManagerType
    <3>2. ReportType'
      BY <2>11, McpAssumption DEF McpType, ShutdownEmit, Put, Told,
         ManagerUnchanged, ReportType, ServiceType, PhaseType, ManagerType
    <3> QED BY <2>11, <3>1, <3>2 DEF McpType, ShutdownEmit, ManagerUnchanged,
       ServiceType, ManagerType
  <2>12. ASSUME NEW c \in Connections, ServiceCloses(c) PROVE McpType'
    <3>1. ServiceType'
      BY <2>12, McpAssumption DEF McpType, ServiceCloses, Put,
         ManagerUnchanged, ServiceType, PhaseType, ReportType, ManagerType
    <3> QED BY <2>12, <3>1 DEF McpType, ServiceCloses, ManagerUnchanged,
       PhaseType, ReportType, ManagerType
  <2>13. ASSUME NEW c \in Connections, DropConnection(c) PROVE McpType'
    <3>1. ServiceType'
      BY <2>13, McpAssumption DEF McpType, DropConnection, Put, Abort,
         ManagerUnchanged, ServiceType, PhaseType, ReportType, ManagerType
    <3>2. PhaseType'
      BY <2>13, McpAssumption DEF McpType, DropConnection, Put, Abort,
         ManagerUnchanged, PhaseType, ServiceType, ReportType, ManagerType
    <3> QED BY <2>13, <3>1, <3>2 DEF McpType, DropConnection,
       ManagerUnchanged, ReportType, ManagerType
  <2>14. ASSUME NEW c \in Connections, CallTool(c) PROVE McpType'
    <3>1. PhaseType'
      BY <2>14, McpAssumption DEF McpType, CallTool, Put, ManagerUnchanged,
         PhaseType, ServiceType, ReportType, ManagerType
    <3> QED BY <2>14, <3>1 DEF McpType, CallTool, ManagerUnchanged,
       ServiceType, ReportType, ManagerType
  <2>15. ASSUME NEW c \in Connections, CallReturns(c) PROVE McpType'
    <3>1. PhaseType'
      BY <2>15, McpAssumption DEF McpType, CallReturns, Put, ManagerUnchanged,
         PhaseType, ServiceType, ReportType, ManagerType
    <3> QED BY <2>15, <3>1 DEF McpType, CallReturns, ManagerUnchanged,
       ServiceType, ReportType, ManagerType
  <2>16. CASE ManagerShutdown
    <3>1. PhaseType'
      BY <2>16, McpAssumption DEF McpType, ManagerShutdown, ShutNext, Put,
         ManagerAt, PhaseType, ServiceType, ReportType, ManagerType
    <3>2. ManagerType'
      <4>1. \/ UNCHANGED <<manager, listed, lent>>
            \/ /\ manager' = ManagerAt("connect", manager.round + 1)
               /\ listed' = {} /\ UNCHANGED lent
        BY <2>16 DEF ManagerShutdown, ShutNext
      <4>2. manager.round + 1 \in 0 .. MaxRounds
        BY <2>16, McpAssumption DEF ManagerShutdown, McpType, ManagerType
      <4> QED BY <4>1, <4>2 DEF ManagerAt, McpType, ManagerType
    <3> QED BY <2>16, <3>1, <3>2 DEF McpType, ManagerShutdown, ShutNext,
       ServiceType, ReportType
  <2>17. CASE CollectTools
    <3>1. ManagerType'
      <4>1. Ready \subseteq Connections
        BY DEF Ready, Current
      <4> QED BY <2>17, <4>1, McpAssumption DEF CollectTools, ManagerAt,
         McpType, ManagerType
    <3> QED BY <2>17, <3>1 DEF McpType, CollectTools, ServiceType, PhaseType,
       ReportType
  <2>18. CASE Collision
    <3>1. PhaseType'
      BY <2>18, McpAssumption DEF McpType, Collision, ShutNext, Put,
         ManagerAt, PhaseType, ServiceType, ReportType, ManagerType
    <3>2. ManagerType'
      BY <2>18, McpAssumption DEF McpType, Collision, ShutNext, Put,
         ManagerAt, ManagerType, ServiceType, PhaseType, ReportType
    <3> QED BY <2>18, <3>1, <3>2 DEF McpType, Collision, ShutNext,
       ServiceType, ReportType
  <2>19. CASE ConnectAll
    <3>1. ManagerType'
      BY <2>19, McpAssumption DEF McpType, ConnectAll, ManagerAt, ManagerType,
         ServiceType, PhaseType, ReportType
    <3> QED BY <2>19, <3>1 DEF McpType, ConnectAll, ServiceType, PhaseType,
       ReportType
  <2>20. CASE DropManager
    <3>1. ManagerType'
      BY <2>20, McpAssumption DEF McpType, DropManager, ManagerAt,
         ManagerType, ServiceType, PhaseType, ReportType
    <3> QED BY <2>20, <3>1 DEF McpType, DropManager, ServiceType, PhaseType,
       ReportType
  <2>21. CASE LendTools
    <3>1. ManagerType'
      BY <2>21, McpAssumption DEF McpType, LendTools, ManagerType,
         ServiceType, PhaseType, ReportType
    <3> QED BY <2>21, <3>1 DEF McpType, LendTools, ServiceType, PhaseType,
       ReportType
  <2>22. CASE AgentLeaves
    <3>1. ManagerType'
      BY <2>22, McpAssumption DEF McpType, AgentLeaves, ManagerType,
         ServiceType, PhaseType, ReportType
    <3> QED BY <2>22, <3>1 DEF McpType, AgentLeaves, ServiceType, PhaseType,
       ReportType
  <2>23. CASE UNCHANGED mcpVars
    BY <2>23 DEF mcpVars, McpType, ServiceType, PhaseType, ReportType,
       ManagerType
  <2> QED BY <2>1, <2>2, <2>3, <2>4, <2>5, <2>6, <2>7, <2>8, <2>9, <2>10,
     <2>11, <2>12, <2>13, <2>14, <2>15, <2>16, <2>17, <2>18, <2>19, <2>20,
     <2>21, <2>22, <2>23 DEF McpNext, SetupSteps, MonitorSteps, ShutdownSteps,
     ManagerSteps
<1> QED BY <1>1, <1>2, PTL DEF McpSpec

(* A shutdown that returned is complete, whatever the monitor, the agent's *)
(* tools and the other connections were doing.                             *)
THEOREM ShutdownsComplete == McpSpec => []ShutdownComplete
<1>1. McpInit => ShutdownSafe
  BY McpAssumption DEF McpInit, ShutdownSafe, RoundsBegun, ShutReady,
     MonitorOwns, HandleKept, EndReported, ManagerAt
<1>2. McpType /\ ShutdownSafe /\ [McpNext]_mcpVars => ShutdownSafe'
  <2> SUFFICES ASSUME McpType, ShutdownSafe, [McpNext]_mcpVars PROVE ShutdownSafe'
    OBVIOUS
  <2>1. ASSUME NEW c \in Connections, Handshake(c) PROVE ShutdownSafe'
    <3>1. RoundsBegun'
      BY <2>1 DEF ShutdownSafe, Handshake, Put, ManagerUnchanged, RoundsBegun,
         McpType, ServiceType, PhaseType, ReportType, ManagerType
    <3>2. ShutReady'
      BY <2>1 DEF ShutdownSafe, Handshake, Put, ManagerUnchanged, ShutReady,
         McpType, ServiceType, PhaseType, ReportType, ManagerType
    <3>3. MonitorOwns'
      BY <2>1 DEF ShutdownSafe, Handshake, Put, ManagerUnchanged, MonitorOwns,
         McpType, ServiceType, PhaseType, ReportType, ManagerType
    <3>4. HandleKept'
      BY <2>1 DEF ShutdownSafe, Handshake, Put, ManagerUnchanged, HandleKept,
         McpType, ServiceType, PhaseType, ReportType, ManagerType,
         MonitorOwns, ShutReady
    <3>5. EndReported'
      BY <2>1 DEF ShutdownSafe, Handshake, Put, ManagerUnchanged, EndReported,
         McpType, ServiceType, PhaseType, ReportType, ManagerType, HandleKept,
         MonitorOwns, ShutReady
    <3> QED BY <2>1, <3>1, <3>2, <3>3, <3>4, <3>5 DEF ShutdownSafe
  <2>2. ASSUME NEW c \in Connections, DiscoverTools(c) PROVE ShutdownSafe'
    <3>1. RoundsBegun'
      BY <2>2 DEF ShutdownSafe, DiscoverTools, Put, ManagerUnchanged,
         RoundsBegun, McpType, ServiceType, PhaseType, ReportType, ManagerType
    <3>2. ShutReady'
      BY <2>2 DEF ShutdownSafe, DiscoverTools, Put, ManagerUnchanged,
         ShutReady, McpType, ServiceType, PhaseType, ReportType, ManagerType
    <3>3. MonitorOwns'
      BY <2>2 DEF ShutdownSafe, DiscoverTools, Put, ManagerUnchanged,
         MonitorOwns, McpType, ServiceType, PhaseType, ReportType, ManagerType
    <3>4. HandleKept'
      BY <2>2 DEF ShutdownSafe, DiscoverTools, Put, ManagerUnchanged,
         HandleKept, McpType, ServiceType, PhaseType, ReportType, ManagerType,
         MonitorOwns, ShutReady
    <3>5. EndReported'
      BY <2>2 DEF ShutdownSafe, DiscoverTools, Put, ManagerUnchanged,
         EndReported, McpType, ServiceType, PhaseType, ReportType,
         ManagerType, HandleKept, MonitorOwns, ShutReady
    <3> QED BY <2>2, <3>1, <3>2, <3>3, <3>4, <3>5 DEF ShutdownSafe
  <2>3. ASSUME NEW c \in Connections, StoreHandle(c) PROVE ShutdownSafe'
    <3>1. RoundsBegun'
      BY <2>3 DEF ShutdownSafe, StoreHandle, Put, ManagerUnchanged,
         RoundsBegun, McpType, ServiceType, PhaseType, ReportType, ManagerType
    <3>2. ShutReady'
      BY <2>3 DEF ShutdownSafe, StoreHandle, Put, ManagerUnchanged, ShutReady,
         McpType, ServiceType, PhaseType, ReportType, ManagerType
    <3>3. MonitorOwns'
      BY <2>3 DEF ShutdownSafe, StoreHandle, Put, ManagerUnchanged,
         MonitorOwns, McpType, ServiceType, PhaseType, ReportType, ManagerType
    <3>4. HandleKept'
      BY <2>3 DEF ShutdownSafe, StoreHandle, Put, ManagerUnchanged,
         HandleKept, McpType, ServiceType, PhaseType, ReportType, ManagerType,
         MonitorOwns, ShutReady
    <3>5. EndReported'
      BY <2>3 DEF ShutdownSafe, StoreHandle, Put, ManagerUnchanged,
         EndReported, McpType, ServiceType, PhaseType, ReportType,
         ManagerType, HandleKept, MonitorOwns, ShutReady
    <3> QED BY <2>3, <3>1, <3>2, <3>3, <3>4, <3>5 DEF ShutdownSafe
  <2>4. ASSUME NEW c \in Connections, EmitConnected(c) PROVE ShutdownSafe'
    <3>1. RoundsBegun'
      BY <2>4 DEF ShutdownSafe, EmitConnected, Put, Told, ManagerUnchanged,
         RoundsBegun, McpType, ServiceType, PhaseType, ReportType, ManagerType
    <3>2. ShutReady'
      BY <2>4 DEF ShutdownSafe, EmitConnected, Put, Told, ManagerUnchanged,
         ShutReady, McpType, ServiceType, PhaseType, ReportType, ManagerType
    <3>3. MonitorOwns'
      BY <2>4 DEF ShutdownSafe, EmitConnected, Put, Told, ManagerUnchanged,
         MonitorOwns, McpType, ServiceType, PhaseType, ReportType, ManagerType
    <3>4. HandleKept'
      BY <2>4 DEF ShutdownSafe, EmitConnected, Put, Told, ManagerUnchanged,
         HandleKept, McpType, ServiceType, PhaseType, ReportType, ManagerType,
         MonitorOwns, ShutReady
    <3>5. EndReported'
      BY <2>4 DEF ShutdownSafe, EmitConnected, Put, Told, ManagerUnchanged,
         EndReported, McpType, ServiceType, PhaseType, ReportType,
         ManagerType, HandleKept, MonitorOwns, ShutReady
    <3> QED BY <2>4, <3>1, <3>2, <3>3, <3>4, <3>5 DEF ShutdownSafe
  <2>5. ASSUME NEW c \in Connections, MonitorWakes(c) PROVE ShutdownSafe'
    <3>1. MonitorOwns'
      BY <2>5 DEF ShutdownSafe, MonitorWakes, Put, ManagerUnchanged,
         MonitorOwns, McpType, ServiceType, PhaseType, ReportType, ManagerType
    <3>2. HandleKept'
      BY <2>5 DEF ShutdownSafe, MonitorWakes, Put, ManagerUnchanged,
         HandleKept, McpType, ServiceType, PhaseType, ReportType, ManagerType,
         MonitorOwns, ShutReady
    <3>3. EndReported'
      BY <2>5 DEF ShutdownSafe, MonitorWakes, Put, ManagerUnchanged,
         EndReported, McpType, ServiceType, PhaseType, ReportType,
         ManagerType, HandleKept, MonitorOwns, ShutReady
    <3> QED BY <2>5, <3>1, <3>2, <3>3 DEF ShutdownSafe, MonitorWakes,
       ManagerUnchanged, RoundsBegun, ShutReady
  <2>6. ASSUME NEW c \in Connections, MonitorLock(c) PROVE ShutdownSafe'
    <3>1. MonitorOwns'
      BY <2>6 DEF ShutdownSafe, MonitorLock, Put, ManagerUnchanged,
         MonitorOwns, McpType, ServiceType, PhaseType, ReportType, ManagerType
    <3>2. HandleKept'
      BY <2>6 DEF ShutdownSafe, MonitorLock, Put, ManagerUnchanged,
         HandleKept, McpType, ServiceType, PhaseType, ReportType, ManagerType,
         MonitorOwns, ShutReady
    <3>3. EndReported'
      BY <2>6 DEF ShutdownSafe, MonitorLock, Put, ManagerUnchanged,
         EndReported, McpType, ServiceType, PhaseType, ReportType,
         ManagerType, HandleKept, MonitorOwns, ShutReady
    <3> QED BY <2>6, <3>1, <3>2, <3>3 DEF ShutdownSafe, MonitorLock,
       ManagerUnchanged, RoundsBegun, ShutReady
  <2>7. ASSUME NEW c \in Connections, MonitorEmit(c) PROVE ShutdownSafe'
    <3>1. MonitorOwns'
      BY <2>7 DEF ShutdownSafe, MonitorEmit, Put, Told, ManagerUnchanged,
         MonitorOwns, McpType, ServiceType, PhaseType, ReportType, ManagerType
    <3>2. HandleKept'
      BY <2>7 DEF ShutdownSafe, MonitorEmit, Put, Told, ManagerUnchanged,
         HandleKept, McpType, ServiceType, PhaseType, ReportType, ManagerType,
         MonitorOwns, ShutReady
    <3>3. EndReported'
      BY <2>7 DEF ShutdownSafe, MonitorEmit, Put, Told, ManagerUnchanged,
         EndReported, McpType, ServiceType, PhaseType, ReportType,
         ManagerType, HandleKept, MonitorOwns, ShutReady
    <3> QED BY <2>7, <3>1, <3>2, <3>3 DEF ShutdownSafe, MonitorEmit,
       ManagerUnchanged, RoundsBegun, ShutReady
  <2>8. ASSUME NEW c \in Connections, MonitorAborted(c) PROVE ShutdownSafe'
    <3>1. MonitorOwns'
      BY <2>8 DEF ShutdownSafe, MonitorAborted, Put, ManagerUnchanged,
         MonitorOwns, McpType, ServiceType, PhaseType, ReportType, ManagerType
    <3>2. HandleKept'
      BY <2>8 DEF ShutdownSafe, MonitorAborted, Put, ManagerUnchanged,
         HandleKept, McpType, ServiceType, PhaseType, ReportType, ManagerType,
         MonitorOwns, ShutReady
    <3>3. EndReported'
      BY <2>8 DEF ShutdownSafe, MonitorAborted, Put, ManagerUnchanged,
         EndReported, McpType, ServiceType, PhaseType, ReportType,
         ManagerType, HandleKept, MonitorOwns, ShutReady
    <3> QED BY <2>8, <3>1, <3>2, <3>3 DEF ShutdownSafe, MonitorAborted,
       ManagerUnchanged, RoundsBegun, ShutReady
  <2>9. ASSUME NEW c \in Connections, ShutdownLock(c) PROVE ShutdownSafe'
    <3>1. ShutReady'
      BY <2>9 DEF ShutdownSafe, ShutdownLock, Put, Abort, ManagerUnchanged,
         ShutReady, McpType, ServiceType, PhaseType, ReportType, ManagerType
    <3>2. MonitorOwns'
      BY <2>9 DEF ShutdownSafe, ShutdownLock, Put, Abort, ManagerUnchanged,
         MonitorOwns, McpType, ServiceType, PhaseType, ReportType, ManagerType
    <3>3. HandleKept'
      BY <2>9 DEF ShutdownSafe, ShutdownLock, Put, Abort, ManagerUnchanged,
         HandleKept, McpType, ServiceType, PhaseType, ReportType, ManagerType,
         MonitorOwns, ShutReady
    <3>4. EndReported'
      <4>1. /\ wasLive' = [wasLive EXCEPT ![c] = state[c] # {}] /\ shut[c] = "begin"
            /\ shut' = [shut EXCEPT ![c] = IF "handle" \in state[c] THEN "await" ELSE "emit"]
            /\ UNCHANGED <<told, setup>>
            /\ \A d \in Connections : monitor'[d] = monitor[d] \/ (d = c /\ monitor'[d] = "aborting")
        BY <2>9 DEF ShutdownLock, Put, Abort, McpType, ServiceType
      <4>2. wasLive'[c] <=> state[c] # {}
        BY <4>1 DEF McpType, ReportType
      <4>3. \A d \in Connections : d # c => wasLive'[d] = wasLive[d] /\ shut'[d] = shut[d]
                                                /\ monitor'[d] = monitor[d]
        BY <4>1 DEF McpType, ReportType, PhaseType
      <4>4. /\ shut'[c] = "await" => "handle" \in state[c]
            /\ shut'[c] \in {"await", "emit"}
        BY <4>1 DEF McpType, PhaseType
      <4>5. monitor'[c] = "ended" => told[c].down > 0
        <5>1. setup[c] = "ready"
          BY <4>1 DEF ShutdownSafe, ShutReady
        <5> QED BY <4>1, <5>1 DEF ShutdownSafe, EndReported
      <4>6. ASSUME NEW d \in Connections
            PROVE  /\ monitor'[d] = "ended" =>
                        told'[d].down > 0 \/ shut'[d] \notin {"none", "begin"} \/ setup'[d] = "dropped"
                   /\ shut'[d] = "await" => wasLive'[d]
                   /\ shut'[d] = "emit" /\ monitor'[d] = "ended" => wasLive'[d] \/ told'[d].down > 0
                   /\ shut'[d] = "returned" /\ monitor'[d] = "ended" => told'[d].down > 0
        <5>1. CASE d = c
          BY <4>1, <4>2, <4>4, <4>5, <5>1
        <5>2. CASE d # c
          BY <4>1, <4>3, <5>2 DEF ShutdownSafe, EndReported
        <5> QED BY <5>1, <5>2
      <4> QED BY <4>6 DEF EndReported
    <3> QED BY <2>9, <3>1, <3>2, <3>3, <3>4 DEF ShutdownSafe, ShutdownLock,
       ManagerUnchanged, RoundsBegun
  <2>10. ASSUME NEW c \in Connections, ShutdownAwait(c) PROVE ShutdownSafe'
    <3>1. ShutReady'
      BY <2>10 DEF ShutdownSafe, ShutdownAwait, Put, ManagerUnchanged,
         ShutReady, McpType, ServiceType, PhaseType, ReportType, ManagerType
    <3>2. HandleKept'
      BY <2>10 DEF ShutdownSafe, ShutdownAwait, Put, ManagerUnchanged,
         HandleKept, McpType, ServiceType, PhaseType, ReportType, ManagerType,
         MonitorOwns, ShutReady
    <3>3. EndReported'
      BY <2>10 DEF ShutdownSafe, ShutdownAwait, Put, ManagerUnchanged,
         EndReported, McpType, ServiceType, PhaseType, ReportType,
         ManagerType, HandleKept, MonitorOwns, ShutReady
    <3> QED BY <2>10, <3>1, <3>2, <3>3 DEF ShutdownSafe, ShutdownAwait,
       ManagerUnchanged, RoundsBegun, MonitorOwns
  <2>11. ASSUME NEW c \in Connections, ShutdownEmit(c) PROVE ShutdownSafe'
    <3>1. ShutReady'
      BY <2>11 DEF ShutdownSafe, ShutdownEmit, Put, Told, ManagerUnchanged,
         ShutReady, McpType, ServiceType, PhaseType, ReportType, ManagerType
    <3>2. HandleKept'
      BY <2>11 DEF ShutdownSafe, ShutdownEmit, Put, Told, ManagerUnchanged,
         HandleKept, McpType, ServiceType, PhaseType, ReportType, ManagerType,
         MonitorOwns, ShutReady
    <3>3. EndReported'
      BY <2>11 DEF ShutdownSafe, ShutdownEmit, Put, Told, ManagerUnchanged,
         EndReported, McpType, ServiceType, PhaseType, ReportType,
         ManagerType, HandleKept, MonitorOwns, ShutReady
    <3> QED BY <2>11, <3>1, <3>2, <3>3 DEF ShutdownSafe, ShutdownEmit,
       ManagerUnchanged, RoundsBegun, MonitorOwns
  <2>12. ASSUME NEW c \in Connections, ServiceCloses(c) PROVE ShutdownSafe'
    <3>1. MonitorOwns'
      BY <2>12 DEF ShutdownSafe, ServiceCloses, Put, ManagerUnchanged,
         MonitorOwns, McpType, ServiceType, PhaseType, ReportType, ManagerType
    <3> QED BY <2>12, <3>1 DEF ShutdownSafe, ServiceCloses, ManagerUnchanged,
       RoundsBegun, ShutReady, HandleKept, EndReported
  <2>13. ASSUME NEW c \in Connections, DropConnection(c) PROVE ShutdownSafe'
    <3>1. RoundsBegun'
      BY <2>13 DEF ShutdownSafe, DropConnection, Owned, Put, Abort,
         ManagerUnchanged, RoundsBegun, McpType, ServiceType, PhaseType,
         ReportType, ManagerType
    <3>2. ShutReady'
      BY <2>13 DEF ShutdownSafe, DropConnection, Owned, Put, Abort,
         ManagerUnchanged, ShutReady, McpType, ServiceType, PhaseType,
         ReportType, ManagerType
    <3>3. MonitorOwns'
      BY <2>13 DEF ShutdownSafe, DropConnection, Owned, Put, Abort,
         ManagerUnchanged, MonitorOwns, McpType, ServiceType, PhaseType,
         ReportType, ManagerType
    <3>4. HandleKept'
      BY <2>13 DEF ShutdownSafe, DropConnection, Owned, Put, Abort,
         ManagerUnchanged, HandleKept, McpType, ServiceType, PhaseType,
         ReportType, ManagerType, MonitorOwns, ShutReady
    <3>5. EndReported'
      BY <2>13 DEF ShutdownSafe, DropConnection, Owned, Put, Abort,
         ManagerUnchanged, EndReported, McpType, ServiceType, PhaseType,
         ReportType, ManagerType, HandleKept, MonitorOwns, ShutReady
    <3> QED BY <2>13, <3>1, <3>2, <3>3, <3>4, <3>5 DEF ShutdownSafe
  <2>14. ASSUME NEW c \in Connections, CallTool(c) PROVE ShutdownSafe'
    <3> QED BY <2>14 DEF ShutdownSafe, CallTool, ManagerUnchanged,
       RoundsBegun, ShutReady, MonitorOwns, HandleKept, EndReported
  <2>15. ASSUME NEW c \in Connections, CallReturns(c) PROVE ShutdownSafe'
    <3> QED BY <2>15 DEF ShutdownSafe, CallReturns, ManagerUnchanged,
       RoundsBegun, ShutReady, MonitorOwns, HandleKept, EndReported
  <2>16. CASE ManagerShutdown
    <3>1. CASE ShutNext(listed)
      <4>1. PICK d \in listed : shut[d] = "none" /\ shut' = [shut EXCEPT ![d] = "begin"]
        BY <3>1 DEF ShutNext, Put
      <4>2. setup[d] = "ready" /\ d \in Connections
        BY DEF ShutdownSafe, RoundsBegun, McpType, ManagerType
      <4>3. UNCHANGED <<service, monitor, state, setup, wasLive, told, manager, listed>>
        BY <3>1 DEF ShutNext
      <4> QED BY <4>1, <4>2, <4>3 DEF ShutdownSafe, RoundsBegun, ShutReady,
         MonitorOwns, HandleKept, EndReported, McpType, PhaseType
    <3>2. CASE ~ShutNext(listed)
      <4>1. /\ listed' = {} /\ manager' = ManagerAt("connect", manager.round + 1)
            /\ setup' = [c \in Connections |->
                           IF c[2] = manager.round + 1 THEN "begin" ELSE setup[c]]
            /\ UNCHANGED <<service, monitor, state, shut, wasLive, told>>
        BY <2>16, <3>2 DEF ManagerShutdown
      <4>2. manager'.round = manager.round + 1 /\ manager.round \in Nat
        BY <4>1, McpAssumption DEF ManagerAt, McpType, ManagerType
      <4>3. \A c \in Connections : c[2] \in Nat
        BY McpAssumption DEF Connections
      <4>4. \A c \in Connections :
            setup'[c] = setup[c] \/ (setup'[c] = "begin" /\ setup[c] = "none")
        <5> SUFFICES ASSUME NEW c \in Connections, setup'[c] # setup[c]
                     PROVE  setup'[c] = "begin" /\ setup[c] = "none"
          OBVIOUS
        <5>3. setup'[c] = IF c[2] = manager.round + 1 THEN "begin" ELSE setup[c]
          BY <4>1, Zenon
        <5>1. c[2] = manager.round + 1 /\ setup'[c] = "begin"
          BY <5>3
        <5>2. setup[c] # "none" => c[2] <= manager.round
          BY DEF ShutdownSafe, RoundsBegun
        <5> QED BY <4>2, <4>3, <5>1, <5>2
      <4>5. RoundsBegun'
        <5>1. ASSUME NEW c \in Connections, setup'[c] # "none" PROVE c[2] <= manager.round + 1
          BY <4>1, <4>2, <4>3, <5>1 DEF ShutdownSafe, RoundsBegun
        <5> QED BY <4>1, <4>2, <5>1 DEF RoundsBegun
      <4>6. ShutReady' /\ MonitorOwns'
        BY <4>1, <4>4 DEF ShutdownSafe, ShutReady, MonitorOwns
      <4>7. HandleKept' /\ EndReported'
        BY <4>1, <4>4 DEF ShutdownSafe, HandleKept, EndReported
      <4> QED BY <4>5, <4>6, <4>7 DEF ShutdownSafe
    <3> QED BY <3>1, <3>2
  <2>17. CASE CollectTools
    <3>1. RoundsBegun'
      BY <2>17 DEF ShutdownSafe, CollectTools, Current, Ready, ManagerAt,
         RoundsBegun, McpType, ServiceType, PhaseType, ReportType, ManagerType
    <3> QED BY <2>17, <3>1 DEF ShutdownSafe, CollectTools, ShutReady,
       MonitorOwns, HandleKept, EndReported
  <2>18. CASE Collision
    <3>1. RoundsBegun'
      BY <2>18 DEF ShutdownSafe, Collision, ShutNext, Put, Ready, Current,
         ManagerAt, RoundsBegun, McpType, ServiceType, PhaseType, ReportType,
         ManagerType
    <3>2. ShutReady'
      BY <2>18 DEF ShutdownSafe, Collision, ShutNext, Put, Ready, Current,
         ManagerAt, ShutReady, McpType, ServiceType, PhaseType, ReportType,
         ManagerType
    <3>3. HandleKept'
      BY <2>18 DEF ShutdownSafe, Collision, ShutNext, Put, Ready, Current,
         ManagerAt, HandleKept, McpType, ServiceType, PhaseType, ReportType,
         ManagerType, MonitorOwns, ShutReady
    <3>4. EndReported'
      BY <2>18 DEF ShutdownSafe, Collision, ShutNext, Put, Ready, Current,
         ManagerAt, EndReported, McpType, ServiceType, PhaseType, ReportType,
         ManagerType, HandleKept, MonitorOwns, ShutReady
    <3> QED BY <2>18, <3>1, <3>2, <3>3, <3>4 DEF ShutdownSafe, Collision,
       ShutNext, MonitorOwns
  <2>19. CASE ConnectAll
    <3>1. RoundsBegun'
      BY <2>19 DEF ShutdownSafe, ConnectAll, ManagerAt, RoundsBegun, McpType,
         ServiceType, PhaseType, ReportType, ManagerType
    <3> QED BY <2>19, <3>1 DEF ShutdownSafe, ConnectAll, ShutReady,
       MonitorOwns, HandleKept, EndReported
  <2>20. CASE DropManager
    <3>1. RoundsBegun'
      BY <2>20 DEF ShutdownSafe, DropManager, ManagerAt, RoundsBegun, McpType,
         ServiceType, PhaseType, ReportType, ManagerType
    <3> QED BY <2>20, <3>1 DEF ShutdownSafe, DropManager, ShutReady,
       MonitorOwns, HandleKept, EndReported
  <2>21. CASE LendTools
    <3> QED BY <2>21 DEF ShutdownSafe, LendTools, RoundsBegun, ShutReady,
       MonitorOwns, HandleKept, EndReported
  <2>22. CASE AgentLeaves
    <3> QED BY <2>22 DEF ShutdownSafe, AgentLeaves, RoundsBegun, ShutReady,
       MonitorOwns, HandleKept, EndReported
  <2>23. CASE UNCHANGED mcpVars
    BY <2>23 DEF mcpVars, ShutdownSafe, RoundsBegun, ShutReady, MonitorOwns,
       HandleKept, EndReported
  <2> QED BY <2>1, <2>2, <2>3, <2>4, <2>5, <2>6, <2>7, <2>8, <2>9, <2>10,
     <2>11, <2>12, <2>13, <2>14, <2>15, <2>16, <2>17, <2>18, <2>19, <2>20,
     <2>21, <2>22, <2>23 DEF McpNext, SetupSteps, MonitorSteps, ShutdownSteps,
     ManagerSteps
<1>3. McpType /\ ShutdownSafe => ShutdownComplete
  BY DEF McpType, ServiceType, ReportType, ShutdownSafe, ShutReady, MonitorOwns,
     HandleKept, EndReported, ShutdownComplete
<1> QED BY <1>1, <1>2, <1>3, McpTypeCorrect, PTL DEF McpSpec

-----------------------------------------------------------------------------
(* Pipelines.                                                              *)
Results == {"Ok", "Cancelled", "AgentNotFound", "StepFailed"}
Arrivals == [who : Branches, is : Results]

RunType ==
  /\ plan \in Plans /\ step \in Nat /\ outer \in BOOLEAN /\ child \in BOOLEAN
  /\ pipe \in {"begin", "between", "prompting", "merging", "aggregating", "returned"}
  /\ pipeResult \in Results \cup {"none", "MaxIterationsReached"}
BranchType ==
  /\ branch \in [Branches -> {"none", "spawned", "prompting", "ended"}]
  /\ arrived \in Seq(Arrivals)
  /\ collected \in Seq(Branches)
  /\ firstError \in (Results \ {"Ok"}) \cup {"none"}

(* The run, its branches and its channel hold values the code's types      *)
(* allow.                                                                  *)
PipelineType == RunType /\ BranchType

(* Each state of run_parallel belongs to its merge, and only merge_custom  *)
(* has an aggregator.                                                      *)
FormFits ==
  /\ pipe \in {"between", "prompting"} => plan.form # "parallel"
  /\ pipe \in {"merging", "aggregating"} => plan.form = "parallel"
  /\ pipe = "aggregating" => plan.merge = "Custom"
(* run_parallel spawns the declared branches all at once, and no others.   *)
Spawning ==
  /\ pipe = "begin" => arrived = << >> /\ collected = << >> /\ \A b \in Branches : branch[b] = "none"
  /\ pipe \in {"merging", "aggregating"} =>
       \A b \in Branches : branch[b] = "none" <=> b > plan.count
  /\ \A b \in Branches : branch[b] # "none" => b <= plan.count
(* A branch sends its result once, when it ends: what is in the channel is *)
(* of branches that have ended, each there once.                           *)
SentOnce ==
  /\ \A k \in DOMAIN arrived : branch[arrived[k].who] = "ended"
  /\ \A k, j \in DOMAIN arrived : k < j => arrived[k].who # arrived[j].who
(* A merge takes a result at most once, and what it has taken is no longer *)
(* in the channel.                                                         *)
TakenOnce ==
  /\ \A k \in DOMAIN collected : branch[collected[k]] = "ended"
  /\ \A k, j \in DOMAIN collected : k < j => collected[k] # collected[j]
  /\ \A k \in DOMAIN arrived, j \in DOMAIN collected : arrived[k].who # collected[j]
(* While merge_concat and merge_custom wait, the result of every ended     *)
(* branch is in the channel or taken: their first error has not been met   *)
(* yet.                                                                    *)
AllHeard ==
  pipe = "merging" /\ plan.merge \in {"Concat", "Custom"} =>
    \A b \in Branches : branch[b] = "ended" =>
      (\E k \in DOMAIN arrived : arrived[k].who = b) \/ (\E k \in DOMAIN collected : collected[k] = b)
(* The collected results are in the order of declaration.                  *)
Rising == \A k, j \in DOMAIN collected : k < j => collected[k] < collected[j]
(* A First or Fastest merge that still waits wants more than it has; the   *)
(* aggregator of merge_custom is given all results, in order.              *)
Wanting ==
  /\ pipe = "merging" /\ plan.merge = "First" => collected = << >>
  /\ pipe = "merging" /\ plan.merge = "Fastest" => collected = << >> \/ Len(collected) < plan.quota
  /\ pipe = "aggregating" => Rising /\ Successes = 1 .. plan.count
(* The strengthening for OutcomeFits.                                      *)
PipelineSafe == FormFits /\ Spawning /\ SentOnce /\ TakenOnce /\ AllHeard /\ Wanting /\ OutcomeFits

(* No branch is twice in s.                                                *)
Once(s) == \A k, j \in DOMAIN s : k < j => s[k] # s[j]

(* collected.sort_by_key(index) orders the branches, adds none and loses   *)
(* none.                                                                   *)
LEMMA ByIndexSorts ==
  ASSUME NEW s \in Seq(Branches), Once(s)
  PROVE  /\ by_index(s) \in Seq(Branches) /\ Len(by_index(s)) = Len(s)
         /\ \A k, j \in DOMAIN by_index(s) : k < j => by_index(s)[k] < by_index(s)[j]
         /\ \A k \in DOMAIN by_index(s) : \E j \in DOMAIN s : s[j] = by_index(s)[k]
         /\ \A j \in DOMAIN s : \E k \in DOMAIN by_index(s) : by_index(s)[k] = s[j]
<1> DEFINE n == Len(s)
           S == Range(s)
           upTo(b) == {x \in S : x <= b}
           rank(b) == Cardinality(upTo(b))
<1>0. n \in Nat /\ DOMAIN s = 1 .. n /\ S \subseteq Branches /\ s \in [1 .. n -> S]
  BY DEF Range
<1>1. Branches \subseteq Int
  BY DEF Branches
<1>2. IsFiniteSet(1 .. n) /\ Cardinality(1 .. n) = n
  BY <1>0, FS_Interval, SMTT(40)
<1>3. IsFiniteSet(S) /\ Cardinality(S) = n
  <2>1. s \in Surjection(1 .. n, S)
    BY <1>0 DEF Surjection, Range
  <2>2. s \in Injection(1 .. n, S)
    <3>1. \A k, j \in 1 .. n : k < j => s[k] # s[j]
      BY <1>0 DEF Once
    <3>2. \A k, j \in 1 .. n : k # j => k < j \/ j < k
      BY <1>0
    <3>3. \A k, j \in 1 .. n : s[k] = s[j] => k = j
      BY <3>1, <3>2
    <3> QED BY <1>0, <3>3 DEF Injection, IsInjective
  <2> QED BY <1>2, <2>1, <2>2, FS_Surjection
<1>4. \A b \in S : rank(b) \in 1 .. n
  <2> SUFFICES ASSUME NEW b \in S PROVE Cardinality(upTo(b)) \in 1 .. n
    OBVIOUS
  <2>0. b \in Int
    BY <1>0, <1>1
  <2>1. upTo(b) \in SUBSET S /\ b \in upTo(b)
    BY <2>0
  <2>2. IsFiniteSet(upTo(b)) /\ Cardinality(upTo(b)) <= n
    BY <1>3, <2>1, FS_Subset
  <2>3. Cardinality(upTo(b)) \in Nat
    BY <2>2, FS_CardinalityType
  <2>4. Cardinality(upTo(b)) # 0
    BY <2>1, <2>2, FS_EmptySet
  <2> QED BY <1>0, <2>2, <2>3, <2>4
<1>5. \A a, b \in S : a < b => rank(a) < rank(b)
  <2> SUFFICES ASSUME NEW a \in S, NEW b \in S, a < b
               PROVE  Cardinality(upTo(a)) < Cardinality(upTo(b))
    OBVIOUS
  <2>0. \A x \in S : x \in Int
    BY <1>0, <1>1
  <2>1. a \in Int /\ b \in Int /\ \A x \in S : x \in Int
    BY <2>0
  <2>2. ASSUME NEW x \in upTo(a) PROVE x \in upTo(b)
    BY <2>1
  <2>3. b \in upTo(b) /\ b \notin upTo(a)
    BY <2>1
  <2>4. upTo(b) \in SUBSET S /\ upTo(a) \in SUBSET upTo(b)
    BY <2>2
  <2>5. IsFiniteSet(upTo(b))
    BY <1>3, <2>4, FS_Subset
  <2>6. IsFiniteSet(upTo(a)) /\ Cardinality(upTo(a)) <= Cardinality(upTo(b))
        /\ (Cardinality(upTo(b)) = Cardinality(upTo(a)) => upTo(b) = upTo(a))
    BY <2>4, <2>5, FS_Subset
  <2>7. Cardinality(upTo(a)) \in Nat /\ Cardinality(upTo(b)) \in Nat
    BY <2>5, <2>6, FS_CardinalityType
  <2> QED BY <2>3, <2>6, <2>7
<1> HIDE DEF rank, upTo
<1>6. \A a, b \in S : rank(a) = rank(b) => a = b
  <2>0. \A x \in S : x \in Int
    BY <1>0, <1>1
  <2>1. \A a, b \in S : a # b => a < b \/ b < a
    BY <2>0
  <2> QED BY <1>0, <1>4, <1>5, <2>1
<1>7. \A k \in 1 .. n : \E b \in S : rank(b) = k
  <2> DEFINE place == [b \in S |-> rank(b)]
  <2>1. place \in [S -> 1 .. n] /\ \A b \in S : place[b] = rank(b)
    BY <1>4
  <2> HIDE DEF place
  <2>2. place \in Injection(S, 1 .. n)
    BY <1>6, <2>1 DEF Injection, IsInjective
  <2>3. place \in Surjection(S, 1 .. n)
    BY <1>2, <1>3, <2>2, FS_Injection
  <2> QED BY <2>1, <2>3 DEF Surjection
<1> DEFINE t == by_index(s)
<1>8. t = [k \in 1 .. n |-> CHOOSE b \in S : rank(b) = k]
  BY DEF by_index, rank, upTo
<1>9. DOMAIN t = 1 .. n /\ \A k \in 1 .. n : t[k] \in S /\ rank(t[k]) = k
  BY <1>7, <1>8
<1> HIDE DEF t, S, n
<1>10. t \in Seq(Branches) /\ Len(t) = n
  <2>1. t \in [1 .. n -> Branches]
    BY <1>0, <1>8, <1>9
  <2> QED BY <1>0, <2>1
<1>11. \A k, j \in 1 .. n : k < j => t[k] < t[j]
  <2>0. \A x \in S : x \in Int
    BY <1>0, <1>1
  <2>1. \A a, b \in S : a = b \/ a < b \/ b < a
    BY <2>0
  <2>2. \A k \in 1 .. n : k \in Int
    BY <1>0
  <2> SUFFICES ASSUME NEW k \in 1 .. n, NEW j \in 1 .. n, k < j, ~(t[k] < t[j]) PROVE FALSE
    OBVIOUS
  <2>3. t[k] \in S /\ t[j] \in S /\ rank(t[k]) = k /\ rank(t[j]) = j
    BY <1>9
  <2>4. t[k] = t[j] \/ t[j] < t[k]
    BY <2>1, <2>3
  <2>5. k = j \/ j < k
    BY <1>5, <2>3, <2>4
  <2> QED BY <2>2, <2>5
<1>12. \A b \in S : \E k \in 1 .. n : t[k] = b
  <2> SUFFICES ASSUME NEW b \in S PROVE t[rank(b)] = b /\ rank(b) \in 1 .. n
    OBVIOUS
  <2> QED BY <1>4, <1>6, <1>9
<1>13. \A b : b \in S <=> \E j \in 1 .. n : s[j] = b
  BY <1>0 DEF S, Range
<1>14. Len(t) = Len(s)
  BY <1>10 DEF n
<1> QED BY <1>0, <1>9, <1>10, <1>11, <1>12, <1>13, <1>14 DEF t

(* A plan is within its bounds, and a parallel one has one of the four     *)
(* merges of run_parallel.                                                 *)
LEMMA PlanFits ==
  ASSUME plan \in Plans
  PROVE  /\ plan.count \in Nat /\ plan.count <= MaxBranches /\ plan.quota \in Nat
         /\ plan.form = "parallel" => plan.merge \in {"Concat", "Custom", "First", "Fastest"}
<1>1. CASE plan \in [form : {"sequential"}, count : 0 .. MaxBranches, merge : {"none"}, quota : {0}]
  BY <1>1, PipelinesAssumption
<1>2. CASE plan \in [form : {"loop"}, count : 0 .. MaxBranches,
                     merge : {"MaxIterations", "Condition"}, quota : {0}]
  BY <1>2, PipelinesAssumption
<1>3. CASE plan \in [form : {"parallel"}, count : 0 .. MaxBranches,
                     merge : {"Concat", "First", "Custom"}, quota : {0}]
  BY <1>3, PipelinesAssumption
<1>4. CASE plan \in [form : {"parallel"}, count : 0 .. MaxBranches, merge : {"Fastest"},
                     quota : Quotas]
  <2>1. /\ plan.count \in 0 .. MaxBranches /\ plan.quota \in Quotas
        /\ plan.merge = "Fastest"
    BY <1>4
  <2>2. plan.quota \in Nat
    BY <2>1, PipelinesAssumption
  <2>3. plan.count \in Nat /\ plan.count <= MaxBranches
    BY <2>1, PipelinesAssumption
  <2> QED BY <2>1, <2>2, <2>3
<1> QED BY <1>1, <1>2, <1>3, <1>4 DEF Plans

(* What is in the channel is a branch with a result.                       *)
LEMMA ArrivalFits ==
  ASSUME BranchType
  PROVE  \A k \in DOMAIN arrived : arrived[k].who \in Branches /\ arrived[k].is \in Results
<1>1. \A k \in DOMAIN arrived : arrived[k] \in Arrivals
  BY DEF BranchType
<1> QED BY <1>1 DEF Arrivals

(* Steps of the caller and of the sequential forms touch no branch.        *)
LEMMA StepsKeep ==
  ASSUME PipelineType, PipelineSafe, CancelPipeline \/ BeginSteps \/ NextStep \/ StepReturns \/ StepsExhausted
  PROVE  PipelineType' /\ PipelineSafe'
<1> USE DEF PipelineType, PipelineSafe, BranchUnchanged
<1>1. UNCHANGED <<plan, child, branch, arrived, collected, firstError>>
  BY DEF CancelPipeline, BeginSteps, NextStep, StepReturns, StepsExhausted
<1>2. RunType'
  <2>1. plan' = plan /\ child' = child
    BY <1>1
  <2>2. step' \in Nat /\ outer' \in BOOLEAN
    <3>1. step' = step \/ step' = step + 1
      BY DEF CancelPipeline, BeginSteps, NextStep, StepReturns, StepsExhausted
    <3>2. outer' = outer \/ outer' = TRUE
      BY DEF CancelPipeline, BeginSteps, NextStep, StepReturns, StepsExhausted
    <3>3. step' \in Nat
      BY <3>1 DEF RunType
    <3>4. outer' \in BOOLEAN
      BY <3>2, Zenon DEF RunType
    <3> QED BY <3>3, <3>4
  <2>3. pipe' \in {"begin", "between", "prompting", "merging", "aggregating", "returned"}
    BY DEF RunType, CancelPipeline, BeginSteps, NextStep, StepReturns,
       StepsExhausted, Returns
  <2>4. pipeResult' \in Results \cup {"none", "MaxIterationsReached"}
    BY DEF RunType, Results, CancelPipeline, BeginSteps, NextStep, StepReturns,
       StepsExhausted, Returns
  <2> QED BY <2>1, <2>2, <2>3, <2>4 DEF RunType
<1>3. BranchType'
  BY <1>1 DEF BranchType
<1>4. \/ pipe' = pipe /\ pipeResult' = pipeResult
      \/ plan.form # "parallel" /\ pipe' \in {"between", "prompting", "returned"}
  BY DEF CancelPipeline, BeginSteps, NextStep, StepReturns, StepsExhausted,
     Returns, FormFits
<1>5. FormFits' /\ Spawning' /\ AllHeard' /\ Wanting'
  BY <1>1, <1>4 DEF FormFits, Spawning, AllHeard, Wanting, Rising, Successes
<1>6. SentOnce' /\ TakenOnce'
  BY <1>1 DEF SentOnce, TakenOnce
<1>7. OutcomeFits'
  BY <1>1, <1>4 DEF OutcomeFits, Successes
<1> QED BY <1>2, <1>3, <1>5, <1>6, <1>7

(* run_parallel spawns its branches, or returns at once when its token is  *)
(* cancelled.                                                              *)
LEMMA BeginKeeps ==
  ASSUME PipelineType, PipelineSafe, BeginParallel
  PROVE  PipelineType' /\ PipelineSafe'
<1> USE DEF PipelineType, PipelineSafe, BeginParallel, Returns
<1>1. plan.count \in Nat /\ plan.form = "parallel"
  BY PlanFits DEF RunType
<1>2. RunType'
  BY DEF RunType, Results
<1>3. branch' \in [Branches -> {"none", "spawned"}]
      /\ \A b \in Branches : branch'[b] # "none" => b <= plan.count
  <2>1. CASE outer
    BY <2>1 DEF BranchType, Spawning
  <2>2. CASE ~outer
    BY <2>2
  <2> QED BY <2>1, <2>2
<1>4. BranchType'
  BY <1>3 DEF BranchType
<1>5. FormFits'
  BY <1>1 DEF FormFits
<1>6. arrived = << >> /\ collected = << >>
  BY DEF Spawning
<1>7. Spawning'
  <2>1. CASE outer
    BY <2>1 DEF Spawning
  <2>2. CASE ~outer
    <3>1. branch' = [b \in Branches |-> IF b <= plan.count THEN "spawned" ELSE "none"]
      BY <2>2
    <3>2. \A b \in Branches : b \in Nat
      BY DEF Branches
    <3>3. \A b \in Branches : branch'[b] = "none" <=> b > plan.count
      BY <1>1, <3>1, <3>2
    <3> QED BY <1>3, <2>2, <3>3 DEF Spawning
  <2> QED BY <2>1, <2>2
<1>8. SentOnce' /\ TakenOnce'
  BY <1>6 DEF SentOnce, TakenOnce
<1>9. AllHeard'
  BY <1>3 DEF AllHeard
<1>10. Wanting'
  BY <1>6 DEF Wanting
<1>11. OutcomeFits'
  BY <1>6 DEF OutcomeFits
<1> QED BY <1>2, <1>4, <1>5, <1>7, <1>8, <1>9, <1>10, <1>11

(* A branch starts its prompt.                                             *)
LEMMA PromptKeeps ==
  ASSUME PipelineType, PipelineSafe, NEW b \in Branches, branch[b] = "spawned",
         branch' = [branch EXCEPT ![b] = "prompting"],
         UNCHANGED <<plan, hung, pipe, pipeResult, step, outer, child, arrived, collected, firstError>>
  PROVE  PipelineType' /\ PipelineSafe'
<1> USE DEF PipelineType, PipelineSafe
<1>1. RunType' /\ BranchType'
  BY DEF RunType, BranchType
<1>2. \A c \in Branches : (branch'[c] = "ended" <=> branch[c] = "ended")
        /\ (branch'[c] = "none" <=> branch[c] = "none")
  BY DEF BranchType
<1>3. FormFits' /\ Spawning'
  BY <1>2 DEF FormFits, Spawning
<1>4. SentOnce' /\ TakenOnce'
  <2>1. \A k \in DOMAIN arrived : arrived[k].who \in Branches
    BY ArrivalFits
  <2>2. \A k \in DOMAIN collected : collected[k] \in Branches
    BY DEF BranchType
  <2> QED BY <1>2, <2>1, <2>2 DEF SentOnce, TakenOnce
<1>5. AllHeard'
  BY <1>2 DEF AllHeard
<1>6. Wanting'
  BY DEF Wanting, Rising, Successes
<1>7. OutcomeFits'
  BY <1>2 DEF OutcomeFits, Successes
<1> QED BY <1>1, <1>3, <1>4, <1>5, <1>6, <1>7

(* A branch ends.                                                          *)
LEMMA EndKeeps ==
  ASSUME PipelineType, PipelineSafe, NEW b \in Branches, branch[b] \in {"spawned", "prompting"},
         NEW r \in Results, BranchEnds(b, r)
  PROVE  PipelineType' /\ PipelineSafe'
<1> USE DEF PipelineType, PipelineSafe
<1> DEFINE e == [who |-> b, is |-> r]
<1>1. UNCHANGED <<plan, hung, pipe, pipeResult, step, outer, child, collected, firstError>>
      /\ branch' = [branch EXCEPT ![b] = "ended"]
      /\ arrived' = IF pipe = "returned" THEN arrived ELSE Append(arrived, e)
  BY DEF BranchEnds
<1>2. e \in Arrivals /\ e.who = b
  BY DEF Arrivals
<1> HIDE DEF e
<1>3. RunType' /\ BranchType'
  <2>1. RunType'
    BY <1>1 DEF RunType
  <2>2. arrived' \in Seq(Arrivals)
    BY <1>1, <1>2 DEF BranchType
  <2>3. branch' \in [Branches -> {"none", "spawned", "prompting", "ended"}]
    BY <1>1 DEF BranchType
  <2> QED BY <1>1, <2>1, <2>2, <2>3 DEF BranchType
<1>4. \A c \in Branches : branch'[c] = IF c = b THEN "ended" ELSE branch[c]
  BY <1>1 DEF BranchType
<1>5. FormFits' /\ Spawning'
  <2>1. FormFits'
    BY <1>1 DEF FormFits
  <2>2. pipe # "begin"
    BY DEF Spawning
  <2>3. \A c \in Branches : branch'[c] = "none" <=> branch[c] = "none"
    BY <1>4
  <2>4. Spawning'
    BY <1>1, <2>2, <2>3 DEF Spawning
  <2> QED BY <2>1, <2>4
<1>6. arrived \in Seq(Arrivals)
  BY DEF BranchType
<1>7. /\ \A k \in DOMAIN arrived' : (k \in DOMAIN arrived /\ arrived'[k] = arrived[k])
           \/ (k = Len(arrived) + 1 /\ arrived'[k] = e)
      /\ \A k \in DOMAIN arrived : k \in DOMAIN arrived' /\ arrived'[k] = arrived[k] /\ k <= Len(arrived)
      /\ DOMAIN arrived' \subseteq Int /\ Len(arrived) \in Int
  BY <1>1, <1>6
<1>14. \A k \in DOMAIN arrived' : arrived'[k].who \in Branches
  <2>1. \A k \in DOMAIN arrived' : arrived'[k] \in Arrivals
    BY <1>3 DEF BranchType
  <2> QED BY <2>1 DEF Arrivals
<1>8. \A k \in DOMAIN collected : collected[k] \in Branches
  BY DEF BranchType
<1>9. SentOnce'
  <2>1. \A k \in DOMAIN arrived' : branch'[arrived'[k].who] = "ended"
    BY <1>2, <1>4, <1>7, <1>14 DEF SentOnce
  <2>2. \A k \in DOMAIN arrived : arrived[k].who # b
    BY DEF SentOnce
  <2>3. ASSUME NEW k \in DOMAIN arrived', NEW j \in DOMAIN arrived', k < j
        PROVE  arrived'[k].who # arrived'[j].who
    <3>1. k \in DOMAIN arrived /\ arrived'[k] = arrived[k]
      BY <1>7, <2>3
    <3>2. CASE j \in DOMAIN arrived /\ arrived'[j] = arrived[j]
      BY <2>3, <3>1, <3>2 DEF SentOnce
    <3>3. CASE arrived'[j] = e
      BY <1>2, <2>2, <3>1, <3>3
    <3> QED BY <1>7, <3>2, <3>3
  <2> QED BY <2>1, <2>3 DEF SentOnce
<1>10. TakenOnce'
  <2>1. \A k \in DOMAIN collected : collected[k] # b
    BY DEF TakenOnce
  <2>2. \A k \in DOMAIN arrived', j \in DOMAIN collected : arrived'[k].who # collected[j]
    BY <1>2, <1>7, <2>1 DEF TakenOnce
  <2> QED BY <1>1, <1>4, <1>8, <2>2 DEF TakenOnce
<1>11. AllHeard'
  <2> SUFFICES ASSUME pipe = "merging", plan.merge \in {"Concat", "Custom"}, NEW c \in Branches,
                      branch'[c] = "ended"
               PROVE  (\E k \in DOMAIN arrived' : arrived'[k].who = c)
                      \/ (\E k \in DOMAIN collected : collected[k] = c)
    BY <1>1 DEF AllHeard
  <2>1. CASE c = b
    <3>1. Len(arrived) + 1 \in DOMAIN arrived' /\ arrived'[Len(arrived) + 1] = e
      BY <1>1, <1>6
    <3> QED BY <1>2, <2>1, <3>1
  <2>2. CASE c # b
    BY <1>4, <1>7, <2>2 DEF AllHeard
  <2> QED BY <2>1, <2>2
<1>12. Wanting'
  BY <1>1 DEF Wanting, Rising, Successes
<1>13. OutcomeFits'
  BY <1>1, <1>4 DEF OutcomeFits, Successes
<1> QED BY <1>3, <1>5, <1>9, <1>10, <1>11, <1>12, <1>13

(* What a merge does with the head of the channel: it takes the result or  *)
(* drops the error.                                                        *)
LEMMA HeadLeaves ==
  ASSUME PipelineType, PipelineSafe, arrived # << >>, arrived' = Tail(arrived), branch' = branch
  PROVE  /\ Arrival \in Arrivals /\ arrived' \in Seq(Arrivals)
         /\ SentOnce'
         /\ branch[Arrival.who] = "ended"
         /\ \A j \in DOMAIN collected : collected[j] # Arrival.who
         /\ \A k \in DOMAIN arrived' : arrived'[k].who # Arrival.who
         /\ \A k \in DOMAIN arrived', j \in DOMAIN collected : arrived'[k].who # collected[j]
         /\ \A k \in DOMAIN arrived : arrived[k].who = Arrival.who
              \/ \E j \in DOMAIN arrived' : arrived'[j].who = arrived[k].who
<1> USE DEF PipelineType, PipelineSafe, Arrival
<1>1. arrived \in Seq(Arrivals)
  BY DEF BranchType
<1>2. /\ Head(arrived) \in Arrivals /\ Tail(arrived) \in Seq(Arrivals)
      /\ Head(arrived) = arrived[1] /\ 1 \in DOMAIN arrived
      /\ \A k \in DOMAIN Tail(arrived) : k + 1 \in DOMAIN arrived /\ Tail(arrived)[k] = arrived[k + 1]
      /\ \A k \in DOMAIN arrived : k = 1 \/ (k - 1 \in DOMAIN Tail(arrived) /\ Tail(arrived)[k - 1] = arrived[k])
      /\ \A k \in DOMAIN Tail(arrived) : k \in Nat /\ 1 < k + 1
  BY <1>1
<1>3. SentOnce'
  <2>1. \A k \in DOMAIN arrived' : branch'[arrived'[k].who] = "ended"
    BY <1>2 DEF SentOnce
  <2>2. ASSUME NEW k \in DOMAIN arrived', NEW j \in DOMAIN arrived', k < j
        PROVE  arrived'[k].who # arrived'[j].who
    <3>1. k + 1 < j + 1
      BY <1>2, <2>2
    <3> QED BY <1>2, <3>1 DEF SentOnce
  <2> QED BY <2>1, <2>2 DEF SentOnce
<1>4. branch[arrived[1].who] = "ended"
  BY <1>2 DEF SentOnce
<1>5. \A j \in DOMAIN collected : collected[j] # arrived[1].who
  BY <1>2 DEF TakenOnce
<1>6. \A k \in DOMAIN arrived' : arrived'[k].who # arrived[1].who
  BY <1>2 DEF SentOnce
<1>7. \A k \in DOMAIN arrived', j \in DOMAIN collected : arrived'[k].who # collected[j]
  BY <1>2 DEF TakenOnce
<1>8. \A k \in DOMAIN arrived : arrived[k].who = arrived[1].who
        \/ \E j \in DOMAIN arrived' : arrived'[j].who = arrived[k].who
  BY <1>2
<1> QED BY <1>2, <1>3, <1>4, <1>5, <1>6, <1>7, <1>8

(* collected.push of a branch that is not in it yet.                       *)
LEMMA TakenFits ==
  ASSUME NEW s \in Seq(Branches), Once(s), NEW b \in Branches, \A j \in DOMAIN s : s[j] # b
  PROVE  /\ Append(s, b) \in Seq(Branches) /\ Once(Append(s, b))
         /\ Len(Append(s, b)) = Len(s) + 1
         /\ \A k \in DOMAIN Append(s, b) : Append(s, b)[k] = b \/ \E j \in DOMAIN s : s[j] = Append(s, b)[k]
         /\ \A j \in DOMAIN s : \E k \in DOMAIN Append(s, b) : Append(s, b)[k] = s[j]
         /\ \E k \in DOMAIN Append(s, b) : Append(s, b)[k] = b
<1>1. /\ \A k \in DOMAIN Append(s, b) : (k \in DOMAIN s /\ Append(s, b)[k] = s[k])
                                       \/ (k = Len(s) + 1 /\ Append(s, b)[k] = b)
      /\ \A j \in DOMAIN s : j \in DOMAIN Append(s, b) /\ Append(s, b)[j] = s[j] /\ j <= Len(s)
      /\ Len(s) + 1 \in DOMAIN Append(s, b) /\ Append(s, b)[Len(s) + 1] = b
      /\ DOMAIN Append(s, b) \subseteq Int /\ Len(s) \in Int
  OBVIOUS
<1>2. Once(Append(s, b))
  <2> DEFINE a == Append(s, b)
  <2> SUFFICES ASSUME NEW k \in DOMAIN a, NEW j \in DOMAIN a, k < j PROVE a[k] # a[j]
    BY DEF Once
  <2> HIDE DEF a
  <2>1. k \in DOMAIN s /\ a[k] = s[k]
    BY <1>1 DEF a
  <2>2. (j \in DOMAIN s /\ a[j] = s[j]) \/ a[j] = b
    BY <1>1 DEF a
  <2> QED BY <2>1, <2>2 DEF Once
<1> QED BY <1>1, <1>2

(* The merges that wait for all.                                           *)
LEMMA AllKeeps ==
  ASSUME PipelineType, PipelineSafe, MergeAll
  PROVE  PipelineType' /\ PipelineSafe'
<1> USE DEF PipelineType, PipelineSafe
<1>1. /\ pipe = "merging" /\ arrived # << >> /\ plan.merge \in {"Concat", "Custom"}
      /\ UNCHANGED <<plan, hung, step, outer, child, branch, firstError>>
  BY DEF MergeAll, Merging, TakesArrival
<1>2. Arrival \in Arrivals /\ Arrival.who \in Branches /\ Arrival.is \in Results
  <2>1. Arrival \in Arrivals
    BY <1>1 DEF BranchType, Arrival
  <2> QED BY <2>1 DEF Arrivals
<1>3. CASE Arrival.is = "Ok"
  <2>1. /\ collected' = Append(collected, Arrival.who) /\ arrived' = Tail(arrived)
        /\ pipe' = pipe /\ pipeResult' = pipeResult
    BY <1>3 DEF MergeAll, TakesArrival
  <2>2. SentOnce' /\ arrived' \in Seq(Arrivals)
    BY <1>1, <2>1, HeadLeaves
  <2>3. /\ collected' \in Seq(Branches) /\ Once(collected')
        /\ \A k \in DOMAIN collected' : collected'[k] = Arrival.who
             \/ \E j \in DOMAIN collected : collected[j] = collected'[k]
        /\ \A j \in DOMAIN collected : \E k \in DOMAIN collected' : collected'[k] = collected[j]
        /\ \E k \in DOMAIN collected' : collected'[k] = Arrival.who
    <3>1. collected \in Seq(Branches) /\ Once(collected)
      BY DEF BranchType, TakenOnce, Once
    <3>2. \A j \in DOMAIN collected : collected[j] # Arrival.who
      BY <1>1, <2>1, HeadLeaves
    <3> QED BY <1>2, <2>1, <3>1, <3>2, TakenFits
  <2>4. RunType' /\ BranchType'
    BY <1>1, <2>1, <2>2, <2>3 DEF RunType, BranchType
  <2>5. FormFits' /\ Spawning'
    BY <1>1, <2>1 DEF FormFits, Spawning
  <2>6. TakenOnce'
    <3>1. \A k \in DOMAIN collected' : branch'[collected'[k]] = "ended"
      <4>1. branch[Arrival.who] = "ended"
        BY <1>1, <2>1, HeadLeaves
      <4> QED BY <1>1, <2>3, <4>1 DEF TakenOnce
    <3>2. \A k \in DOMAIN arrived', j \in DOMAIN collected' : arrived'[k].who # collected'[j]
      <4>1. \A k \in DOMAIN arrived' : arrived'[k].who # Arrival.who
        BY <1>1, <2>1, HeadLeaves
      <4>2. \A k \in DOMAIN arrived', j \in DOMAIN collected : arrived'[k].who # collected[j]
        BY <1>1, <2>1, HeadLeaves
      <4> QED BY <2>3, <4>1, <4>2
    <3> QED BY <2>3, <3>1, <3>2 DEF TakenOnce, Once
  <2>7. AllHeard'
    <3>1. \A k \in DOMAIN arrived : arrived[k].who = Arrival.who
            \/ \E j \in DOMAIN arrived' : arrived'[j].who = arrived[k].who
      BY <1>1, <2>1, HeadLeaves
    <3>2. \A b \in Branches : branch[b] = "ended" =>
            (\E k \in DOMAIN arrived : arrived[k].who = b) \/ (\E k \in DOMAIN collected : collected[k] = b)
      BY <1>1 DEF AllHeard
    <3>3. \A b \in Branches : branch[b] = "ended" =>
            (\E k \in DOMAIN arrived' : arrived'[k].who = b) \/ (\E k \in DOMAIN collected' : collected'[k] = b)
      BY <2>3, <3>1, <3>2
    <3> QED BY <1>1, <2>1, <3>3 DEF AllHeard
  <2>8. Wanting' /\ OutcomeFits'
    BY <1>1, <2>1 DEF Wanting, OutcomeFits
  <2> QED BY <2>2, <2>4, <2>5, <2>6, <2>7, <2>8
<1>4. CASE Arrival.is # "Ok"
  <2>1. /\ pipe' = "returned" /\ pipeResult' = Arrival.is
        /\ UNCHANGED <<arrived, collected>>
    BY <1>4 DEF MergeAll, Returns
  <2>2. RunType'
    BY <1>1, <1>2, <2>1 DEF RunType
  <2>3. BranchType'
    BY <1>1, <2>1 DEF BranchType
  <2>4. FormFits' /\ Spawning' /\ SentOnce' /\ TakenOnce'
    BY <1>1, <2>1 DEF FormFits, Spawning, SentOnce, TakenOnce
  <2>5. AllHeard' /\ Wanting' /\ OutcomeFits'
    BY <1>1, <1>4, <2>1 DEF AllHeard, Wanting, OutcomeFits
  <2> QED BY <2>2, <2>3, <2>4, <2>5
<1> QED BY <1>3, <1>4

(* The merges that want the first of them; an error is remembered and the  *)
(* others are heard.                                                       *)
LEMMA ErrorKeeps ==
  ASSUME PipelineType, PipelineSafe, Merging, plan.merge \in {"First", "Fastest"}, SkipsError,
         UNCHANGED <<plan, hung, step, outer, branch>>
  PROVE  PipelineType' /\ PipelineSafe'
<1> USE DEF PipelineType, PipelineSafe
<1>1. /\ pipe = "merging" /\ arrived # << >> /\ arrived' = Tail(arrived)
      /\ UNCHANGED <<pipe, pipeResult, child, collected>>
      /\ Arrival.is # "Ok"
      /\ firstError' = IF firstError = "none" THEN Arrival.is ELSE firstError
  BY DEF Merging, SkipsError
<1>2. Arrival.is \in Results
  <2>1. Arrival \in Arrivals
    BY <1>1 DEF BranchType, Arrival
  <2> QED BY <2>1 DEF Arrivals
<1>3. SentOnce' /\ arrived' \in Seq(Arrivals)
  BY <1>1, HeadLeaves
<1>4. firstError' \in (Results \ {"Ok"}) \cup {"none"}
  BY <1>1, <1>2 DEF BranchType
<1>5. RunType' /\ BranchType'
  BY <1>1, <1>3, <1>4 DEF RunType, BranchType
<1>6. FormFits' /\ Spawning'
  BY <1>1 DEF FormFits, Spawning
<1>7. TakenOnce'
  <2>1. \A k \in DOMAIN arrived', j \in DOMAIN collected : arrived'[k].who # collected[j]
    BY <1>1, HeadLeaves
  <2> QED BY <1>1, <2>1 DEF TakenOnce
<1>8. AllHeard'
  BY DEF AllHeard
<1>9. Wanting' /\ OutcomeFits'
  BY <1>1 DEF Wanting, OutcomeFits
<1> QED BY <1>3, <1>5, <1>6, <1>7, <1>8, <1>9

(* A First or Fastest merge that takes a result, and goes on or is done.   *)
LEMMA TakenKeeps ==
  ASSUME PipelineType, PipelineSafe, Merging, plan.merge \in {"First", "Fastest"}, Arrival.is = "Ok",
         arrived' = Tail(arrived),
         UNCHANGED <<plan, hung, step, outer, branch, firstError>>,
         \/ /\ plan.merge = "Fastest" /\ Len(Append(collected, Arrival.who)) < plan.quota
            /\ collected' = Append(collected, Arrival.who)
            /\ UNCHANGED <<pipe, pipeResult, child>>
         \/ /\ plan.merge = "Fastest" /\ Len(Append(collected, Arrival.who)) >= plan.quota
            /\ collected' = by_index(Append(collected, Arrival.who)) /\ Wins
         \/ /\ plan.merge = "First"
            /\ collected' = Append(collected, Arrival.who) /\ Wins
  PROVE  PipelineType' /\ PipelineSafe'
<1> USE DEF PipelineType, PipelineSafe
<1> DEFINE taken == Append(collected, Arrival.who)
<1>1. /\ pipe = "merging" /\ arrived # << >>
      /\ UNCHANGED <<plan, hung, step, outer, branch, firstError>>
      /\ plan.form = "parallel" /\ plan.quota \in Nat
  BY PlanFits DEF Merging, FormFits, RunType
<1>2. Arrival.who \in Branches
  <2>1. Arrival \in Arrivals
    BY <1>1 DEF BranchType, Arrival
  <2> QED BY <2>1 DEF Arrivals
<1>3. SentOnce' /\ arrived' \in Seq(Arrivals)
  BY <1>1, HeadLeaves
<1>4. collected \in Seq(Branches) /\ Once(collected) /\ Len(collected) \in Nat
  BY DEF BranchType, TakenOnce, Once
<1>5. \A j \in DOMAIN collected : collected[j] # Arrival.who
  BY <1>1, HeadLeaves
<1>6. /\ taken \in Seq(Branches) /\ Once(taken) /\ Len(taken) = Len(collected) + 1
      /\ \A k \in DOMAIN taken : taken[k] = Arrival.who \/ \E j \in DOMAIN collected : collected[j] = taken[k]
  BY <1>2, <1>4, <1>5, TakenFits
<1>7. /\ \A k \in DOMAIN taken : branch[taken[k]] = "ended"
      /\ \A k \in DOMAIN arrived', j \in DOMAIN taken : arrived'[k].who # taken[j]
  <2>1. branch[Arrival.who] = "ended"
    BY <1>1, HeadLeaves
  <2>2. \A k \in DOMAIN arrived' : arrived'[k].who # Arrival.who
    BY <1>1, HeadLeaves
  <2>3. \A k \in DOMAIN arrived', j \in DOMAIN collected : arrived'[k].who # collected[j]
    BY <1>1, HeadLeaves
  <2>4. \A k \in DOMAIN taken : branch[taken[k]] = "ended"
    BY <1>6, <2>1 DEF TakenOnce
  <2> QED BY <1>6, <2>2, <2>3, <2>4
<1> HIDE DEF taken
<1>8. /\ collected' \in Seq(Branches) /\ Once(collected')
      /\ Len(collected') = Len(collected) + 1
      /\ \A k \in DOMAIN collected' : \E j \in DOMAIN taken : taken[j] = collected'[k]
  <2>1. CASE collected' = taken
    BY <1>6, <2>1
  <2>2. CASE collected' = by_index(taken)
    <3>1. \A k \in DOMAIN by_index(taken) : by_index(taken)[k] \in Int
      <4>1. by_index(taken) \in Seq(Branches)
        BY <1>6, ByIndexSorts
      <4>2. \A k \in DOMAIN by_index(taken) : by_index(taken)[k] \in Branches
        BY <4>1
      <4> QED BY <4>2 DEF Branches
    <3>2. Once(by_index(taken))
      <4>1. \A k, j \in DOMAIN by_index(taken) : k < j => by_index(taken)[k] < by_index(taken)[j]
        BY <1>6, ByIndexSorts
      <4> QED BY <3>1, <4>1 DEF Once
    <3> QED BY <1>6, <2>2, <3>2, ByIndexSorts
  <2> QED BY <2>1, <2>2 DEF taken
<1>9. RunType'
  BY <1>1 DEF RunType, Wins, Returns, Results
<1>10. BranchType'
  BY <1>1, <1>3, <1>8 DEF BranchType
<1>11. FormFits' /\ Spawning'
  BY <1>1 DEF FormFits, Spawning, Wins, Returns
<1>12. TakenOnce'
  BY <1>1, <1>7, <1>8 DEF TakenOnce, Once
<1>13. AllHeard'
  BY <1>1 DEF AllHeard
<1>17. Len(taken) \in Int /\ plan.quota \in Int
  BY <1>1, <1>4, <1>6
<1>14. CASE plan.merge = "Fastest" /\ Len(taken) < plan.quota
  <2>1. UNCHANGED <<pipe, pipeResult, child>> /\ collected' = taken
    BY <1>14, <1>17 DEF taken
  <2>2. Wanting'
    BY <1>1, <1>14, <2>1 DEF Wanting
  <2> QED BY <1>1, <1>3, <1>9, <1>10, <1>11, <1>12, <1>13, <2>1, <2>2 DEF
     OutcomeFits
<1>15. CASE plan.merge = "Fastest" /\ Len(taken) >= plan.quota
  <2>1. collected' = by_index(taken) /\ pipe' = "returned" /\ pipeResult' = "Ok"
    BY <1>6, <1>4, <1>1, <1>15 DEF taken, Wins, Returns
  <2>2. Rising'
    BY <1>6, <2>1, ByIndexSorts DEF Rising
  <2>3. Len(collected) < plan.quota \/ Len(collected) = 0
    BY <1>1, <1>15, <1>4 DEF Wanting
  <2>4. Len(collected') = plan.quota \/ (plan.quota = 0 /\ Len(collected') = 1)
    BY <1>1, <1>4, <1>6, <1>8, <1>15, <2>3
  <2>5. OutcomeFits'
    BY <1>1, <1>15, <2>1, <2>2, <2>4 DEF OutcomeFits, Rising
  <2>6. Wanting'
    BY <2>1 DEF Wanting
  <2> QED BY <1>3, <1>9, <1>10, <1>11, <1>12, <1>13, <2>5, <2>6
<1>16. CASE plan.merge = "First"
  <2>1. collected' = taken /\ pipe' = "returned" /\ pipeResult' = "Ok"
    BY <1>16 DEF taken, Wins, Returns
  <2>2. Len(collected') = 1
    <3>1. collected = << >>
      BY <1>1, <1>16 DEF Wanting
    <3> QED BY <1>8, <3>1
  <2>3. Rising'
    <3>1. DOMAIN collected' = 1 .. Len(collected')
      BY <1>8
    <3>2. \A k \in DOMAIN collected' : k = 1
      BY <2>2, <3>1
    <3> QED BY <3>2 DEF Rising
  <2>5. OutcomeFits'
    BY <1>1, <1>16, <2>1, <2>2, <2>3 DEF OutcomeFits, Rising
  <2>6. Wanting'
    BY <2>1 DEF Wanting
  <2> QED BY <1>3, <1>9, <1>10, <1>11, <1>12, <1>13, <2>5, <2>6
<1> QED BY <1>14, <1>15, <1>16, <1>17

(* The channel is closed.                                                  *)
LEMMA DoneKeeps ==
  ASSUME PipelineType, PipelineSafe, BranchesDone
  PROVE  PipelineType' /\ PipelineSafe'
<1> USE DEF PipelineType, PipelineSafe
<1>1. /\ pipe = "merging" /\ arrived = << >> /\ \A b \in Branches : branch[b] \in {"none", "ended"}
      /\ UNCHANGED <<plan, hung, step, outer, child, branch, arrived, firstError>>
      /\ collected' = by_index(collected)
      /\ plan.form = "parallel"
      /\ plan.merge \in {"Concat", "Custom", "First", "Fastest"}
      /\ plan.count \in Nat /\ plan.count <= MaxBranches
  BY PlanFits DEF BranchesDone, Closed, FormFits, RunType
<1>2. collected \in Seq(Branches) /\ Once(collected)
  BY DEF BranchType, TakenOnce, Once
<1>3. /\ collected' \in Seq(Branches) /\ Len(collected') = Len(collected)
      /\ \A k \in DOMAIN collected' : \E j \in DOMAIN collected : collected[j] = collected'[k]
      /\ \A j \in DOMAIN collected : \E k \in DOMAIN collected' : collected'[k] = collected[j]
  BY <1>1, <1>2, ByIndexSorts
<1>4. \A k, j \in DOMAIN collected' : k < j => collected'[k] < collected'[j]
  BY <1>1, <1>2, ByIndexSorts
<1>5. \A k \in DOMAIN collected' : collected'[k] \in Int
  <2>1. \A k \in DOMAIN collected' : collected'[k] \in Branches
    BY <1>3
  <2> QED BY <2>1 DEF Branches
<1>6. Once(collected')
  BY <1>4, <1>5 DEF Once
<1>7. /\ pipe' \in {"returned", "aggregating"} /\ (pipe' = "aggregating" => plan.merge = "Custom")
      /\ pipeResult' \in Results \cup {"none", "MaxIterationsReached"}
  <2>1. CASE plan.merge = "Concat"
    BY <2>1 DEF BranchesDone, Returns, Results
  <2>2. CASE plan.merge = "Custom"
    BY <2>2 DEF BranchesDone, Returns, Results, RunType
  <2>3. CASE plan.merge \notin {"Concat", "Custom"}
    <3>1. /\ pipe' = "returned"
          /\ pipeResult' = IF collected # << >> THEN "Ok"
                           ELSE IF firstError # "none" THEN firstError ELSE "StepFailed"
      BY <2>3 DEF BranchesDone, Returns
    <3> QED BY <3>1 DEF BranchType, Results
  <2> QED BY <2>1, <2>2, <2>3
<1>8. RunType'
  BY <1>1, <1>7 DEF RunType
<1>9. BranchType'
  BY <1>1, <1>3 DEF BranchType
<1>10. FormFits' /\ Spawning'
  BY <1>1, <1>7 DEF FormFits, Spawning
<1>11. SentOnce'
  BY <1>1 DEF SentOnce
<1>12. TakenOnce'
  <2>1. \A k \in DOMAIN collected' : branch[collected'[k]] = "ended"
    BY <1>3 DEF TakenOnce
  <2>2. DOMAIN arrived' = {}
    BY <1>1
  <2> QED BY <1>1, <1>6, <2>1, <2>2 DEF TakenOnce, Once
<1>13. AllHeard'
  BY <1>7 DEF AllHeard
<1>14. plan.merge \in {"Concat", "Custom"} => Successes' = 1 .. plan.count
  <2> SUFFICES ASSUME plan.merge \in {"Concat", "Custom"} PROVE Successes' = 1 .. plan.count
    OBVIOUS
  <2>1. DOMAIN arrived = {}
    BY <1>1
  <2>2. \A b \in Branches : branch[b] = "ended" <=> b <= plan.count
    <3>1. \A b \in Branches : b \in Int
      BY DEF Branches
    <3> QED BY <1>1, <3>1 DEF Spawning
  <2>3. \A b \in Branches : branch[b] = "ended" => \E k \in DOMAIN collected : collected[k] = b
    BY <1>1, <2>1 DEF AllHeard
  <2>4. \A b \in Branches : b <= plan.count <=> \E k \in DOMAIN collected' : collected'[k] = b
    BY <1>3, <2>2, <2>3 DEF TakenOnce
  <2>5. Successes' = {b \in Branches : b <= plan.count}
    BY <2>4 DEF Successes
  <2>6. \A b : b \in 1 .. plan.count <=> b \in Branches /\ b <= plan.count
    BY <1>1, PipelinesAssumption DEF Branches
  <2> QED BY <2>5, <2>6
<1>15. Wanting'
  BY <1>4, <1>7, <1>14, <1>1 DEF Wanting, Rising
<1>16. OutcomeFits'
  <2>1. CASE plan.merge \in {"Concat", "Custom"}
    BY <1>1, <1>4, <1>14, <2>1 DEF OutcomeFits
  <2>2. CASE plan.merge \in {"First", "Fastest"}
    <3>1. pipeResult' = IF collected # << >> THEN "Ok"
                        ELSE IF firstError # "none" THEN firstError ELSE "StepFailed"
      BY <2>2 DEF BranchesDone, Returns
    <3>2. CASE collected = << >>
      <4>1. pipeResult' # "Ok"
        BY <3>1, <3>2 DEF BranchType
      <4>2. collected' = << >>
        BY <1>3, <3>2
      <4> QED BY <4>1, <4>2 DEF OutcomeFits
    <3>3. CASE collected # << >>
      <4>1. pipeResult' = "Ok" /\ plan.merge = "Fastest" /\ Len(collected') < plan.quota
        BY <1>1, <1>3, <2>2, <3>1, <3>3 DEF Wanting
      <4> QED BY <1>1, <1>4, <4>1 DEF OutcomeFits
    <3> QED BY <3>2, <3>3
  <2> QED BY <1>1, <2>1, <2>2
<1> QED BY <1>8, <1>9, <1>10, <1>11, <1>12, <1>13, <1>15, <1>16

(* The prompt of the aggregator of merge_custom returns.                   *)
LEMMA AggregatorKeeps ==
  ASSUME PipelineType, PipelineSafe, AggregatorReturns
  PROVE  PipelineType' /\ PipelineSafe'
<1> USE DEF PipelineType, PipelineSafe
<1>1. /\ pipe = "aggregating" /\ pipe' = "returned"
      /\ pipeResult' \in {"Ok", "StepFailed"}
      /\ UNCHANGED <<plan, hung, step, outer, child, branch, arrived, collected, firstError>>
      /\ plan.merge = "Custom"
  BY DEF AggregatorReturns, Returns, FormFits
<1>2. RunType' /\ BranchType'
  BY <1>1 DEF RunType, BranchType, Results
<1>3. FormFits' /\ Spawning' /\ SentOnce' /\ TakenOnce'
  BY <1>1 DEF FormFits, Spawning, SentOnce, TakenOnce
<1>4. AllHeard' /\ Wanting'
  BY <1>1 DEF AllHeard, Wanting
<1>5. OutcomeFits'
  BY <1>1 DEF OutcomeFits, Wanting, Rising, Successes
<1> QED BY <1>2, <1>3, <1>4, <1>5

(* A run starts with nothing spawned, sent or taken.                       *)
LEMMA PipelineStarts == PipelinesInit => PipelineType /\ PipelineSafe
<1> SUFFICES ASSUME PipelinesInit PROVE PipelineType /\ PipelineSafe
  OBVIOUS
<1> USE DEF PipelinesInit
<1>1. RunType /\ BranchType
  <2>1. plan \in Plans /\ pipe = "begin" /\ pipeResult = "none" /\ step \in Nat
    OBVIOUS
  <2>2. outer \in BOOLEAN /\ child \in BOOLEAN
    BY Zenon
  <2>3. RunType
    BY <2>1, <2>2 DEF RunType
  <2>4. BranchType
    BY DEF BranchType
  <2> QED BY <2>3, <2>4
<1>2. FormFits /\ Spawning /\ SentOnce /\ TakenOnce
  BY DEF FormFits, Spawning, SentOnce, TakenOnce
<1>3. AllHeard /\ Wanting /\ OutcomeFits
  BY DEF AllHeard, Wanting, OutcomeFits
<1> QED BY <1>1, <1>2, <1>3 DEF PipelineType, PipelineSafe

(* Every step of run_sequential, run_loop and run_parallel keeps the       *)
(* invariant.                                                              *)
LEMMA PipelineKeeps ==
  PipelineType /\ PipelineSafe /\ [PipelinesNext]_pipelineVars => PipelineType' /\ PipelineSafe'
<1> SUFFICES ASSUME PipelineType, PipelineSafe, [PipelinesNext]_pipelineVars
             PROVE  PipelineType' /\ PipelineSafe'
  OBVIOUS
<1>1. CASE CancelPipeline \/ Steps
  BY <1>1, StepsKeep, BeginKeeps DEF Steps
<1>2. CASE MergeAll
  BY <1>2, AllKeeps
<1>3. CASE merge_first
  <2>1. /\ Merging /\ plan.merge = "First"
        /\ UNCHANGED <<plan, hung, step, outer, branch>>
        /\ SkipsError \/ (Arrival.is = "Ok" /\ TakesArrival /\ Wins)
    BY <1>3 DEF merge_first
  <2>2. CASE SkipsError
    BY <2>1, <2>2, ErrorKeeps
  <2>3. CASE Arrival.is = "Ok" /\ TakesArrival /\ Wins
    BY <2>1, <2>3, TakenKeeps DEF TakesArrival
  <2> QED BY <2>1, <2>2, <2>3
<1>4. CASE merge_fastest
  <2> DEFINE taken == Append(collected, Arrival.who)
  <2>1. /\ Merging /\ plan.merge = "Fastest"
        /\ UNCHANGED <<plan, hung, step, outer, branch>>
        /\ \/ SkipsError
           \/ /\ Arrival.is = "Ok" /\ arrived' = Tail(arrived) /\ UNCHANGED firstError
              /\ IF Len(taken) >= plan.quota THEN collected' = by_index(taken) /\ Wins
                 ELSE collected' = taken /\ UNCHANGED <<pipe, pipeResult, child>>
    BY <1>4 DEF merge_fastest
  <2>2. CASE SkipsError
    BY <2>1, <2>2, ErrorKeeps
  <2>3. CASE ~SkipsError
    <3>1. Len(taken) \in Int /\ plan.quota \in Int
      <4>1. collected \in Seq(Branches) /\ plan.quota \in Nat
        BY PlanFits DEF PipelineType, RunType, BranchType
      <4> QED BY <4>1
    <3>2. Len(taken) >= plan.quota \/ Len(taken) < plan.quota
      BY <3>1
    <3>3. ~(Len(taken) >= plan.quota) <=> Len(taken) < plan.quota
      BY <3>1
    <3> QED BY <2>1, <2>3, <3>2, <3>3, TakenKeeps
  <2> QED BY <2>2, <2>3
<1>5. CASE BranchesDone
  BY <1>5, DoneKeeps
<1>6. CASE AggregatorReturns
  BY <1>6, AggregatorKeeps
<1>7. ASSUME NEW b \in Branches, BranchSteps(b) PROVE PipelineType' /\ PipelineSafe'
  <2>1. CASE BranchStarts(b)
    <3>1. CASE branch' = [branch EXCEPT ![b] = "prompting"]
               /\ UNCHANGED <<plan, hung, pipe, pipeResult, step, outer, child, arrived, collected, firstError>>
      BY <2>1, <3>1, PromptKeeps DEF BranchStarts
    <3>2. ASSUME NEW r \in {"Cancelled", "AgentNotFound"}, BranchEnds(b, r)
          PROVE  PipelineType' /\ PipelineSafe'
      BY <2>1, <3>2, EndKeeps DEF BranchStarts, Results
    <3> QED BY <2>1, <3>1, <3>2 DEF BranchStarts
  <2>2. CASE BranchReturns(b)
    <3>1. PICK r \in {"Ok", "StepFailed"} : BranchEnds(b, r)
      BY <2>2 DEF BranchReturns
    <3> QED BY <2>2, <3>1, EndKeeps DEF BranchReturns, Results
  <2>3. CASE BranchCancelled(b)
    BY <2>3, EndKeeps DEF BranchCancelled, Results
  <2> QED BY <1>7, <2>1, <2>2, <2>3 DEF BranchSteps
<1>8. CASE UNCHANGED pipelineVars
  <2>1. UNCHANGED <<plan, hung, pipe, pipeResult, step, outer, child, branch, arrived, collected, firstError>>
    BY <1>8 DEF pipelineVars
  <2>2. PipelineType'
    BY <2>1 DEF PipelineType, RunType, BranchType
  <2>3. FormFits' /\ Spawning' /\ SentOnce' /\ TakenOnce' /\ AllHeard'
    BY <2>1 DEF PipelineSafe, FormFits, Spawning, SentOnce, TakenOnce, AllHeard
  <2>4. Wanting' /\ OutcomeFits'
    BY <2>1 DEF PipelineSafe, Wanting, Rising, Successes, OutcomeFits
  <2> QED BY <2>2, <2>3, <2>4 DEF PipelineSafe
<1> QED BY <1>1, <1>2, <1>3, <1>4, <1>5, <1>6, <1>7, <1>8 DEF PipelinesNext, Merge

(* The types are kept.                                                     *)
THEOREM PipelineTypeCorrect == PipelinesSpec => []PipelineType
<1>1. PipelineType /\ PipelineSafe => PipelineType
  OBVIOUS
<1> QED BY <1>1, PipelineStarts, PipelineKeeps, PTL DEF PipelinesSpec

(* What a merge reports fits what the branches gave, in whatever order     *)
(* they ended (merge_concat, merge_first, merge_fastest, merge_custom).    *)
THEOREM MergesFit == PipelinesSpec => []OutcomeFits
<1>1. PipelineType /\ PipelineSafe => OutcomeFits
  BY DEF PipelineSafe
<1> QED BY <1>1, PipelineStarts, PipelineKeeps, PTL DEF PipelinesSpec

-----------------------------------------------------------------------------
(* Runs of an eval set.                                                    *)
EvalFlags == runOpen \in BOOLEAN /\ runToken \in BOOLEAN /\ stuck \in BOOLEAN
(* What the cases of a set have come to.                                   *)
EvalCases ==
  /\ stage \in [Cases -> {"queued", "waiting", "agent", "scoring", "done"}]
  /\ invocation \in [Cases -> {"none", "genuine", "placeholder"}]
  /\ store \in [Cases -> {"none", "genuine", "placeholder"}]
  /\ samples \in [Cases -> Seq({"pass", "fail", "none"})]
  /\ result \in [Cases -> {"none", "pass", "fail"}]

(* Cases, samples and the cache hold values the code's types allow.        *)
EvalType == EvalFlags /\ EvalCases /\ sets \in Nat /\ attempt \in Nat

(* The strengthening for PassEarned: only a settled case has a result.     *)
SettledOnly == \A c \in Cases : stage[c] # "done" => result[c] = "none"
(* The inductive invariant.                                                *)
EvalSafe == SettledOnly /\ PassEarned

(* Before run_set no case has a result.                                    *)
LEMMA EvalStarts == EvalInit => EvalType /\ EvalSafe
<1> SUFFICES ASSUME EvalInit PROVE EvalType /\ EvalSafe
  OBVIOUS
<1>1. EvalFlags
  BY Zenon DEF EvalInit, EvalFlags
<1>2. EvalCases
  BY DEF EvalCases, EvalInit, Fresh
<1>3. EvalSafe
  BY DEF EvalInit, EvalSafe, SettledOnly, PassEarned, Fresh
<1>4. sets \in Nat /\ attempt \in Nat
  BY DEF EvalInit
<1> QED BY <1>1, <1>2, <1>3, <1>4 DEF EvalType

(* A case that is not settled has no result, so whatever happens to it and *)
(* to the run leaves every earned pass alone.                              *)
LEMMA CaseMoves ==
  ASSUME EvalSafe, NEW c \in Cases, stage[c] # "done",
         \A d \in Cases \ {c} : stage'[d] = stage[d] /\ samples'[d] = samples[d] /\ result'[d] = result[d],
         result'[c] = "none" \/ (stage'[c] = "done" /\ result'[c] = "fail")
  PROVE  EvalSafe'
<1>1. SettledOnly'
  BY DEF EvalSafe, SettledOnly
<1>2. PassEarned'
  BY DEF EvalSafe, PassEarned
<1> QED BY <1>1, <1>2 DEF EvalSafe

(* A case settled as failed: cancelled_case_result.                        *)
LEMMA SettleKeeps ==
  ASSUME EvalType, EvalSafe, NEW c \in Cases, stage[c] # "done", Settle(c, "fail"),
         UNCHANGED <<sets, runOpen, runToken, samples, attempt, store, stuck, invocation>>
  PROVE  EvalType' /\ EvalSafe'
<1>1. EvalCases'
  BY DEF EvalType, EvalCases, Settle
<1>2. EvalFlags'
  BY DEF EvalType, EvalFlags
<1>3. /\ \A d \in Cases \ {c} : stage'[d] = stage[d] /\ samples'[d] = samples[d] /\ result'[d] = result[d]
      /\ stage'[c] = "done" /\ result'[c] = "fail"
  BY DEF EvalType, EvalCases, Settle
<1>4. EvalSafe'
  BY <1>3, CaseMoves
<1> QED BY <1>1, <1>2, <1>4 DEF EvalType

(* The case goes on to its next stage, without a result.                   *)
LEMMA StageKeeps ==
  ASSUME EvalType, EvalSafe, NEW c \in Cases, stage[c] # "done",
         NEW s \in {"waiting", "agent", "scoring"}, stage' = [stage EXCEPT ![c] = s],
         UNCHANGED <<sets, runOpen, runToken, samples, attempt, stuck, result>>,
         invocation' \in [Cases -> {"none", "genuine", "placeholder"}],
         store' \in [Cases -> {"none", "genuine", "placeholder"}]
  PROVE  EvalType' /\ EvalSafe'
<1>1. EvalCases'
  BY DEF EvalType, EvalCases
<1>2. EvalFlags'
  BY DEF EvalType, EvalFlags
<1>3. /\ \A d \in Cases \ {c} : stage'[d] = stage[d] /\ samples'[d] = samples[d] /\ result'[d] = result[d]
      /\ result'[c] = "none"
  BY DEF EvalType, EvalCases, EvalSafe, SettledOnly
<1>4. EvalSafe'
  BY <1>3, CaseMoves
<1> QED BY <1>1, <1>2, <1>4 DEF EvalType

(* dispatch_evaluators adds the metric of one sample.                      *)
LEMMA SampledKeeps ==
  ASSUME EvalType, EvalSafe, NEW c \in Cases, stage[c] = "scoring",
         NEW metric \in {"pass", "fail", "none"}, Sampled(c, metric)
  PROVE  EvalType' /\ EvalSafe'
<1>1. EvalCases'
  BY DEF EvalType, EvalCases, Sampled
<1>2. EvalFlags'
  BY DEF EvalType, EvalFlags, Sampled
<1>3. /\ \A d \in Cases \ {c} : stage'[d] = stage[d] /\ samples'[d] = samples[d] /\ result'[d] = result[d]
      /\ result'[c] = "none"
  BY DEF EvalType, EvalCases, EvalSafe, SettledOnly, Sampled
<1>4. EvalSafe'
  BY <1>3, CaseMoves
<1>5. sets' \in Nat /\ attempt' \in Nat
  BY DEF Sampled, EvalType
<1> QED BY <1>1, <1>2, <1>4, <1>5 DEF EvalType

(* execute_case has its invocation, from the cache or the agent, and goes  *)
(* on to its scoring.                                                      *)
LEMMA InvokedKeeps ==
  ASSUME EvalType, EvalSafe, NEW c \in Cases, stage[c] = "agent",
         NEW inv \in {"genuine", "placeholder"}, Invoked(c, inv)
  PROVE  EvalType' /\ EvalSafe'
<1>1. invocation' \in [Cases -> {"none", "genuine", "placeholder"}]
  BY DEF EvalType, EvalCases, Invoked
<1>2. store' \in [Cases -> {"none", "genuine", "placeholder"}]
  BY DEF EvalType, EvalCases, Invoked, StorePut
<1> QED BY <1>1, <1>2, StageKeeps DEF Invoked

(* The scores alone decide: a pass is among the metrics of all samples.    *)
LEMMA FinishKeeps ==
  ASSUME EvalType, EvalSafe, NEW c \in Cases, FinishCase(c)
  PROVE  EvalType' /\ EvalSafe'
<1>1. PICK v \in CaseVerdicts(c) : Scored(c, v)
  BY DEF FinishCase
<1>2. samples[c] \in Seq({"pass", "fail", "none"}) /\ Len(samples[c]) = NumRuns
  BY DEF EvalType, EvalCases, FinishCase
<1>3. v = "fail" \/ v \in {samples[c][k] : k \in 1 .. Len(samples[c])} \ {"none"}
  BY DEF CaseVerdicts
<1>4. v \in {"pass", "fail"}
  BY <1>2, <1>3
<1>5. v = "pass" => \E k \in 1 .. NumRuns : samples[c][k] = "pass"
  BY <1>2, <1>3
<1>6. /\ UNCHANGED <<sets, runOpen, runToken, invocation, samples, attempt, store, stuck>>
      /\ stage' = [stage EXCEPT ![c] = "done"] /\ result' = [result EXCEPT ![c] = v]
  BY <1>1 DEF Scored, Settle
<1>7. EvalCases'
  BY <1>4, <1>6 DEF EvalType, EvalCases
<1>8. EvalFlags'
  BY <1>6 DEF EvalType, EvalFlags
<1>9. \A d \in Cases : /\ stage'[d] = IF d = c THEN "done" ELSE stage[d]
                       /\ result'[d] = IF d = c THEN v ELSE result[d]
  BY <1>6 DEF EvalType, EvalCases
<1>10. SettledOnly'
  BY <1>9 DEF EvalSafe, SettledOnly
<1>11. PassEarned'
  BY <1>2, <1>5, <1>6, <1>9 DEF EvalSafe, PassEarned
<1> QED BY <1>6, <1>7, <1>8, <1>10, <1>11 DEF EvalType, EvalSafe

(* run_set returns or is dropped, and the cases are fresh for the next     *)
(* one.                                                                    *)
LEMMA ClosesKeeps ==
  ASSUME EvalType, EvalSafe, Closes
  PROVE  EvalType' /\ EvalSafe'
<1>1. EvalFlags'
  BY Zenon DEF Closes, EvalType, EvalFlags
<1>2. EvalCases'
  BY DEF EvalType, EvalCases, Closes, Fresh
<1>3. EvalSafe'
  BY DEF Closes, EvalSafe, SettledOnly, PassEarned, Fresh
<1>4. sets' \in Nat /\ attempt' \in Nat
  BY DEF Closes, EvalType
<1> QED BY <1>1, <1>2, <1>3, <1>4 DEF EvalType

(* Nothing of a case changes.                                              *)
LEMMA CasesStay ==
  ASSUME EvalType, EvalSafe, UNCHANGED <<stage, invocation, samples, result, store>>,
         EvalFlags', sets' \in Nat, attempt' \in Nat
  PROVE  EvalType' /\ EvalSafe'
<1>1. EvalCases'
  BY DEF EvalType, EvalCases
<1>2. EvalSafe'
  BY DEF EvalSafe, SettledOnly, PassEarned
<1> QED BY <1>1, <1>2 DEF EvalType

(* Every step of the runner, of the agents and of the judges keeps the     *)
(* invariant.                                                              *)
LEMMA EvalKeeps == EvalType /\ EvalSafe /\ [EvalNext]_evalVars => EvalType' /\ EvalSafe'
<1> SUFFICES ASSUME EvalType, EvalSafe, [EvalNext]_evalVars PROVE EvalType' /\ EvalSafe'
  OBVIOUS
<1>1. CASE RunSet
  <2>1. EvalFlags'
    BY <1>1, Zenon DEF RunSet, EvalType, EvalFlags
  <2> QED BY <1>1, <2>1, CasesStay DEF RunSet, EvalType
<1>2. CASE CancelRun
  <2>1. EvalFlags'
    BY <1>2, Zenon DEF CancelRun, EvalType, EvalFlags
  <2> QED BY <1>2, <2>1, CasesStay DEF CancelRun, EvalType
<1>3. CASE DropSet \/ SetReturn
  BY <1>3, ClosesKeeps DEF DropSet, SetReturn
<1>4. ASSUME NEW c \in Cases, FirstPoll(c) PROVE EvalType' /\ EvalSafe'
  <2>1. CASE runToken
    BY <1>4, <2>1, SettleKeeps DEF FirstPoll
  <2>2. CASE ~runToken
    BY <1>4, <2>2, StageKeeps DEF FirstPoll, EvalType, EvalCases
  <2> QED BY <2>1, <2>2
<1>5. ASSUME NEW c \in Cases, WaitCancelled(c) PROVE EvalType' /\ EvalSafe'
  BY <1>5, SettleKeeps DEF WaitCancelled
<1>6. ASSUME NEW c \in Cases, AcquirePermit(c) PROVE EvalType' /\ EvalSafe'
  <2>1. PICK cached \in StoreGet(c) :
          \/ /\ cached # "none"
             /\ invocation' = [invocation EXCEPT ![c] = cached]
             /\ stage' = [stage EXCEPT ![c] = "scoring"]
             /\ UNCHANGED result
          \/ /\ cached = "none"
             /\ stage' = [stage EXCEPT ![c] = "agent"]
             /\ UNCHANGED <<invocation, result>>
          \/ cached = "none" /\ Settle(c, "fail") /\ UNCHANGED invocation
    BY <1>6 DEF AcquirePermit
  <2>2. /\ stage[c] = "waiting"
        /\ UNCHANGED <<sets, runOpen, runToken, samples, attempt, store, stuck>>
    BY <1>6 DEF AcquirePermit
  <2>3. cached \in {"none", "genuine", "placeholder"}
    BY DEF StoreGet, EvalType, EvalCases
  <2>4. store' \in [Cases -> {"none", "genuine", "placeholder"}]
    BY <2>2 DEF EvalType, EvalCases
  <2>5. CASE invocation' = [invocation EXCEPT ![c] = cached]
             /\ stage' = [stage EXCEPT ![c] = "scoring"] /\ UNCHANGED result
    <3>1. invocation' \in [Cases -> {"none", "genuine", "placeholder"}]
      BY <2>3, <2>5 DEF EvalType, EvalCases
    <3> QED BY <2>2, <2>4, <2>5, <3>1, StageKeeps
  <2>6. CASE stage' = [stage EXCEPT ![c] = "agent"] /\ UNCHANGED <<invocation, result>>
    <3>1. invocation' \in [Cases -> {"none", "genuine", "placeholder"}]
      BY <2>6 DEF EvalType, EvalCases
    <3> QED BY <2>2, <2>4, <2>6, <3>1, StageKeeps
  <2>7. CASE Settle(c, "fail") /\ UNCHANGED invocation
    BY <2>2, <2>7, SettleKeeps
  <2> QED BY <2>1, <2>5, <2>6, <2>7
<1>7. ASSUME NEW c \in Cases, AgentCancelled(c) \/ AgentReturns(c) PROVE EvalType' /\ EvalSafe'
  BY <1>7, InvokedKeeps DEF AgentCancelled, AgentReturns
<1>8. ASSUME NEW c \in Cases, BeginSample(c) PROVE EvalType' /\ EvalSafe'
  <2>1. EvalFlags'
    BY <1>8 DEF BeginSample, EvalType, EvalFlags
  <2> QED BY <1>8, <2>1, CasesStay DEF BeginSample, EvalType
<1>9. ASSUME NEW c \in Cases, EvaluatorAnswers(c) PROVE EvalType' /\ EvalSafe'
  BY <1>9, SampledKeeps DEF EvaluatorAnswers, Sampling
<1>10. ASSUME NEW c \in Cases, JudgeTransportError(c) PROVE EvalType' /\ EvalSafe'
  <2>1. CASE Sampled(c, "fail")
    BY <1>10, <2>1, SampledKeeps DEF JudgeTransportError, Sampling
  <2>2. CASE attempt' = attempt + 1
             /\ UNCHANGED <<sets, runOpen, runToken, stage, invocation, samples, result, store, stuck>>
    <3>1. EvalFlags'
      BY <2>2 DEF EvalType, EvalFlags
    <3> QED BY <2>2, <3>1, CasesStay DEF EvalType
  <2> QED BY <1>10, <2>1, <2>2 DEF JudgeTransportError
<1>11. ASSUME NEW c \in Cases, JudgeCancelled(c) PROVE EvalType' /\ EvalSafe'
  BY <1>11, SampledKeeps DEF JudgeCancelled, Sampling
<1>12. ASSUME NEW c \in Cases, SamplesCancelled(c) PROVE EvalType' /\ EvalSafe'
  BY <1>12, SettleKeeps DEF SamplesCancelled, Scored
<1>13. ASSUME NEW c \in Cases, FinishCase(c) PROVE EvalType' /\ EvalSafe'
  BY <1>13, FinishKeeps
<1>14. CASE UNCHANGED evalVars
  <2>1. EvalFlags'
    BY <1>14 DEF evalVars, EvalType, EvalFlags
  <2> QED BY <1>14, <2>1, CasesStay DEF evalVars, EvalType
<1> QED BY <1>1, <1>2, <1>3, <1>4, <1>5, <1>6, <1>7, <1>8, <1>9, <1>10, <1>11,
   <1>12, <1>13, <1>14 DEF EvalNext, RunnerSteps, Answers

(* The types are kept.                                                     *)
THEOREM EvalTypeCorrect == EvalSpec => []EvalType
<1> QED BY EvalStarts, EvalKeeps, PTL DEF EvalSpec

(* A case passes only on all of its samples, one of them passed, whatever  *)
(* is cancelled while it is scored (dispatch_evaluators,                   *)
(* scored_case_result).                                                    *)
THEOREM PassesEarned == EvalSpec => []PassEarned
<1>1. EvalType /\ EvalSafe => PassEarned
  BY DEF EvalSafe
<1> QED BY <1>1, EvalStarts, EvalKeeps, PTL DEF EvalSpec

-----------------------------------------------------------------------------
(* Calls to a judge.                                                       *)
(* Clients, tokens and counters hold values the code's types allow.        *)
JudgeType ==
  /\ judge \in JudgeClients /\ asker \in {"evaluator", "batch"}
  /\ tokens \subseteq {"client", "registry", "scope"} /\ fired \subseteq tokens
  /\ asker = "batch" => tokens = {"client"}
  /\ judgeStep \in {"idle", "calling", "ready", "waiting", "pausing", "returned"}
  /\ calls \in Nat /\ attempts \in Nat /\ sent \in Nat
  /\ outcomes \in Seq(Range(outcomes))

(* How often judge_with_retry may call the client for a prompt; a batch    *)
(* calls it once.                                                          *)
OuterCalls == IF asker = "evaluator" THEN CallAttempts ELSE 1
(* Calls are counted before they are made, and never above the policy of   *)
(* retry_builder.                                                          *)
CallsSpent ==
  /\ judgeStep = "idle" => calls = 0
  /\ judgeStep = "calling" => calls < OuterCalls
  /\ judgeStep \notin {"idle", "calling"} => calls \in 1 .. OuterCalls
(* retry_with_cancel counts a request when it sends it, and pauses only    *)
(* when it may send another one.                                           *)
AttemptsSpent ==
  /\ judgeStep = "ready" => attempts = 0
  /\ judgeStep = "pausing" => attempts < ClientAttempts
  /\ judgeStep = "waiting" => attempts <= ClientAttempts
(* What has been sent is within what the finished calls could send and the *)
(* requests of the current one: the two policies multiply.                 *)
RequestsSpent ==
  /\ sent <= ClientAttempts * OuterCalls
  /\ judgeStep \in {"calling", "returned"} => sent <= ClientAttempts * calls
  /\ judgeStep \in {"ready", "waiting", "pausing"} => sent <= ClientAttempts * (calls - 1) + attempts
(* A call that has returned has a verdict or an error.                     *)
Answered == judgeStep = "returned" => failure.is # "none"
(* A prompt in progress has not had its result yet.                        *)
Owing == judgeStep # "idle" => Len(outcomes) < Prompts
(* The strengthening for CallsBounded.                                     *)
JudgeSafe == CallsSpent /\ AttemptsSpent /\ RequestsSpent /\ Answered /\ Owing /\ CallsBounded

(* Nothing is called, sent or handed over before the first prompt.         *)
LEMMA JudgeStarts == JudgeInit => JudgeType /\ JudgeSafe
<1> SUFFICES ASSUME JudgeInit PROVE JudgeType /\ JudgeSafe
  OBVIOUS
<1>1. /\ judge \in JudgeClients /\ asker \in {"evaluator", "batch"} /\ fired = {}
      /\ tokens \subseteq {"client", "registry", "scope"} /\ (asker = "batch" => tokens = {"client"})
      /\ judgeStep = "idle" /\ calls = 0 /\ attempts = 0 /\ sent = 0 /\ outcomes = << >>
  BY DEF JudgeInit
<1>2. ~late
  BY Zenon DEF JudgeInit
<1>3. ClientAttempts \in Nat /\ CallAttempts \in Nat /\ BatchPrompts \in Nat
  BY JudgeAssumption DEF build
<1>4. 0 <= ClientAttempts * OuterCalls /\ OuterCalls \in Nat
  <2>1. OuterCalls \in Nat
    BY <1>3 DEF OuterCalls
  <2> QED BY <1>3, <2>1
<1>5. JudgeType
  BY <1>1 DEF JudgeType
<1>6. CallsSpent /\ AttemptsSpent /\ Answered /\ Owing
  BY <1>1 DEF CallsSpent, AttemptsSpent, Answered, Owing
<1>7. RequestsSpent
  BY <1>1, <1>4 DEF RequestsSpent
<1>8. CallsBounded
  <2>1. sent <= ClientAttempts * (IF asker = "evaluator" THEN CallAttempts ELSE 1)
    BY <1>1, <1>4 DEF OuterCalls
  <2>2. Len(outcomes) <= Prompts
    BY <1>1, <1>3 DEF Prompts
  <2>3. (judgeStep \in {"pausing", "calling"} /\ sent > 0 => failure.is = "transport")
        /\ \A k \in DOMAIN outcomes : outcomes[k].is # "none"
    BY <1>1
  <2> QED BY <1>2, <2>1, <2>2, <2>3 DEF CallsBounded
<1> QED BY <1>5, <1>6, <1>7, <1>8 DEF JudgeSafe

(* What CallsBounded says, apart from the cancelled calls.                 *)
Given ==
  /\ judgeStep \in {"pausing", "calling"} /\ sent > 0 => failure.is = "transport"
  /\ Len(outcomes) <= Prompts
  /\ \A k \in DOMAIN outcomes : outcomes[k].is # "none"
(* CallsBounded in its parts.                                              *)
LEMMA BoundedIs == CallsBounded <=> ~late /\ sent <= ClientAttempts * OuterCalls /\ Given
BY Zenon DEF CallsBounded, OuterCalls, Given

(* The two policies as numbers, and what a call more allows.               *)
LEMMA CountsFit ==
  ASSUME JudgeType, JudgeSafe
  PROVE  /\ ClientAttempts \in Nat \ {0} /\ OuterCalls \in Nat \ {0} /\ Prompts \in Nat
         /\ \A c \in 0 .. OuterCalls : ClientAttempts * c <= ClientAttempts * OuterCalls
         /\ \A c \in Nat : ClientAttempts * (c + 1) = ClientAttempts * c + ClientAttempts
         /\ \A c \in Nat : ClientAttempts * c \in Nat
<1>1. ClientAttempts \in Nat \ {0} /\ CallAttempts \in Nat \ {0} /\ BatchPrompts \in Nat
  BY JudgeAssumption DEF build
<1>2. OuterCalls \in Nat \ {0} /\ Prompts \in Nat
  BY <1>1 DEF OuterCalls, Prompts
<1>3. \A c \in Nat : \A d \in Nat : c <= d => ClientAttempts * c <= ClientAttempts * d
  BY <1>1
<1>4. \A c \in Nat : ClientAttempts * (c + 1) = ClientAttempts * c + ClientAttempts
  BY <1>1
<1>5. \A c \in Nat : ClientAttempts * c \in Nat
  BY <1>1
<1>6. \A c \in 0 .. OuterCalls : c \in Nat /\ c <= OuterCalls
  BY <1>2
<1> QED BY <1>1, <1>2, <1>3, <1>4, <1>5, <1>6

(* What appending a result does to the results handed over.                *)
LEMMA OneMore ==
  ASSUME NEW s, s \in Seq(Range(s)), NEW e
  PROVE  /\ Append(s, e) \in Seq(Range(Append(s, e))) /\ Len(Append(s, e)) = Len(s) + 1
         /\ \A k \in DOMAIN Append(s, e) : Append(s, e)[k] = e \/ \E j \in DOMAIN s : Append(s, e)[k] = s[j]
<1> DEFINE S == Range(s) \cup {e}
<1>1. s \in Seq(S)
  BY DEF S
<1> HIDE DEF S
<1>2. e \in S
  BY DEF S
<1> DEFINE a == Append(s, e)
<1>3. a \in Seq(S) /\ Len(a) = Len(s) + 1 /\ Len(a) \in Nat /\ DOMAIN a = 1 .. Len(a)
      /\ \A k \in DOMAIN a : a[k] = e \/ (k \in DOMAIN s /\ a[k] = s[k])
  BY <1>1, <1>2
<1> HIDE DEF a
<1>4. a \in Seq(Range(a))
  <2>1. a = [k \in 1 .. Len(a) |-> a[k]]
    BY <1>3
  <2>2. \A k \in 1 .. Len(a) : a[k] \in Range(a)
    BY <1>3 DEF Range
  <2>3. a \in [1 .. Len(a) -> Range(a)]
    BY <2>1, <2>2
  <2> QED BY <1>3, <2>3
<1> QED BY <1>3, <1>4 DEF a

(* An attempt gives a verdict or an error, whatever the reply.             *)
LEMMA DispatchAnswers ==
  ASSUME JudgeType, NEW reply
  PROVE  dispatch_once(reply).is # "none"
<1>1. \A t : parse_verdict_text(t).is # "none"
  BY DEF parse_verdict_text, JudgeVerdict, Failure
<1>2. \A p : FirstOf(p).is # "none"
  BY <1>1 DEF FirstOf, Failure
<1>3. \A p : FirstText(p).is # "none"
  BY <1>2 DEF FirstText
<1>4. \A s : classify_http_error(s).is # "none"
  BY DEF classify_http_error, Failure
<1>5. \A v : v.is # "none" => FromReply(reply, v).is # "none"
  BY <1>4 DEF FromReply, Failure
<1>6. judge \in {"openai", "azure", "xai", "mistral", "anthropic", "bedrock", "gemini", "ollama", "proxy"}
  BY JudgeAssumption DEF JudgeType
<1>7. proxy_dispatch_once(reply).is # "none"
  <2>1. (IF Len(ReplyParts(reply)) = 1 THEN parse_verdict_text(ReplyParts(reply)[1])
         ELSE Failure("malformed")).is # "none"
    BY <1>1 DEF Failure
  <2> QED BY <1>5, <2>1 DEF proxy_dispatch_once
<1>8. \A p : FromReply(reply, FirstOf(p)).is # "none" /\ FromReply(reply, FirstText(p)).is # "none"
  BY <1>2, <1>3, <1>5
<1>9. /\ openai_dispatch_once(reply).is # "none"
      /\ azure_dispatch_once(reply).is # "none"
      /\ xai_dispatch_once(reply).is # "none"
      /\ mistral_dispatch_once(reply).is # "none"
      /\ gemini_dispatch_once(reply).is # "none"
      /\ ollama_dispatch_once(reply).is # "none"
      /\ anthropic_dispatch_once(reply).is # "none"
      /\ bedrock_dispatch_once(reply).is # "none"
  BY <1>8 DEF openai_dispatch_once, azure_dispatch_once, xai_dispatch_once,
     mistral_dispatch_once, gemini_dispatch_once, ollama_dispatch_once,
     anthropic_dispatch_once, bedrock_dispatch_once
<1> QED BY <1>6, <1>7, <1>9 DEF dispatch_once

(* A result is handed over; the prompt is through.                         *)
LEMMA HandKeeps ==
  ASSUME JudgeType, JudgeSafe, NEW r, Hand(r), r.is # "none", Len(outcomes) < Prompts
  PROVE  JudgeType' /\ JudgeSafe'
<1>1. /\ outcomes' = Append(outcomes, r) /\ judgeStep' = "idle" /\ calls' = 0
      /\ attempts' = 0
      /\ UNCHANGED <<judge, asker, flavor, tokens, fired, sent>>
  BY DEF Hand
<1>2. late' = late
  BY Zenon DEF Hand
<1>3. outcomes \in Seq(Range(outcomes))
  BY DEF JudgeType
<1>4. /\ outcomes' \in Seq(Range(outcomes')) /\ Len(outcomes') = Len(outcomes) + 1
      /\ \A k \in DOMAIN outcomes' : outcomes'[k] = r \/ \E j \in DOMAIN outcomes : outcomes'[k] = outcomes[j]
  BY <1>1, <1>3, OneMore
<1>5. JudgeType'
  BY <1>1, <1>4 DEF JudgeType
<1>6. CallsSpent' /\ AttemptsSpent' /\ Answered' /\ Owing'
  BY <1>1 DEF CallsSpent, AttemptsSpent, Answered, Owing
<1>7. RequestsSpent'
  BY <1>1 DEF JudgeSafe, RequestsSpent, OuterCalls
<1>8. Given'
  <2>1. Len(outcomes') <= Prompts
    <3>1. Len(outcomes) \in Nat /\ Prompts \in Nat
      BY <1>3, CountsFit
    <3> QED BY <1>4, <3>1
  <2>2. \A k \in DOMAIN outcomes : outcomes[k].is # "none"
    BY DEF JudgeSafe, CallsBounded
  <2>3. \A k \in DOMAIN outcomes' : outcomes'[k].is # "none"
    BY <1>4, <2>2
  <2>4. Prompts' = Prompts
    BY <1>1 DEF Prompts
  <2> QED BY <1>1, <2>1, <2>3, <2>4 DEF Given
<1>9. CallsBounded'
  <2>1. ~late
    BY Zenon, BoundedIs DEF JudgeSafe
  <2>2. sent' <= ClientAttempts * OuterCalls'
    BY <1>7 DEF RequestsSpent
  <2>3. CallsBounded' <=> ~late' /\ sent' <= ClientAttempts * OuterCalls' /\ Given'
    BY Zenon DEF CallsBounded, OuterCalls, Given
  <2> QED BY <1>2, <1>8, <2>1, <2>2, <2>3, Zenon
<1> QED BY <1>5, <1>6, <1>7, <1>9 DEF JudgeSafe

(* The steps of a call hand nothing over.                                  *)
LEMMA CallKeeps ==
  ASSUME JudgeType, JudgeSafe, UNCHANGED <<judge, asker, flavor, tokens, fired, outcomes>>, ~late',
         calls' \in Nat, attempts' \in Nat, sent' \in Nat,
         judgeStep' \in {"calling", "ready", "waiting", "pausing", "returned"},
         CallsSpent', AttemptsSpent', RequestsSpent', Answered', Len(outcomes) < Prompts,
         judgeStep' \in {"pausing", "calling"} /\ sent' > 0 => failure'.is = "transport"
  PROVE  JudgeType' /\ JudgeSafe'
<1>1. JudgeType'
  BY DEF JudgeType
<1>2. Prompts' = Prompts
  BY DEF Prompts
<1>3. Owing'
  BY <1>2 DEF Owing
<1>4. Given'
  BY <1>2 DEF JudgeSafe, CallsBounded, Given
<1>5. CallsBounded'
  <2>1. sent' <= ClientAttempts * OuterCalls'
    BY DEF RequestsSpent
  <2>2. CallsBounded' <=> ~late' /\ sent' <= ClientAttempts * OuterCalls' /\ Given'
    BY Zenon DEF CallsBounded, OuterCalls, Given
  <2> QED BY <1>4, <2>1, <2>2, Zenon
<1> QED BY <1>1, <1>3, <1>5 DEF JudgeSafe

(* Every step of the retry loops and of the holders of their tokens keeps  *)
(* the invariant.                                                          *)
LEMMA JudgeKeeps == JudgeType /\ JudgeSafe /\ [JudgeNext]_judgeVars => JudgeType' /\ JudgeSafe'
<1> SUFFICES ASSUME JudgeType, JudgeSafe, [JudgeNext]_judgeVars PROVE JudgeType' /\ JudgeSafe'
  OBVIOUS
<1>a. ~late
  BY Zenon, BoundedIs DEF JudgeSafe
<1>b. judgeStep # "idle" => Len(outcomes) < Prompts
  BY DEF JudgeSafe, Owing
<1>c. /\ calls \in Nat /\ attempts \in Nat /\ sent \in Nat
      /\ judgeStep \in {"idle", "calling", "ready", "waiting", "pausing", "returned"}
      /\ asker \in {"evaluator", "batch"}
  BY DEF JudgeType
<1>d. /\ ClientAttempts \in Nat \ {0} /\ OuterCalls \in Nat \ {0}
      /\ \A c \in 0 .. OuterCalls : ClientAttempts * c <= ClientAttempts * OuterCalls
      /\ \A c \in Nat : ClientAttempts * (c + 1) = ClientAttempts * c + ClientAttempts
      /\ \A c \in Nat : ClientAttempts * c \in Nat
  BY CountsFit
<1>e. CallsSpent /\ AttemptsSpent /\ RequestsSpent
  BY DEF JudgeSafe
<1>1. CASE Render
  <2>1. CASE asker = "evaluator" /\ Hand(Failure("prompt"))
    BY <1>1, <2>1, HandKeeps DEF Render, Failure
  <2>2. CASE ~(asker = "evaluator" /\ Hand(Failure("prompt")))
    <3>1. /\ judgeStep' = "calling" /\ sent' = 0 /\ judgeStep = "idle"
          /\ Len(outcomes) < Prompts
          /\ UNCHANGED <<judge, asker, flavor, tokens, fired, calls, attempts, failure, outcomes>>
      BY <1>1, <2>2 DEF Render
    <3>2. ~late'
      BY <1>1, <1>a, <2>2, Zenon DEF Render
    <3>3. calls = 0
      BY <1>e, <3>1 DEF CallsSpent
    <3>4. CallsSpent' /\ AttemptsSpent' /\ Answered'
      BY <1>d, <3>1, <3>3 DEF CallsSpent, AttemptsSpent, Answered, OuterCalls
    <3>5. RequestsSpent'
      <4>1. 0 <= ClientAttempts * OuterCalls /\ 0 <= ClientAttempts * calls
        BY <1>c, <1>d
      <4> QED BY <3>1, <4>1 DEF RequestsSpent, OuterCalls
    <3> QED BY <1>c, <3>1, <3>2, <3>4, <3>5, CallKeeps
  <2> QED BY <2>1, <2>2
<1>2. CASE CallStopped
  BY <1>2, <1>b, HandKeeps DEF CallStopped, Failure
<1>3. CASE CallClient
  <2>1. /\ judgeStep = "calling" /\ calls' = calls + 1
        /\ UNCHANGED <<judge, asker, flavor, tokens, fired, sent, outcomes>>
        /\ \/ judgeStep' = "returned" /\ failure' = Failure("other") /\ UNCHANGED attempts
           \/ judgeStep' = "ready" /\ attempts' = 0
    BY <1>3 DEF CallClient
  <2>2. ~late'
    BY <1>3, <1>a, Zenon DEF CallClient
  <2>3. calls < OuterCalls /\ sent <= ClientAttempts * calls
    BY <1>e, <2>1 DEF CallsSpent, RequestsSpent
  <2>4. CallsSpent' /\ AttemptsSpent'
    BY <1>c, <1>d, <2>1, <2>3 DEF CallsSpent, AttemptsSpent, OuterCalls
  <2>5. Answered'
    BY <2>1 DEF Answered, Failure
  <2>6. RequestsSpent'
    <3>1. sent <= ClientAttempts * OuterCalls
      BY <1>e DEF RequestsSpent
    <3>2. (calls + 1) - 1 = calls
      BY <1>c
    <3>3. sent <= ClientAttempts * (calls + 1)
      BY <1>c, <1>d, <2>3
    <3>4. calls' - 1 = calls
      BY <2>1, <3>2
    <3>5. CASE judgeStep' = "returned"
      BY <2>1, <3>1, <3>3, <3>5 DEF RequestsSpent, OuterCalls
    <3>6. CASE judgeStep' = "ready" /\ attempts' = 0
      <4>1. sent <= ClientAttempts * (calls' - 1) + 0
        BY <1>c, <1>d, <2>3, <3>4
      <4> QED BY <2>1, <3>1, <3>6, <4>1 DEF RequestsSpent, OuterCalls
    <3> QED BY <2>1, <3>5, <3>6
  <2>7. Len(outcomes) < Prompts
    BY <1>b, <2>1
  <2>8. calls' \in Nat /\ attempts' \in Nat /\ sent' \in Nat
    BY <1>c, <2>1
  <2> QED BY <2>1, <2>2, <2>4, <2>5, <2>6, <2>7, <2>8, CallKeeps
<1>f. judgeStep \in {"ready", "waiting", "pausing"} => sent <= ClientAttempts * calls
  <2> SUFFICES ASSUME judgeStep \in {"ready", "waiting", "pausing"} PROVE sent <= ClientAttempts * calls
    OBVIOUS
  <2>1. calls \in 1 .. OuterCalls /\ attempts <= ClientAttempts
    BY <1>c, <1>d, <1>e DEF CallsSpent, AttemptsSpent
  <2>2. sent <= ClientAttempts * (calls - 1) + attempts
    BY <1>e DEF RequestsSpent
  <2>3. calls - 1 \in Nat /\ (calls - 1) + 1 = calls
    BY <1>c, <2>1
  <2>4. ClientAttempts * calls = ClientAttempts * (calls - 1) + ClientAttempts
    BY <1>d, <2>3
  <2>5. ClientAttempts * (calls - 1) \in Nat
    BY <1>d, <2>3
  <2> QED BY <1>c, <1>d, <2>1, <2>2, <2>4, <2>5
<1>4. CASE ClientStopped
  <2>1. /\ judgeStep \in {"ready", "waiting", "pausing"}
        /\ judgeStep' = "returned" /\ failure' = Failure("other")
        /\ UNCHANGED <<judge, asker, flavor, tokens, fired, calls, attempts, sent, outcomes>>
    BY <1>4 DEF ClientStopped
  <2>2. ~late'
    BY <1>4, <1>a, Zenon DEF ClientStopped
  <2>3. CallsSpent' /\ AttemptsSpent'
    BY <1>e, <2>1 DEF CallsSpent, AttemptsSpent, OuterCalls
  <2>4. Answered'
    BY <2>1 DEF Answered, Failure
  <2>5. RequestsSpent'
    BY <1>e, <1>f, <2>1 DEF RequestsSpent, OuterCalls
  <2>6. Len(outcomes) < Prompts
    BY <1>b, <2>1
  <2> QED BY <1>c, <2>1, <2>2, <2>3, <2>4, <2>5, <2>6, CallKeeps
<1>5. CASE Request
  <2>1. /\ judgeStep \in {"ready", "pausing"}
        /\ judgeStep' = "waiting" /\ attempts' = attempts + 1 /\ sent' = sent + 1
        /\ UNCHANGED <<judge, asker, flavor, tokens, fired, calls, failure, outcomes>>
    BY <1>5 DEF Request, MayRequest
  <2>2. ~late'
    <3>1. fired = {}
      <4>1. "client" \notin fired /\ (asker = "evaluator" => fired \cap tokens \cap {"registry", "scope"} = {})
        BY <1>5 DEF Request, MayRequest, Proceeds, CallCancelled,
           ClientCancelled, CallTokens, scoped_judge_cancellation
      <4>2. fired \subseteq tokens /\ tokens \subseteq {"client", "registry", "scope"}
            /\ (asker = "batch" => tokens = {"client"})
        BY DEF JudgeType
      <4> QED BY <1>c, <4>1, <4>2
    <3> QED BY <1>5, <1>a, <3>1, Zenon DEF Request
  <2>3. attempts < ClientAttempts
    BY <1>d, <1>e, <2>1 DEF AttemptsSpent
  <2>4. CallsSpent' /\ AttemptsSpent' /\ Answered'
    BY <1>c, <1>d, <1>e, <2>1, <2>3 DEF CallsSpent, AttemptsSpent, Answered,
       OuterCalls
  <2>5. RequestsSpent'
    <3>1. calls \in 1 .. OuterCalls
      BY <1>e, <2>1 DEF CallsSpent
    <3>2. sent <= ClientAttempts * (calls - 1) + attempts
      BY <1>e, <2>1 DEF RequestsSpent
    <3>3. calls - 1 \in Nat /\ (calls - 1) + 1 = calls /\ calls \in 0 .. OuterCalls
      BY <1>c, <1>d, <3>1
    <3>4. ClientAttempts * calls = ClientAttempts * (calls - 1) + ClientAttempts
      BY <1>d, <3>3
    <3>5. ClientAttempts * (calls - 1) \in Nat /\ ClientAttempts * OuterCalls \in Nat
          /\ ClientAttempts * calls <= ClientAttempts * OuterCalls
      BY <1>d, <3>3
    <3>6. sent + 1 <= ClientAttempts * (calls - 1) + (attempts + 1)
      BY <1>c, <3>2, <3>5
    <3>7. sent + 1 <= ClientAttempts * OuterCalls
      BY <1>c, <1>d, <2>3, <3>4, <3>5, <3>6
    <3> QED BY <2>1, <3>6, <3>7 DEF RequestsSpent, OuterCalls
  <2>6. Len(outcomes) < Prompts
    BY <1>b, <2>1
  <2>7. calls' \in Nat /\ attempts' \in Nat /\ sent' \in Nat
    BY <1>c, <2>1
  <2> QED BY <2>1, <2>2, <2>4, <2>5, <2>6, <2>7, CallKeeps
<1>6. CASE Receive
  <2>1. PICK reply \in Replies :
          /\ failure' = dispatch_once(reply)
          /\ judgeStep' = IF is_retryable(dispatch_once(reply)) /\ attempts < ClientAttempts THEN "pausing"
                          ELSE "returned"
    BY <1>6 DEF Receive
  <2>2. /\ judgeStep = "waiting"
        /\ UNCHANGED <<judge, asker, flavor, tokens, fired, calls, attempts, sent, outcomes>>
    BY <1>6 DEF Receive
  <2>3. ~late'
    BY <1>6, <1>a, Zenon DEF Receive
  <2>4. failure'.is # "none"
    BY <2>1, DispatchAnswers
  <2>5. CallsSpent' /\ Answered'
    BY <1>e, <2>1, <2>2, <2>4 DEF CallsSpent, Answered, OuterCalls
  <2>6. AttemptsSpent'
    BY <1>c, <1>e, <2>1, <2>2 DEF AttemptsSpent
  <2>7. RequestsSpent'
    BY <1>e, <1>f, <2>1, <2>2 DEF RequestsSpent, OuterCalls
  <2>8. Len(outcomes) < Prompts
    BY <1>b, <2>2
  <2>9. judgeStep' \in {"pausing", "calling"} => failure'.is = "transport"
    BY <2>1 DEF is_retryable
  <2> QED BY <1>c, <2>1, <2>2, <2>3, <2>5, <2>6, <2>7, <2>8, <2>9, CallKeeps
<1>7. CASE CallAgain
  <2>1. /\ judgeStep = "returned" /\ judgeStep' = "calling" /\ asker = "evaluator"
        /\ failure.is = "transport" /\ calls < CallAttempts
        /\ UNCHANGED <<judge, asker, flavor, tokens, fired, calls, attempts, sent, failure, outcomes>>
    BY <1>7 DEF CallAgain, is_retryable_judge_error
  <2>2. ~late'
    BY <1>7, <1>a, Zenon DEF CallAgain
  <2>3. CallsSpent' /\ AttemptsSpent' /\ Answered'
    BY <2>1 DEF CallsSpent, AttemptsSpent, Answered, OuterCalls
  <2>4. RequestsSpent'
    BY <1>e, <2>1 DEF RequestsSpent, OuterCalls
  <2>5. Len(outcomes) < Prompts
    BY <1>b, <2>1
  <2> QED BY <1>c, <2>1, <2>2, <2>3, <2>4, <2>5, CallKeeps
<1>8. CASE ReturnVerdict
  <2>1. judgeStep = "returned" /\ Hand(IF asker = "evaluator" THEN Metric(failure) ELSE failure)
    BY <1>8 DEF ReturnVerdict
  <2>2. failure.is # "none"
    BY <2>1 DEF JudgeSafe, Answered
  <2>3. Metric(failure).is # "none"
    BY <2>2 DEF Metric
  <2> QED BY <1>b, <2>1, <2>2, <2>3, HandKeeps
<1>9. CASE CancelToken
  <2>1. PICK t \in tokens \ fired : fired' = fired \cup {t}
    BY <1>9 DEF CancelToken
  <2>2. UNCHANGED <<judge, asker, flavor, tokens, judgeStep, calls, attempts, sent, failure, outcomes>>
    BY <1>9 DEF CancelToken
  <2>3. ~late'
    <3>1. late' = late
      BY <1>9 DEF CancelToken
    <3> QED BY <1>a, <3>1, Zenon
  <2>4. JudgeType'
    BY <2>1, <2>2 DEF JudgeType
  <2>5. CallsSpent' /\ AttemptsSpent' /\ RequestsSpent' /\ Answered' /\ Owing'
    BY <2>2 DEF JudgeSafe, CallsSpent, AttemptsSpent, RequestsSpent, Answered,
       Owing, OuterCalls, Prompts
  <2>6. CallsBounded'
    <3>1. Given'
      BY <2>2 DEF JudgeSafe, CallsBounded, Given, Prompts
    <3>2. CallsBounded' <=> ~late' /\ sent' <= ClientAttempts * OuterCalls' /\ Given'
      BY Zenon DEF CallsBounded, OuterCalls, Given
    <3>3. sent' <= ClientAttempts * OuterCalls'
      BY <2>5 DEF RequestsSpent
    <3> QED BY <2>3, <3>1, <3>2, <3>3, Zenon
  <2> QED BY <2>4, <2>5, <2>6 DEF JudgeSafe
<1>10. CASE UNCHANGED judgeVars
  <2>1. UNCHANGED <<judge, asker, flavor, tokens, fired, judgeStep, calls, attempts, sent, failure, outcomes>>
    BY <1>10 DEF judgeVars
  <2>2. ~late'
    BY <1>10, <1>a, Zenon DEF judgeVars
  <2>3. JudgeType'
    BY <2>1 DEF JudgeType
  <2>4. CallsSpent' /\ AttemptsSpent' /\ RequestsSpent' /\ Answered' /\ Owing'
    BY <2>1 DEF JudgeSafe, CallsSpent, AttemptsSpent, RequestsSpent, Answered,
       Owing, OuterCalls, Prompts
  <2>5. CallsBounded'
    <3>1. Given'
      BY <2>1 DEF JudgeSafe, CallsBounded, Given, Prompts
    <3>2. CallsBounded' <=> ~late' /\ sent' <= ClientAttempts * OuterCalls' /\ Given'
      BY Zenon DEF CallsBounded, OuterCalls, Given
    <3>3. sent' <= ClientAttempts * OuterCalls'
      BY <2>4 DEF RequestsSpent
    <3> QED BY <2>2, <3>1, <3>2, <3>3, Zenon
  <2> QED BY <2>3, <2>4, <2>5 DEF JudgeSafe
<1> QED BY <1>1, <1>2, <1>3, <1>4, <1>5, <1>6, <1>7, <1>8, <1>9, <1>10 DEF JudgeNext

(* The types are kept.                                                     *)
THEOREM JudgeTypeCorrect == JudgeSpec => []JudgeType
<1> QED BY JudgeStarts, JudgeKeeps, PTL DEF JudgeSpec

(* No request after a cancellation, none above the product of the two      *)
(* retry policies, only transport errors retried, one result per prompt    *)
(* (judge_with_retry, retry_with_cancel).                                  *)
THEOREM JudgeCallsBounded == JudgeSpec => []CallsBounded
<1>1. JudgeType /\ JudgeSafe => CallsBounded
  BY DEF JudgeSafe
<1> QED BY <1>1, JudgeStarts, JudgeKeeps, PTL DEF JudgeSpec

-----------------------------------------------------------------------------
(* Pipelines and runs of an eval set side by side, as MCWorkflows has      *)
(* them: what ends has its due result (merge_first, merge_fastest,         *)
(* merge_concat; EvalRunner::run_case).                                    *)
THEOREM OutcomesAreEarned == WorkflowsSpec => []OutcomesEarned
<1>1. WorkflowsInit => (PipelineType /\ PipelineSafe) /\ (EvalType /\ EvalSafe)
  BY PipelineStarts, EvalStarts DEF WorkflowsInit
<1>2. [WorkflowsNext]_workflowVars => [PipelinesNext]_pipelineVars
  BY DEF WorkflowsNext, workflowVars
<1>3. [WorkflowsNext]_workflowVars => [EvalNext]_evalVars
  BY DEF WorkflowsNext, workflowVars
<1>4. (PipelineType /\ PipelineSafe) /\ [WorkflowsNext]_workflowVars => (PipelineType /\ PipelineSafe)'
  BY <1>2, PipelineKeeps
<1>5. (EvalType /\ EvalSafe) /\ [WorkflowsNext]_workflowVars => (EvalType /\ EvalSafe)'
  BY <1>3, EvalKeeps
<1>6. (PipelineType /\ PipelineSafe) /\ (EvalType /\ EvalSafe) => OutcomesEarned
  BY DEF PipelineSafe, EvalSafe, OutcomesEarned
<1> QED BY <1>1, <1>4, <1>5, <1>6, PTL DEF WorkflowsSpec
=============================================================================
