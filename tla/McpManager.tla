----------------------------- MODULE McpManager -----------------------------
(***************************************************************************)
(* McpManager and its McpConnections (mcp/src/manager.rs, connection.rs,   *)
(* tool.rs).  connect_all replaces the set of connections; each has a      *)
(* monitor task that owns the running service (a subprocess or an HTTP     *)
(* session) and reports its end.  Tools handed to an agent keep their      *)
(* connection alive after the manager has let it go.                       *)
(*                                                                         *)
(* A connection is <<server, round>>: connect_all makes new ones.          *)
(***************************************************************************)
EXTENDS Naturals

CONSTANTS Servers,     \* configured servers
          MaxRounds    \* bound on the calls of connect_all

ASSUME McpAssumption == MaxRounds \in Nat

VARIABLES service,     \* per connection: "none", "handshake", "up", "closed", "gone"
          monitor,     \* per connection: its monitor task
          state,       \* per connection, behind the lock: which of live, peer, handle it has
          setup,       \* per connection: where connect_with_resolver is
          shut,        \* per connection: where shutdown() is
          wasLive,     \* per connection: should_emit_disconnect
          told,        \* per connection: [up, down] events emitted
          manager,     \* [pc, round]
          listed,      \* connections in self.connections
          lent,        \* connections whose tools an agent holds
          toolCall     \* per connection: where a call of one of its tools is

mcpVars == <<service, monitor, state, setup, shut, wasLive, told, manager, listed, lent,
             toolCall>>

Connections == Servers \X (1 .. MaxRounds)
Current == {c \in Connections : c[2] = manager.round}

Put(f, c, v) == [f EXCEPT ![c] = v]
Told(up, down) == [up |-> up, down |-> down]
ManagerAt(pc, round) == [pc |-> pc, round |-> round]

McpInit ==
  /\ service = [c \in Connections |-> "none"]
  /\ monitor = [c \in Connections |-> "none"]
  /\ state = [c \in Connections |-> {}]
  /\ setup = [c \in Connections |-> "none"]
  /\ shut = [c \in Connections |-> "none"]
  /\ wasLive = [c \in Connections |-> FALSE]
  /\ told = [c \in Connections |-> Told(0, 0)]
  /\ manager = ManagerAt("idle", 0)
  /\ listed = {} /\ lent = {}
  /\ toolCall = [c \in Connections |-> "none"]

ManagerUnchanged == UNCHANGED <<manager, listed, lent>>

-----------------------------------------------------------------------------
(* connect_with_resolver *)
Handshake(c) ==
  /\ setup[c] = "begin"
  /\ \/ service' = Put(service, c, "handshake") /\ setup' = Put(setup, c, "discover")
     \/ setup' = Put(setup, c, "failed") /\ UNCHANGED service
  /\ UNCHANGED <<monitor, state, shut, wasLive, told, toolCall>> /\ ManagerUnchanged

(* Discovery fails or times out, and the service is dropped; or the        *)
(* monitor is spawned with it.                                             *)
DiscoverTools(c) ==
  /\ setup[c] = "discover"
  /\ \/ /\ setup' = Put(setup, c, "failed") /\ service' = Put(service, c, "gone")
        /\ UNCHANGED <<monitor, state>>
     \/ /\ setup' = Put(setup, c, "spawned") /\ service' = Put(service, c, "up")
        /\ state' = Put(state, c, {"live", "peer"})
        /\ monitor' = Put(monitor, c, "waiting")
  /\ UNCHANGED <<shut, wasLive, told, toolCall>> /\ ManagerUnchanged

StoreHandle(c) ==
  /\ setup[c] = "spawned"
  /\ state' = Put(state, c, state[c] \cup {"handle"})
  /\ setup' = Put(setup, c, "stored")
  /\ UNCHANGED <<service, monitor, shut, wasLive, told, toolCall>> /\ ManagerUnchanged

EmitConnected(c) ==
  /\ setup[c] = "stored"
  /\ told' = Put(told, c, Told(told[c].up + 1, told[c].down))
  /\ setup' = Put(setup, c, "ready")
  /\ UNCHANGED <<service, monitor, state, shut, wasLive, toolCall>> /\ ManagerUnchanged

-----------------------------------------------------------------------------
(* The server dies, and the monitor notices. *)
ServiceCloses(c) ==
  /\ service[c] = "up" /\ service' = Put(service, c, "closed")
  /\ UNCHANGED <<monitor, state, setup, shut, wasLive, told, toolCall>> /\ ManagerUnchanged

(* waiting() returns; from here on the task has no await. *)
MonitorWakes(c) ==
  /\ monitor[c] = "waiting" /\ service[c] = "closed"
  /\ monitor' = Put(monitor, c, "woken") /\ service' = Put(service, c, "gone")
  /\ UNCHANGED <<state, setup, shut, wasLive, told, toolCall>> /\ ManagerUnchanged

MonitorLock(c) ==
  /\ monitor[c] = "woken"
  /\ state' = Put(state, c, {})
  /\ monitor' = Put(monitor, c, "emit")
  /\ UNCHANGED <<service, setup, shut, wasLive, told, toolCall>> /\ ManagerUnchanged

MonitorEmit(c) ==
  /\ monitor[c] = "emit"
  /\ told' = Put(told, c, Told(told[c].up, told[c].down + 1))
  /\ monitor' = Put(monitor, c, "ended")
  /\ UNCHANGED <<service, state, setup, shut, wasLive, toolCall>> /\ ManagerUnchanged

(* An aborted task is dropped where it waits, and the service with it; one *)
(* that has passed its await runs on.                                      *)
MonitorAborted(c) ==
  /\ monitor[c] = "aborting"
  /\ monitor' = Put(monitor, c, "ended") /\ service' = Put(service, c, "gone")
  /\ UNCHANGED <<state, setup, shut, wasLive, told, toolCall>> /\ ManagerUnchanged

Abort(c) ==
  monitor' = IF "handle" \in state[c] /\ monitor[c] = "waiting" THEN Put(monitor, c, "aborting")
             ELSE monitor

-----------------------------------------------------------------------------
(* McpConnection::shutdown, as the manager calls it for one connection     *)
(* after the other.                                                        *)
ShutdownLock(c) ==
  /\ shut[c] = "begin"
  /\ wasLive' = Put(wasLive, c, state[c] # {})
  /\ state' = Put(state, c, {})
  /\ Abort(c)
  /\ shut' = Put(shut, c, IF "handle" \in state[c] THEN "await" ELSE "emit")
  /\ UNCHANGED <<service, setup, told, toolCall>> /\ ManagerUnchanged

\* mutant: the aborted monitor is not awaited
ShutdownGoesOn(c) ==
  /\ shut[c] = "await"
  /\ shut' = Put(shut, c, "emit")
  /\ UNCHANGED <<service, monitor, state, setup, wasLive, told, toolCall>> /\ ManagerUnchanged
ShutdownAwait(c) ==
  /\ shut[c] = "await" /\ monitor[c] = "ended"
  /\ shut' = Put(shut, c, "emit")
  /\ UNCHANGED <<service, monitor, state, setup, wasLive, told, toolCall>> /\ ManagerUnchanged

ShutdownEmit(c) ==
  /\ shut[c] = "emit"
  /\ told' = IF wasLive[c] THEN Put(told, c, Told(told[c].up, told[c].down + 1)) ELSE told
  /\ shut' = Put(shut, c, "returned")
  /\ UNCHANGED <<service, monitor, state, setup, wasLive, toolCall>> /\ ManagerUnchanged

-----------------------------------------------------------------------------
(* The manager.  Its own shutdown is the first half of a second            *)
(* connect_all; a collision of tool names, also of one server with itself, *)
(* shuts the new connections down.                                         *)
ConnectAll ==
  /\ manager.pc = "idle" /\ manager.round < MaxRounds
  /\ manager' = ManagerAt("shutdown", manager.round)
  /\ UNCHANGED <<service, monitor, state, setup, shut, wasLive, told, listed, lent, toolCall>>

ShutNext(from) ==
  /\ \A c \in from : shut[c] \in {"none", "returned"}
  /\ \E c \in from : shut[c] = "none" /\ shut' = Put(shut, c, "begin")
  /\ UNCHANGED <<service, monitor, state, setup, wasLive, told, manager, listed, lent, toolCall>>

AllShut(from) == \A c \in from : shut[c] = "returned"

ManagerShutdown ==
  /\ manager.pc = "shutdown"
  /\ \/ ShutNext(listed)
     \/ /\ AllShut(listed) /\ listed' = {}
        /\ manager' = ManagerAt("connect", manager.round + 1)
        /\ setup' = [c \in Connections |-> IF c[2] = manager.round + 1 THEN "begin" ELSE setup[c]]
        /\ UNCHANGED <<service, monitor, state, shut, wasLive, told, lent, toolCall>>

Ready == {c \in Current : setup[c] = "ready"}

CollectTools ==
  /\ manager.pc = "connect" /\ \A c \in Current : setup[c] \in {"failed", "ready"}
  /\ \/ listed' = Ready /\ manager' = ManagerAt("idle", manager.round)
     \/ Ready # {} /\ manager' = ManagerAt("collision", manager.round) /\ UNCHANGED listed
  /\ UNCHANGED <<service, monitor, state, setup, shut, wasLive, told, lent, toolCall>>

Collision ==
  /\ manager.pc = "collision"
  /\ \/ ShutNext(Ready)
     \/ /\ AllShut(Ready) /\ manager' = ManagerAt("idle", manager.round)
        /\ UNCHANGED <<service, monitor, state, setup, shut, wasLive, told, listed, lent, toolCall>>

DropManager ==
  /\ manager.pc = "idle" /\ manager' = ManagerAt("dropped", manager.round)
  /\ listed' = {}
  /\ UNCHANGED <<service, monitor, state, setup, shut, wasLive, told, lent, toolCall>>

(* Drop of the last reference to a connection. *)
Owned(c) ==
  \/ c \in listed \cup lent
  \/ c[2] = manager.round /\ manager.pc \in {"connect", "collision"}

\* mutant: dropping the connection leaves its monitor running
DropQuietly(c) ==
  /\ setup[c] = "ready" /\ ~Owned(c) /\ shut[c] \in {"none", "returned"}
  /\ setup' = Put(setup, c, "dropped")
  /\ state' = Put(state, c, {})
  /\ UNCHANGED <<service, monitor, shut, wasLive, told, toolCall>> /\ ManagerUnchanged
DropConnection(c) ==
  /\ setup[c] = "ready" /\ ~Owned(c) /\ shut[c] \in {"none", "returned"}
  /\ setup' = Put(setup, c, "dropped")
  /\ state' = Put(state, c, {})
  /\ Abort(c)
  /\ UNCHANGED <<service, shut, wasLive, told, toolCall>> /\ ManagerUnchanged

-----------------------------------------------------------------------------
(* An agent with the tools of the manager, and its calls. *)
LendTools ==
  /\ manager.pc = "idle" /\ listed # {}
  /\ lent' = lent \cup listed
  /\ UNCHANGED <<service, monitor, state, setup, shut, wasLive, told, manager, listed, toolCall>>

AgentLeaves ==
  /\ lent # {} /\ \A c \in lent : toolCall[c] \in {"none", "done"}
  /\ lent' = {}
  /\ UNCHANGED <<service, monitor, state, setup, shut, wasLive, told, manager, listed, toolCall>>

(* call_tool clones the peer under the lock and uses it afterwards. *)
CallTool(c) ==
  /\ c \in lent /\ toolCall[c] = "none"
  /\ toolCall' = Put(toolCall, c, IF "peer" \in state[c] THEN "sent" ELSE "done")
  /\ UNCHANGED <<service, monitor, state, setup, shut, wasLive, told>> /\ ManagerUnchanged

(* The server's answer, a peer whose service is gone, or the cancellation. *)
CallReturns(c) ==
  /\ toolCall[c] = "sent"
  /\ toolCall' = Put(toolCall, c, "done")
  /\ UNCHANGED <<service, monitor, state, setup, shut, wasLive, told>> /\ ManagerUnchanged

-----------------------------------------------------------------------------
SetupSteps(c) == Handshake(c) \/ DiscoverTools(c) \/ StoreHandle(c) \/ EmitConnected(c)
MonitorSteps(c) == MonitorWakes(c) \/ MonitorLock(c) \/ MonitorEmit(c) \/ MonitorAborted(c)
ShutdownSteps(c) == ShutdownLock(c) \/ ShutdownAwait(c) \/ ShutdownEmit(c)
ManagerSteps == ManagerShutdown \/ CollectTools \/ Collision

McpNext ==
  \/ \E c \in Connections : \/ SetupSteps(c) \/ MonitorSteps(c) \/ ShutdownSteps(c)
                            \/ ServiceCloses(c) \/ DropConnection(c)
                            \/ CallTool(c) \/ CallReturns(c)
  \/ ManagerSteps \/ ConnectAll \/ DropManager \/ LendTools \/ AgentLeaves

(* The runtime polls what is ready; a drop is not delayed. *)
McpFairness ==
  \A c \in Connections :
    /\ WF_mcpVars(SetupSteps(c)) /\ WF_mcpVars(MonitorSteps(c))
    /\ WF_mcpVars(ShutdownSteps(c)) /\ WF_mcpVars(DropConnection(c))

McpSpec == McpInit /\ [][McpNext]_mcpVars /\ McpFairness /\ WF_mcpVars(ManagerSteps)

-----------------------------------------------------------------------------
(* When shutdown has returned, whatever its monitor was doing, the service *)
(* is gone, no call can start, and the end of a live connection has been   *)
(* reported or is about to be, by a monitor that had already seen its      *)
(* server die (shutdown, spawn_monitor, connect_all).                      *)
ShutdownComplete ==
  \A c \in Connections :
    shut[c] = "returned" =>
      /\ service[c] \in {"none", "gone"} /\ "peer" \notin state[c]
      /\ monitor[c] \in {"none", "emit", "ended"}
      /\ told[c].up > 0 /\ monitor[c] # "emit" => told[c].down > 0

(* A service that nobody holds any more, neither the manager nor the tools *)
(* of an agent, ends, and a server that dies is reported, also when it     *)
(* dies while its connection is being set up or shut down (Drop,           *)
(* spawn_monitor).                                                         *)
NoOrphans ==
  \A c \in Connections :
    /\ setup[c] = "ready" /\ ~Owned(c) ~> service[c] = "gone"
    /\ service[c] = "closed" /\ setup[c] # "dropped"
         ~> told[c].down > 0 \/ setup[c] = "dropped"
=============================================================================
