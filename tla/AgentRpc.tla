------------------------------ MODULE AgentRpc ------------------------------
(***************************************************************************)
(* One connection to an agent behind a Unix socket (rpc/src): the session  *)
(* on the server, an AgentClient that runs turns, and the JsonRpcPeer at   *)
(* either end, whose reader and writer tasks move messages between bounded *)
(* channels and the socket.  Responses go from the reader to the call that *)
(* waits for them; requests and notifications go through the `incoming`    *)
(* channel.  The connection may break at any time.                         *)
(*                                                                         *)
(* A call is named <<method, number>>, which stands for its request id.    *)
(* The channel to a writer and the socket behind it are one bounded queue. *)
(***************************************************************************)
EXTENDS Naturals, Sequences, FiniteSets

CONSTANTS MaxTurns,      \* bound on the turns of the client
          MaxEvents,     \* bound on the events of a turn
          MaxApprovals,  \* bound on the tool approvals asked for
          Scenarios,     \* what else may happen on the connection, see `scenario`
          Buffer         \* capacity of a channel (64 in the code)

ASSUME RpcAssumption ==
  /\ {MaxEvents, MaxApprovals} \subseteq Nat
  /\ {MaxTurns, Buffer} \subseteq Nat \ {0}
  /\ Scenarios \subseteq {"turns", "hangs", "approval", "control"}

VARIABLES link,       \* the socket is connected
          outbound,   \* per side: what it has sent and the other not read
          incoming,   \* per side: the channel from its reader task
          reader,     \* per side: the reader task: "run", "draining" or "ended"
          writer,     \* per side: the writer task
          flag,       \* per side: disconnected
          pending,    \* per side: the calls that wait for a response
          call,       \* per call: where request() is
          session,    \* the server's session: [pc, msg, next, turn, aborted]
          client,     \* the client: [pc, msg, next, turn]
          emitted,    \* per turn: events sent by the server
          heard,      \* per turn: events passed to the client's on_event
          returned,   \* turns whose run_turn has returned Ok
          cancels,    \* "none", or the turn in which cancel() was called
          scenario    \* "turns": the client runs more than one turn, and
                      \* gives a prompt up after the timeout;
                      \* "hangs": the agent runs for ever unless aborted;
                      \* "approval": its tools ask for approval;
                      \* "control": another task of the client makes a control call

rpcVars == <<link, outbound, incoming, reader, writer, flag,
             pending, call, session, client, emitted, heard, returned, cancels, scenario>>
others == <<session, client, emitted, heard, returned, cancels, scenario>>

Sides == {"client", "server"}
Peer(s) == IF s = "client" THEN "server" ELSE "client"

Turns == 1 .. MaxTurns
PromptCall(n) == <<"prompt", n>>
ApproveCall(n) == <<"tool.approve", n>>
ControlCall == <<"control", 1>>
ClientCalls == {PromptCall(n) : n \in Turns} \cup {ControlCall}
ServerCalls == {ApproveCall(n) : n \in 1 .. MaxApprovals}
Owner(r) == IF r \in ClientCalls THEN "client" ELSE "server"

Notification(method, n) == [type |-> "notification", of |-> <<method, n>>, ok |-> TRUE]
Request(r) == [type |-> "request", of |-> r, ok |-> TRUE]
Response(r, ok) == [type |-> "response", of |-> r, ok |-> ok]
Nothing == Notification("none", 0)

RpcInit ==
  /\ link = TRUE
  /\ outbound = [s \in Sides |-> << >>]
  /\ incoming = [s \in Sides |-> << >>]
  /\ reader = [s \in Sides |-> "run"] /\ writer = [s \in Sides |-> "run"]
  /\ flag = [s \in Sides |-> FALSE] /\ pending = [s \in Sides |-> {}]
  /\ call = [r \in ClientCalls \cup ServerCalls |-> "none"]
  /\ session = [pc |-> "handshake", msg |-> Nothing, next |-> "build", turn |-> 0, aborted |-> FALSE]
  /\ client = [pc |-> "send", msg |-> Notification("initialize", 0), next |-> "handshake",
               turn |-> 0]
  /\ emitted = [n \in Turns |-> 0] /\ heard = [n \in Turns |-> 0] /\ returned = {}
  /\ cancels = 0 /\ scenario \in Scenarios

-----------------------------------------------------------------------------
(* The peer.  Its owner and the clones of its sender keep the outbound     *)
(* channel open; its owner holds the receiver of `incoming`.               *)
Held(s) == IF s = "client" THEN client.pc # "gone" ELSE session.pc # "closed"
Room(s) == writer[s] # "ended" /\ Len(outbound[s]) < Buffer
ChannelClosed(s) == writer[s] = "ended"
Enqueue(s, m) == outbound' = [outbound EXCEPT ![s] = Append(@, m)]
Forgotten(r) == [pending EXCEPT ![Owner(r)] = @ \ {r}]
Active(r) == call[r] \in {"checked", "registered", "waiting"}
CallGoes(r, pc) == call' = [call EXCEPT ![r] = pc]

(* request: ensure_connected, register, then look at the flag again before *)
(* the send.                                                               *)
BeginCall(r) == CallGoes(r, IF flag[Owner(r)] THEN "failed" ELSE "checked")

Register(r) ==
  /\ call[r] = "checked"
  /\ pending' = [pending EXCEPT ![Owner(r)] = @ \cup {r}]
  /\ CallGoes(r, "registered")
  /\ UNCHANGED <<link, outbound, incoming, reader, writer, flag>>

Sent(r) ==
  /\ Room(Owner(r)) /\ Enqueue(Owner(r), Request(r)) /\ CallGoes(r, "waiting")
  /\ UNCHANGED pending
Unsent(r) == CallGoes(r, "failed") /\ pending' = Forgotten(r) /\ UNCHANGED outbound

\* mutant: the flag is not looked at again
SendUnchecked(r) ==
  /\ call[r] = "registered"
  /\ Sent(r) \/ (ChannelClosed(Owner(r)) /\ Unsent(r))
  /\ UNCHANGED <<link, incoming, reader, writer, flag>>
SendCall(r) ==
  /\ call[r] = "registered"
  /\ \/ ~flag[Owner(r)] /\ Sent(r)
     \/ (flag[Owner(r)] \/ ChannelClosed(Owner(r))) /\ Unsent(r)
  /\ UNCHANGED <<link, incoming, reader, writer, flag>>

(* The request's own timeout; the response will find no call. *)
TimeOut(r) ==
  /\ call[r] = "waiting" /\ (r \in ClientCalls => scenario = "turns")
  /\ CallGoes(r, "failed") /\ pending' = Forgotten(r)
  /\ UNCHANGED <<link, outbound, incoming, reader, writer, flag>>

(* mark_disconnected, up to the drain: only the first caller drains. *)
Disconnects(s) == IF flag[s] THEN "ended" ELSE "draining"

(* writer_task: a write fails, or every sender is gone and the queue is     *)
(* empty, and this direction closes.                                       *)
WriteFails(s) ==
  /\ writer[s] = "run" /\ outbound[s] # << >> /\ ~link
  /\ writer' = [writer EXCEPT ![s] = Disconnects(s)]
  /\ flag' = [flag EXCEPT ![s] = TRUE]
  /\ UNCHANGED <<link, outbound, incoming, reader, pending, call>>

WriterDone(s) ==
  /\ writer[s] = "run" /\ outbound[s] = << >> /\ ~Held(s)
  /\ writer' = [writer EXCEPT ![s] = "ended"]
  /\ UNCHANGED <<link, outbound, incoming, reader, flag, pending, call>>

Drained(s) ==
  /\ pending' = [pending EXCEPT ![s] = {}]
  /\ call' = [r \in DOMAIN call |->
                IF r \in pending[s] /\ call[r] \in {"registered", "waiting"}
                THEN "failed" ELSE call[r]]

Drain(s) ==
  /\ \/ /\ writer[s] = "draining" /\ writer' = [writer EXCEPT ![s] = "ended"]
        /\ UNCHANGED reader
     \/ /\ reader[s] = "draining" /\ reader' = [reader EXCEPT ![s] = "ended"]
        /\ UNCHANGED writer
  /\ Drained(s)
  /\ UNCHANGED <<link, outbound, incoming, flag>>

(* reader_task and dispatch_line: a response is for its call alone; the    *)
(* rest waits for room in the channel, or is dropped with its receiver.    *)
TakesLine(s) == outbound' = [outbound EXCEPT ![Peer(s)] = Tail(@)]

Discards(s) == ~Held(s)

dispatch_line(s) ==
  /\ reader[s] = "run" /\ link /\ outbound[Peer(s)] # << >>
  /\ LET m == Head(outbound[Peer(s)])
     IN  \/ /\ m.type = "response"
            /\ pending' = [pending EXCEPT ![s] = @ \ {m.of}]
            /\ IF m.of \in pending[s] /\ call[m.of] = "waiting"
               THEN CallGoes(m.of, IF m.ok THEN "ok" ELSE "failed") ELSE UNCHANGED call
            /\ UNCHANGED incoming
         \/ /\ m.type # "response" /\ Held(s) /\ Len(incoming[s]) < Buffer
            /\ incoming' = [incoming EXCEPT ![s] = Append(@, m)]
            /\ UNCHANGED <<pending, call>>
         \/ m.type # "response" /\ Discards(s) /\ UNCHANGED <<incoming, pending, call>>
  /\ TakesLine(s)
  /\ UNCHANGED <<link, reader, writer, flag>>

ReaderEnds(s) ==
  /\ reader[s] = "run"
  /\ ~link \/ writer[Peer(s)] = "ended"
  /\ reader' = [reader EXCEPT ![s] = Disconnects(s)]
  /\ flag' = [flag EXCEPT ![s] = TRUE]
  /\ UNCHANGED <<link, outbound, incoming, writer, pending, call>>

PeerSteps(s) == WriteFails(s) \/ WriterDone(s) \/ Drain(s)
                \/ dispatch_line(s) \/ ReaderEnds(s)
CallSteps(r) == Register(r) \/ SendCall(r)

(* recv_incoming: the next message, or None once the reader has gone. *)
Received(s) == incoming[s] # << >>
Next1(s) == Head(incoming[s])
Takes(s) == incoming' = [incoming EXCEPT ![s] = Tail(@)]
HungUp(s) == incoming[s] = << >> /\ reader[s] = "ended"

PeerUnchanged == UNCHANGED <<link, reader, writer, flag, pending>>

-----------------------------------------------------------------------------
Cut ==
  /\ link /\ link' = FALSE
  /\ UNCHANGED <<outbound, incoming, reader, writer, flag, pending, call>>
  /\ UNCHANGED others

-----------------------------------------------------------------------------
(* run_session.  A message is sent when the channel has room; if the       *)
(* channel is closed the session ends.                                     *)
SessionIs(pc, m, next, turn, aborted) ==
  session' = [pc |-> pc, msg |-> m, next |-> next, turn |-> turn, aborted |-> aborted]
SessionAt(pc) == SessionIs(pc, session.msg, session.next, session.turn, session.aborted)
SessionSends(m, next) == SessionIs("send", m, next, session.turn, session.aborted)
ServerUnchanged == UNCHANGED <<client, heard, returned, cancels, scenario>>

Closes == SessionIs("closed", session.msg, session.next, 0, session.aborted)

SessionSend ==
  /\ session.pc = "send"
  /\ \/ /\ Room("server") /\ Enqueue("server", session.msg)
        /\ IF session.next = "closed" THEN Closes ELSE SessionAt(session.next)
     \/ ChannelClosed("server") /\ Closes /\ UNCHANGED outbound
  /\ UNCHANGED <<incoming, call, emitted>> /\ PeerUnchanged /\ ServerUnchanged

(* The parameters of `initialize` are checked, and later the factory may   *)
(* fail.                                                                   *)
ServerHandshake ==
  /\ session.pc = "handshake"
  /\ \/ Received("server") /\ Takes("server")
        /\ \/ SessionSends(Notification("initialized", 0), "build")
           \/ Closes
     \/ HungUp("server") /\ Closes /\ UNCHANGED incoming
  /\ UNCHANGED <<outbound, call, emitted>> /\ PeerUnchanged /\ ServerUnchanged

BuildAgent ==
  /\ session.pc = "build"
  /\ SessionAt("idle") \/ SessionSends(Notification("error", 0), "closed")
  /\ UNCHANGED <<outbound, incoming, call, emitted>> /\ PeerUnchanged /\ ServerUnchanged

(* Between turns; a cancel finds nothing to abort. *)
SessionIdle ==
  /\ session.pc = "idle"
  /\ \/ /\ Received("server") /\ Takes("server")
        /\ LET m == Next1("server")
           IN  \/ /\ m.of[1] = "prompt"
                  /\ \/ SessionIs("turn", session.msg, session.next, m.of[2], FALSE)
                     \/ SessionSends(Response(m.of, FALSE), "idle")
               \/ /\ m.of[1] = "control"
                  /\ \E ok \in BOOLEAN : SessionSends(Response(m.of, ok), "idle")
               \/ m.of[1] = "shutdown" /\ Closes
               \/ m.of[1] = "cancel" /\ UNCHANGED session
     \/ HungUp("server") /\ Closes /\ UNCHANGED incoming
  /\ UNCHANGED <<outbound, call, emitted>> /\ PeerUnchanged /\ ServerUnchanged

(* run_prompt selects over the agent's stream and the connection.          *)
Asking == {r \in ServerCalls : Active(r)}

StreamEvent ==
  /\ session.pc = "turn" /\ Asking = {} /\ emitted[session.turn] < MaxEvents
  /\ SessionSends(Notification("agent.event", session.turn), "turn")
  /\ emitted' = [emitted EXCEPT ![session.turn] = @ + 1]
  /\ UNCHANGED <<outbound, incoming, call>> /\ PeerUnchanged /\ ServerUnchanged

AgentStreamEnds ==
  /\ session.pc = "turn" /\ Asking = {}
  /\ scenario = "hangs" => session.aborted
  /\ SessionIs("send", Response(PromptCall(session.turn), TRUE), "idle", 0, session.aborted)
  /\ UNCHANGED <<outbound, incoming, call, emitted>> /\ PeerUnchanged /\ ServerUnchanged

AskApproval(r) ==
  /\ scenario = "approval" /\ session.turn # 0 /\ ~session.aborted
  /\ Asking = {} /\ call[r] = "none"
  /\ BeginCall(r)
  /\ UNCHANGED <<session, outbound, incoming, emitted>> /\ PeerUnchanged /\ ServerUnchanged

(* An approval is raced against the abort of the turn, and dropped. *)
DropApproval(r) ==
  /\ r \in Asking /\ (session.aborted \/ session.turn = 0)
  /\ CallGoes(r, "dropped")
  /\ UNCHANGED <<session, outbound, incoming, emitted>> /\ PeerUnchanged /\ ServerUnchanged

TurnMessage ==
  /\ session.pc = "turn"
  /\ \/ /\ Received("server") /\ Takes("server")
        /\ LET m == Next1("server")
           IN  \/ m.of[1] = "cancel" /\ session' = [session EXCEPT !.aborted = TRUE]
               \/ /\ m.of[1] = "shutdown"
                  /\ SessionIs("send", Response(PromptCall(session.turn), FALSE), "closed",
                               session.turn, TRUE)
               \/ m.type = "request" /\ SessionSends(Response(m.of, FALSE), "turn")
     \/ /\ HungUp("server") /\ UNCHANGED incoming
        /\ SessionSends(Response(PromptCall(session.turn), FALSE), "closed")
  /\ UNCHANGED <<outbound, call, emitted>> /\ PeerUnchanged /\ ServerUnchanged

SessionSteps ==
  SessionSend \/ ServerHandshake \/ BuildAgent \/ SessionIdle \/ TurnMessage
AgentSteps == StreamEvent \/ AgentStreamEnds \/ \E r \in ServerCalls : DropApproval(r)

-----------------------------------------------------------------------------
(* AgentClient *)
ClientIs(pc, m, next, turn) == client' = [pc |-> pc, msg |-> m, next |-> next, turn |-> turn]
ClientAt(pc) == ClientIs(pc, client.msg, client.next, client.turn)
ClientUnchanged == UNCHANGED <<session, emitted, scenario>>

(* A send whose channel is closed is an error for the operation. *)
ClientSend ==
  /\ client.pc = "send"
  /\ \/ Room("client") /\ Enqueue("client", client.msg) /\ ClientAt(client.next)
     \/ /\ ChannelClosed("client") /\ UNCHANGED outbound
        /\ ClientAt(IF client.next \in {"handshake", "gone"} THEN "gone" ELSE "ready")
  /\ UNCHANGED <<incoming, call, heard, returned, cancels>> /\ PeerUnchanged /\ ClientUnchanged

ClientHandshake ==
  /\ client.pc = "handshake"
  /\ \/ /\ Received("client") /\ Takes("client")
        /\ \/ Next1("client").of[1] = "initialized" /\ ClientAt("ready")
           \/ ClientAt("gone")
     \/ HungUp("client") /\ ClientAt("gone") /\ UNCHANGED incoming
  /\ UNCHANGED <<outbound, call, heard, returned, cancels>> /\ PeerUnchanged /\ ClientUnchanged

StartTurn ==
  /\ client.pc = "ready" /\ client.turn < (IF scenario = "turns" THEN MaxTurns ELSE 1)
  /\ ClientIs("turn", client.msg, client.next, client.turn + 1)
  /\ BeginCall(PromptCall(client.turn + 1))
  /\ UNCHANGED <<outbound, incoming, heard, returned, cancels>> /\ PeerUnchanged /\ ClientUnchanged

(* handle_incoming: an event, or an approval to answer. *)
handle_incoming(m, next) ==
  CASE m.of[1] = "agent.event" ->
         heard' = [heard EXCEPT ![client.turn] = @ + 1] /\ ClientAt(next)
    [] m.type = "request" ->
         ClientIs("send", Response(m.of, TRUE), next, client.turn) /\ UNCHANGED heard
    [] OTHER -> ClientAt(next) /\ UNCHANGED heard

Fails == call' = [call EXCEPT ![PromptCall(client.turn)] = "failed"]

(* run_turn: the prompt's result, or the next message. *)
RunTurn ==
  /\ client.pc = "turn"
  /\ \/ /\ call[PromptCall(client.turn)] = "ok" /\ ClientAt("drain")
        /\ UNCHANGED <<incoming, heard, call>>
     \/ /\ call[PromptCall(client.turn)] = "failed" /\ ClientAt("ready")
        /\ UNCHANGED <<incoming, heard, call>>
     \/ /\ Received("client") /\ Takes("client") /\ handle_incoming(Next1("client"), "turn")
        /\ UNCHANGED call
     \/ /\ HungUp("client") /\ ClientAt("ready") /\ Fails /\ UNCHANGED <<incoming, heard>>
  /\ UNCHANGED <<outbound, returned, cancels>> /\ PeerUnchanged /\ ClientUnchanged

\* mutant: run_turn returns with the response
no_drain ==
  /\ client.pc = "drain"
  /\ ClientAt("ready") /\ returned' = returned \cup {client.turn}
  /\ UNCHANGED <<incoming, heard, call, outbound, cancels>> /\ PeerUnchanged /\ ClientUnchanged
drain_ready_incoming ==
  /\ client.pc = "drain"
  /\ \/ /\ Received("client") /\ Takes("client") /\ handle_incoming(Next1("client"), "drain")
        /\ UNCHANGED returned
     \/ /\ ~Received("client") /\ UNCHANGED <<incoming, heard>>
        /\ ClientAt("ready") /\ returned' = returned \cup {client.turn}
  /\ UNCHANGED <<call, outbound, cancels>> /\ PeerUnchanged /\ ClientUnchanged

InTurn ==
  \/ client.pc \in {"turn", "drain"}
  \/ client.pc = "send" /\ client.next \in {"turn", "drain"}

(* shutdown takes the client; it may also be dropped, in a turn too, with  *)
(* all its calls.                                                          *)
Leave ==
  /\ \/ /\ client.pc = "ready" \/ InTurn
        /\ ClientAt("gone")
        /\ call' = [r \in DOMAIN call |->
                      IF r \in ClientCalls /\ Active(r) THEN "dropped" ELSE call[r]]
     \/ /\ client.pc = "ready" /\ UNCHANGED call
        /\ ClientIs("send", Notification("shutdown", 0), "gone", client.turn)
  /\ UNCHANGED <<outbound, incoming, heard, returned, cancels>>
  /\ PeerUnchanged /\ ClientUnchanged

(* Other tasks of the client, through clones of its sender. *)
CancelTurn ==
  /\ scenario = "hangs" /\ InTurn /\ cancels = 0 /\ Room("client")
  /\ Enqueue("client", Notification("cancel", 0))
  /\ cancels' = IF call[PromptCall(client.turn)] = "waiting" THEN client.turn ELSE MaxTurns + 1
  /\ UNCHANGED <<client, incoming, call, heard, returned>> /\ PeerUnchanged /\ ClientUnchanged

Control ==
  /\ scenario = "control" /\ InTurn /\ call[ControlCall] = "none" /\ BeginCall(ControlCall)
  /\ UNCHANGED <<client, outbound, incoming, heard, returned, cancels>>
  /\ PeerUnchanged /\ ClientUnchanged

ClientSteps == ClientSend \/ ClientHandshake \/ RunTurn \/ drain_ready_incoming

-----------------------------------------------------------------------------
PeerNext ==
  /\ \/ \E s \in Sides : PeerSteps(s)
     \/ \E r \in DOMAIN call : CallSteps(r) \/ TimeOut(r)
  /\ UNCHANGED others

RpcNext ==
  \/ Cut \/ PeerNext
  \/ SessionSteps \/ AgentSteps \/ \E r \in ServerCalls : AskApproval(r)
  \/ ClientSteps \/ StartTurn \/ Leave \/ CancelTurn \/ Control

(* The runtime polls what is ready; the agent's stream goes on. *)
RpcFairness ==
  /\ \A s \in Sides : WF_rpcVars(PeerSteps(s) /\ UNCHANGED others)
  /\ \A r \in ClientCalls \cup ServerCalls :
       WF_rpcVars(CallSteps(r) /\ UNCHANGED others)
  /\ WF_rpcVars(SessionSteps) /\ WF_rpcVars(AgentSteps) /\ WF_rpcVars(ClientSteps)

RpcSpec == RpcInit /\ [][RpcNext]_rpcVars /\ RpcFairness

-----------------------------------------------------------------------------
(* A turn that has returned Ok has passed on every event the server sent   *)
(* for it and none of another turn, although the response overtakes events *)
(* that are still in the channel (run_turn, drain_ready_incoming).  An     *)
(* earlier turn given up after the timeout is excepted: nothing tells the  *)
(* server, and the events it still sends are taken for the next turn's.    *)
EventsDelivered ==
  \A n \in returned :
    (\A k \in 1 .. n - 1 : call[PromptCall(k)] # "failed") => heard[n] = emitted[n]

(* A turn ends, and so does a control call made meanwhile, without the     *)
(* ten-minute timeout of a request: when the agent's stream ends, when it  *)
(* hangs and is cancelled, and when the connection breaks between any two  *)
(* steps of a request.  Full channels in both directions and approvals     *)
(* asked for meanwhile do not block it (request, mark_disconnected,        *)
(* dispatch_line, run_prompt).  A client that has left, even in the middle *)
(* of a turn whose agent hangs, ends the session, which frees the server's *)
(* only slot (run_session).                                                *)
CallsResolve ==
  /\ InTurn /\ (scenario # "hangs" \/ ~link \/ cancels = client.turn) ~> ~InTurn
  /\ Active(ControlCall) ~> ~Active(ControlCall)
  /\ client.pc = "gone" ~> session.pc = "closed"
=============================================================================
