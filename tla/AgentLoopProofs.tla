-------------------------- MODULE AgentLoopProofs --------------------------
(***************************************************************************)
(* Proofs about the agent loop, for any messages, policies, bounds and     *)
(* polling modes: its types, that its events follow EventProtocol, that no *)
(* message is lost, repeated or hidden from a pause, that every tool call  *)
(* is answered before the model is asked again, and that a run that ends   *)
(* by itself has sent everything it polled.                                *)
(***************************************************************************)
EXTENDS AgentLoop, TLAPS

(* Where the event stream stands at each step of the loop, as long as its  *)
(* consumer is there.                                                      *)
BetweenTurns == {"turn", "transform", "preturn", "turnstart", "rejected", "aftertools",
                 "aftertext", "postloop", "followup"}
Answered == {"error", "text", "calls", "tools", "cancelled", "commit", "transfer"}
InTurn == {"request", "call", "stream", "abort", "recover", "overflow_error"} \cup Answered
StreamFits ==
  ~closed =>
    /\ pc = "start" => run = "idle" /\ turn = "none" /\ msg = "none" /\ last = "none"
    /\ pc \in BetweenTurns \cup InTurn => run = "running" /\ last \notin P!FinalReasons
    /\ pc \in BetweenTurns => turn # "open"
    /\ pc \in InTurn => turn = "open"
    /\ pc = "request" => msg = "none"
    /\ pc = "call" => msg = (IF recovered THEN "open" ELSE "none")
    /\ pc \in {"stream", "recover", "overflow_error"} => msg = "open"
    /\ pc \in Answered => msg = "done"
FirstAttempt == pc \in {"transform", "preturn", "turnstart", "request"} => ~recovered

(* The events of an ending, counted from its last one, fit the stream.     *)
Closes(s) ==
  /\ s \in Seq(LoopEvents) /\ Len(s) \in 1..5
  /\ s[Len(s)].type = "AgentEnd"
  /\ Len(s) >= 2 => s[Len(s) - 1].type = "TurnEnd" /\ s[Len(s) - 1].reason \in P!FinalReasons
  /\ Len(s) >= 3 => s[Len(s) - 2].type = "MessageEnd"
  /\ Len(s) >= 4 => s[Len(s) - 3].type = "MessageStart"
  /\ Len(s) = 5 => s[1].type = "TurnStart"
EndingFits ==
  pc = "ending" =>
    /\ Closes(script)
    /\ ~closed =>
         /\ run = "running"
         /\ Len(script) \in {1, 5} => turn # "open"
         /\ Len(script) \in 2..4 => turn = "open"
         /\ Len(script) = 5 => last \notin P!FinalReasons
         /\ Len(script) = 4 => msg = "none"
         /\ Len(script) = 3 => msg = "open"
         /\ Len(script) = 2 => msg = "done" \/ script[1].reason = "Aborted"
Ordered == StreamFits /\ FirstAttempt /\ EndingFits

(* A stop is remembered; what ends the run by itself has nothing pending.  *)
NothingKept == stopped \/ last \in P!FinalReasons \/ pending = <<>>
StopRemembered == stop => stopped
OuterEmpty == pc \in {"postloop", "followup"} => pending = <<>>
EndsEmpty == pc = "ending" /\ ~closed /\ Len(script) = 1 => NothingKept
EndedEmpty == run = "ended" => pc = "returned" /\ NothingKept
LeavesNothing == StopRemembered /\ OuterEmpty /\ EndsEmpty /\ EndedEmpty

(* The snapshots a pause reads follow the pending messages exactly, and    *)
(* the users' messages of the context.                                     *)
PendingShown == snapPending = pending
ContextShown == Users(ctx) \subseteq Users(snapCtx)
Published == PendingShown /\ ContextShown

(* Each queued message has one place, and is there once.                   *)
OnceIn(s) ==
  \A i, j \in DOMAIN s : s[i].role = "user" /\ s[i].id \in Messages /\ s[i] = s[j] => i = j
Placed ==
  /\ Ids(steering) \subseteq queued /\ Ids(followUp) \subseteq queued
  /\ Users(pending) \cap Messages \subseteq queued /\ given \cap Messages \subseteq queued
  /\ Users(ctx) \cap Messages \subseteq given
  /\ queued \subseteq Ids(steering) \cup Ids(followUp) \cup Users(pending) \cup given
Apart ==
  /\ Ids(steering) \cap Ids(followUp) = {}
  /\ Ids(steering) \cap Users(pending) = {} /\ Ids(steering) \cap given = {}
  /\ Ids(followUp) \cap Users(pending) = {} /\ Ids(followUp) \cap given = {}
  /\ Users(pending) \cap given \cap Messages = {}
OncePlaced == Once(steering) /\ Once(followUp) /\ OnceIn(pending) /\ OnceIn(ctx)
Kept == Placed /\ Apart /\ OncePlaced

(* A context is settled when each call in it has its result; it owes at    *)
(* most some calls of its last assistant message, that of this turn, while *)
(* their batch runs or its results wait to be committed.                   *)
HasResult(s, k, c) ==
  \E j \in DOMAIN s :
    /\ j > k /\ s[j].role = "result" /\ s[j].turn = s[k].turn /\ s[j].call = c
    /\ \A i \in (k + 1)..(j - 1) : s[i].role # "assistant"
Settled(s) ==
  \A k \in DOMAIN s :
    s[k].role = "assistant" => \A c \in 1..s[k].calls : HasResult(s, k, c)
Owes(s, now, owed) ==
  \A k \in DOMAIN s : s[k].role = "assistant" =>
    \A c \in 1..s[k].calls :
      \/ HasResult(s, k, c)
      \/ c \in owed /\ s[k].turn = now /\ \A i \in (k + 1)..Len(s) : s[i].role # "assistant"
CallsIn(s) == {s[i].call : i \in DOMAIN s}
OnlyUsers(s) == \A i \in DOMAIN s : s[i].role = "user"

FromUsers == OnlyUsers(pending)
OfThisTurn ==
  pc \in {"tools", "commit", "transfer"} =>
    \A i \in DOMAIN results : results[i].turn = turn_index
CallsOpen == pc = "tools" => Owes(ctx, turn_index, 1..Whole)
CallsCovered == pc \in {"commit", "transfer"} => Owes(ctx, turn_index, CallsIn(results))
CallsSettled ==
  pc \notin {"tools", "commit", "transfer", "cancelled", "ending", "returned", "error",
             "abort"} => Settled(ctx)
CallsFollowed == OfThisTurn /\ CallsOpen /\ CallsCovered /\ CallsSettled

-----------------------------------------------------------------------------
(* The messages of a context.                                              *)
LEMMA Contexts ==
  /\ <<>> \in Context
  /\ \A s, t \in Context : s \o t \in Context
  /\ \A s \in Context : \A x \in Message : Append(s, x) \in Context
  /\ \A x \in Message : <<x>> \in Context
  /\ Seq(ResultMessages) \subseteq Context
<1>1. \A s \in Seq(ResultMessages) : s \in Seq(Message)
  BY DEF Message
<1> QED BY <1>1 DEF Context

LEMMA Made ==
  /\ \A m \in Messages \cup Senders : User(m) \in Message
  /\ turn_index \in Nat => \A n \in 0..MaxCalls : Assistant(n) \in Message
  /\ turn_index \in Nat => \A c \in 1..MaxCalls : Result(c) \in ResultMessages
  BY DEF User, Assistant, Result, Message, ResultMessages

LEMMA ResultsMade ==
  ASSUME turn_index \in Nat, NEW first \in Nat \ {0}, NEW count \in Nat,
         first + count - 1 <= MaxCalls
  PROVE  /\ ResultsOf(first, count) \in Seq(ResultMessages)
         /\ Len(ResultsOf(first, count)) = count
         /\ \A i \in 1..count : ResultsOf(first, count)[i] = Result(first + i - 1)
<1>1. \A i \in 1..count : Result(first + i - 1) \in ResultMessages
  BY Made, LoopAssumption
<1> QED BY <1>1 DEF ResultsOf

(* Whose messages they are.                                                *)
LEMMA UsersIn ==
  ASSUME NEW s
  PROVE  \A m : m \in Users(s) <=> \E i \in DOMAIN s : s[i].role = "user" /\ s[i].id = m
  BY DEF Users

LEMMA UsersJoin ==
  ASSUME NEW s \in Context, NEW t \in Context
  PROVE  Users(s \o t) = Users(s) \cup Users(t)
<1>1. /\ DOMAIN (s \o t) = 1..(Len(s) + Len(t)) /\ DOMAIN s = 1..Len(s) /\ DOMAIN t = 1..Len(t)
      /\ Len(s) \in Nat /\ Len(t) \in Nat
  BY DEF Context
<1>2. \A i \in DOMAIN s : (s \o t)[i] = s[i]
  BY DEF Context
<1>3. \A i \in DOMAIN t : (s \o t)[Len(s) + i] = t[i]
  BY DEF Context
<1>4. \A i \in DOMAIN (s \o t) : i \in DOMAIN s \/ i - Len(s) \in DOMAIN t
  BY <1>1
<1>5. ASSUME NEW m \in Users(s \o t) PROVE m \in Users(s) \cup Users(t)
  <2>1. PICK i \in DOMAIN (s \o t) : (s \o t)[i].role = "user" /\ (s \o t)[i].id = m
    BY UsersIn
  <2>2. CASE i \in DOMAIN s
    BY <2>1, <2>2, <1>2, UsersIn
  <2>3. CASE i - Len(s) \in DOMAIN t
    <3>1. i = Len(s) + (i - Len(s))
      BY <1>1
    <3>2. (s \o t)[i] = t[i - Len(s)]
      BY <3>1, <2>3, <1>3
    <3> QED BY <2>1, <2>3, <3>2, UsersIn
  <2> QED BY <2>2, <2>3, <1>4
<1>6. ASSUME NEW m \in Users(s) PROVE m \in Users(s \o t)
  <2>1. PICK i \in DOMAIN s : s[i].role = "user" /\ s[i].id = m
    BY UsersIn
  <2>2. i \in DOMAIN (s \o t)
    BY <1>1
  <2>3. (s \o t)[i].role = "user" /\ (s \o t)[i].id = m
    BY <2>1, <1>2
  <2> QED BY <2>2, <2>3, UsersIn
<1>7. ASSUME NEW m \in Users(t) PROVE m \in Users(s \o t)
  <2>1. PICK i \in DOMAIN t : t[i].role = "user" /\ t[i].id = m
    BY UsersIn
  <2>2. Len(s) + i \in DOMAIN (s \o t)
    BY <1>1
  <2>3. (s \o t)[Len(s) + i].role = "user" /\ (s \o t)[Len(s) + i].id = m
    BY <2>1, <1>3
  <2> QED BY <2>2, <2>3, UsersIn
<1> QED BY <1>5, <1>6, <1>7

LEMMA UsersOne ==
  ASSUME NEW x \in Message
  PROVE  Users(<<x>>) = IF x.role = "user" THEN {x.id} ELSE {}
<1>1. DOMAIN <<x>> = {1} /\ <<x>>[1] = x
  OBVIOUS
<1> QED BY <1>1 DEF Users

LEMMA UsersAppend ==
  ASSUME NEW s \in Context, NEW x \in Message
  PROVE  Users(Append(s, x)) = Users(s) \cup (IF x.role = "user" THEN {x.id} ELSE {})
<1>1. Append(s, x) = s \o <<x>>
  BY DEF Context
<1> QED BY <1>1, UsersJoin, UsersOne, Contexts, ZenonT(40)

LEMMA UsersNone == Users(<<>>) = {} /\ \A s \in Seq(ResultMessages) : Users(s) = {}
<1>1. DOMAIN <<>> = {}
  OBVIOUS
<1>2. ASSUME NEW s \in Seq(ResultMessages), NEW i \in DOMAIN s PROVE s[i].role # "user"
  <2>1. s[i] \in ResultMessages
    BY <1>2
  <2> QED BY <2>1 DEF ResultMessages
<1> QED BY <1>1, <1>2 DEF Users

(* What a poll takes, and what it leaves.                                  *)
LEMMA Polls ==
  ASSUME NEW q \in Seq(Messages), NEW mode
  PROVE  /\ Drained(q, mode) \in Seq(Messages) /\ Left(q, mode) \in Seq(Messages)
         /\ Ids(q) = Ids(Drained(q, mode)) \cup Ids(Left(q, mode))
         /\ q = <<>> => Drained(q, mode) = <<>>
         /\ Once(q) => /\ Ids(Drained(q, mode)) \cap Ids(Left(q, mode)) = {}
                       /\ Once(Drained(q, mode)) /\ Once(Left(q, mode))
<1>0. DOMAIN <<>> = {} /\ <<>> \in Seq(Messages)
  OBVIOUS
<1>1. CASE mode = "OneAtATime" /\ q # <<>>
  <2>1. Drained(q, mode) = <<Head(q)>> /\ Left(q, mode) = Tail(q)
    BY <1>1 DEF Drained, Left
  <2>2. /\ Len(q) \in Nat \ {0} /\ DOMAIN q = 1..Len(q) /\ Head(q) = q[1] /\ Head(q) \in Messages
        /\ Tail(q) \in Seq(Messages) /\ Len(Tail(q)) = Len(q) - 1
        /\ DOMAIN Tail(q) = 1..(Len(q) - 1)
        /\ \A i \in 1..(Len(q) - 1) : Tail(q)[i] = q[i + 1]
    BY <1>1
  <2>3. DOMAIN <<Head(q)>> = {1} /\ <<Head(q)>>[1] = q[1] /\ <<Head(q)>> \in Seq(Messages)
    BY <2>2
  <2>4. Ids(<<Head(q)>>) = {q[1]}
    BY <2>3 DEF Ids
  <2>5. Ids(Tail(q)) = {q[i] : i \in 2..Len(q)}
    <3>1. \A i \in 2..Len(q) : i - 1 \in 1..(Len(q) - 1) /\ Tail(q)[i - 1] = q[i]
      BY <2>2
    <3>2. \A i \in 1..(Len(q) - 1) : i + 1 \in 2..Len(q)
      BY <2>2
    <3>3. \A x \in Ids(Tail(q)) : \E i \in 2..Len(q) : x = q[i]
      BY <2>2, <3>2 DEF Ids
    <3>4. ASSUME NEW i \in 2..Len(q) PROVE q[i] \in Ids(Tail(q))
      <4>1. i - 1 \in DOMAIN Tail(q) /\ Tail(q)[i - 1] = q[i]
        BY <3>1, <2>2
      <4> QED BY <4>1 DEF Ids
    <3> QED BY <3>3, <3>4
  <2>6. Ids(q) = {q[1]} \cup {q[i] : i \in 2..Len(q)}
    <3>1. \A i \in DOMAIN q : i = 1 \/ i \in 2..Len(q)
      BY <2>2
    <3>2. 1 \in DOMAIN q /\ \A i \in 2..Len(q) : i \in DOMAIN q
      BY <2>2
    <3> QED BY <3>1, <3>2 DEF Ids
  <2>7. ASSUME Once(q)
        PROVE  {q[1]} \cap {q[i] : i \in 2..Len(q)} = {} /\ Once(<<Head(q)>>) /\ Once(Tail(q))
    <3>1. \A i, j \in 1..Len(q) : q[i] = q[j] => i = j
      BY <2>7, <2>2 DEF Once
    <3>2. Once(<<Head(q)>>)
      BY <2>3 DEF Once
    <3>3. \A i \in 1..(Len(q) - 1) : i + 1 \in 1..Len(q)
      BY <2>2
    <3>4. ASSUME NEW i \in 1..(Len(q) - 1), NEW j \in 1..(Len(q) - 1), Tail(q)[i] = Tail(q)[j]
          PROVE  i = j
      <4>1. i + 1 = j + 1
        BY <3>1, <3>3, <3>4, <2>2
      <4> QED BY <4>1
    <3>5. Once(Tail(q))
      BY <3>4, <2>2 DEF Once
    <3>6. \A i \in 2..Len(q) : i \in 1..Len(q) /\ 1 \in 1..Len(q) /\ i # 1
      BY <2>2
    <3> QED BY <3>1, <3>2, <3>5, <3>6
  <2> QED BY <1>1, <2>1, <2>2, <2>3, <2>4, <2>5, <2>6, <2>7
<1>2. CASE ~(mode = "OneAtATime" /\ q # <<>>)
  <2>1. Drained(q, mode) = q /\ Left(q, mode) = <<>>
    BY <1>2 DEF Drained, Left
  <2>2. Ids(<<>>) = {} /\ Once(<<>>)
    BY <1>0 DEF Ids, Once
  <2> QED BY <1>0, <2>1, <2>2
<1> QED BY <1>1, <1>2

LEMMA Polled ==
  ASSUME NEW q \in Seq(Messages)
  PROVE  /\ UserMessages(q) \in Context /\ Users(UserMessages(q)) = Ids(q)
         /\ Once(q) => OnceIn(UserMessages(q))
<1>1. Len(q) \in Nat /\ DOMAIN q = 1..Len(q) /\ \A i \in DOMAIN q : q[i] \in Messages
  OBVIOUS
<1>2. \A i \in 1..Len(q) : User(q[i]) \in Message
  BY <1>1, Made
<1>3. UserMessages(q) = [i \in 1..Len(q) |-> User(q[i])]
  BY <1>1 DEF UserMessages
<1>4. UserMessages(q) \in Context
  BY <1>1, <1>2, <1>3 DEF Context
<1>5. /\ DOMAIN UserMessages(q) = DOMAIN q
      /\ \A i \in DOMAIN q : UserMessages(q)[i].role = "user" /\ UserMessages(q)[i].id = q[i]
  BY <1>1, <1>3 DEF User
<1>6. Users(UserMessages(q)) = Ids(q)
  BY <1>5 DEF Users, Ids
<1>7. Once(q) => OnceIn(UserMessages(q))
  BY <1>5 DEF Once, OnceIn
<1> QED BY <1>4, <1>6, <1>7

(* A compaction leaves a suffix of the context.                            *)
LEMMA Compacted ==
  ASSUME ctx \in Context, NEW new \in run_context_transformers
  PROVE  /\ new \in Context
         /\ \E d \in Nat : /\ Len(new) = Len(ctx) - d
                           /\ \A i \in 1..Len(new) : new[i] = ctx[i + d]
<1>1. CASE new = ctx
  <2>1. 0 \in Nat /\ Len(new) = Len(ctx) - 0 /\ \A i \in 1..Len(new) : new[i] = ctx[i + 0]
    BY <1>1 DEF Context
  <2> QED BY <1>1, <2>1
<1>2. CASE new \in Compactions
  <2>1. PICK n \in 2..Len(ctx) : new = SubSeq(ctx, n, Len(ctx))
    BY <1>2 DEF Compactions
  <2>2. Len(ctx) \in Nat /\ n \in Nat /\ n >= 2 /\ n <= Len(ctx)
    BY <2>1 DEF Context
  <2>3. /\ new \in Context /\ Len(new) = Len(ctx) - (n - 1) /\ n - 1 \in Nat
        /\ \A i \in 1..Len(new) : new[i] = ctx[i + (n - 1)]
    BY <2>1, <2>2 DEF Context
  <2> QED BY <2>3
<1> QED BY <1>1, <1>2, SMTT(40) DEF run_context_transformers

(* The endings: what each consists of, and what is left of it after its    *)
(* first event.                                                            *)
LEMMA Scripts ==
  /\ Closes(handle_cancellation) /\ Len(handle_cancellation) = 5
  /\ Closes(handle_started_turn_cancellation) /\ Len(handle_started_turn_cancellation) = 3
  /\ \A r \in P!FinalReasons :
       /\ Closes(<<End(r), Event("AgentEnd")>>) /\ Len(<<End(r), Event("AgentEnd")>>) = 2
       /\ <<End(r), Event("AgentEnd")>>[1].reason = r
  /\ Closes(<<Event("AgentEnd")>>) /\ Len(<<Event("AgentEnd")>>) = 1
<1>1. /\ \A t \in {"AgentStart", "TurnStart", "MessageStart", "MessageEnd", "AgentEnd"} :
           Event(t) \in LoopEvents /\ Event(t).type = t
      /\ \A r \in P!FinalReasons :
           End(r) \in LoopEvents /\ End(r).type = "TurnEnd" /\ End(r).reason = r
  BY DEF Event, End, LoopEvents, P!Reasons
<1>2. "Cancelled" \in P!FinalReasons
  BY DEF P!FinalReasons
<1>3. Closes(handle_cancellation) /\ Len(handle_cancellation) = 5
  <2> DEFINE s == handle_cancellation
  <2>1. /\ s \in Seq(LoopEvents) /\ Len(s) = 5 /\ s[5] = Event("AgentEnd")
        /\ s[4] = End("Cancelled") /\ s[3] = Event("MessageEnd") /\ s[2] = Event("MessageStart")
        /\ s[1] = Event("TurnStart")
    BY <1>1, <1>2 DEF handle_cancellation
  <2> HIDE DEF s
  <2>2. Closes(s) /\ Len(s) = 5
    BY <1>1, <1>2, <2>1 DEF Closes
  <2> QED BY <2>2 DEF s
<1>4. Closes(handle_started_turn_cancellation) /\ Len(handle_started_turn_cancellation) = 3
  <2> DEFINE s == handle_started_turn_cancellation
  <2>1. /\ s \in Seq(LoopEvents) /\ Len(s) = 3 /\ s[3] = Event("AgentEnd")
        /\ s[2] = End("Cancelled") /\ s[1] = Event("MessageEnd")
    BY <1>1, <1>2 DEF handle_started_turn_cancellation
  <2> HIDE DEF s
  <2>2. Closes(s) /\ Len(s) = 3
    BY <1>1, <1>2, <2>1 DEF Closes
  <2> QED BY <2>2 DEF s
<1>5. ASSUME NEW r \in P!FinalReasons
      PROVE  /\ Closes(<<End(r), Event("AgentEnd")>>) /\ Len(<<End(r), Event("AgentEnd")>>) = 2
             /\ <<End(r), Event("AgentEnd")>>[1].reason = r
  <2> DEFINE s == <<End(r), Event("AgentEnd")>>
  <2>1. s \in Seq(LoopEvents) /\ Len(s) = 2 /\ s[2] = Event("AgentEnd") /\ s[1] = End(r)
    BY <1>1
  <2> HIDE DEF s
  <2>2. Closes(s) /\ Len(s) = 2 /\ s[1].reason = r
    BY <1>1, <2>1 DEF Closes
  <2> QED BY <2>2 DEF s
<1>6. Closes(<<Event("AgentEnd")>>) /\ Len(<<Event("AgentEnd")>>) = 1
  <2> DEFINE s == <<Event("AgentEnd")>>
  <2>1. s \in Seq(LoopEvents) /\ Len(s) = 1 /\ s[1] = Event("AgentEnd")
    BY <1>1
  <2> HIDE DEF s
  <2>2. Closes(s) /\ Len(s) = 1
    BY <1>1, <2>1 DEF Closes
  <2> QED BY <2>2 DEF s
<1> QED BY <1>3, <1>4, <1>5, <1>6

LEMMA ScriptsGoOn ==
  ASSUME NEW s, Closes(s)
  PROVE  /\ s # <<>> /\ Head(s) = s[1] /\ Tail(s) \in Seq(LoopEvents)
         /\ Len(s) > 1 => Closes(Tail(s)) /\ Len(Tail(s)) = Len(s) - 1 /\ Tail(s) # <<>>
         /\ Len(s) = 3 => Tail(s)[1] = s[2]
<1>1. s \in Seq(LoopEvents) /\ Len(s) \in 1..5
  BY DEF Closes
<1>2. /\ s # <<>> /\ Head(s) = s[1] /\ Tail(s) \in Seq(LoopEvents) /\ Len(Tail(s)) = Len(s) - 1
      /\ \A i \in 1..(Len(s) - 1) : Tail(s)[i] = s[i + 1]
  BY <1>1
<1>3. Len(s) = 3 => Tail(s)[1] = s[2]
  <2>1. Len(s) = 3 => 1 \in 1..(Len(s) - 1) /\ 1 + 1 = 2
    OBVIOUS
  <2> QED BY <1>2, <2>1
<1>4. ASSUME Len(s) > 1 PROVE Closes(Tail(s)) /\ Tail(s) # <<>>
  <2> DEFINE t == Tail(s)
  <2>1. t \in Seq(LoopEvents) /\ Len(t) \in 1..4 /\ Len(s) = Len(t) + 1
    BY <1>1, <1>2, <1>4
  <2>2. \A i \in 1..Len(t) : t[i] = s[i + 1]
    BY <1>2, <2>1
  <2> HIDE DEF t
  <2>3. t[Len(t)] = s[Len(s)]
    BY <2>1, <2>2
  <2>4. Len(t) >= 2 => t[Len(t) - 1] = s[Len(s) - 1]
    <3>1. Len(t) >= 2 => Len(t) - 1 \in 1..Len(t) /\ Len(t) - 1 + 1 = Len(s) - 1
      BY <2>1
    <3> QED BY <3>1, <2>2
  <2>5. Len(t) >= 3 => t[Len(t) - 2] = s[Len(s) - 2]
    <3>1. Len(t) >= 3 => Len(t) - 2 \in 1..Len(t) /\ Len(t) - 2 + 1 = Len(s) - 2
      BY <2>1
    <3> QED BY <3>1, <2>2
  <2>6. Len(t) >= 4 => t[Len(t) - 3] = s[Len(s) - 3]
    <3>1. Len(t) >= 4 => Len(t) - 3 \in 1..Len(t) /\ Len(t) - 3 + 1 = Len(s) - 3
      BY <2>1
    <3> QED BY <3>1, <2>2
  <2>7. Closes(t)
    BY <2>1, <2>3, <2>4, <2>5, <2>6 DEF Closes
  <2>8. t # <<>>
    <3>1. Len(<<>>) = 0 /\ 0 \notin 1..4
      OBVIOUS
    <3>2. Len(t) \in 1..4
      BY <2>1
    <3> QED BY <3>1, <3>2, Zenon
  <2> QED BY <2>7, <2>8 DEF t
<1> QED BY <1>1, <1>2, <1>3, <1>4

LEMMA Injections ==
  ASSUME NEW k \in 0..1
  PROVE  Injected(k) \in Context /\ Users(Injected(k)) \subseteq {"injected"}
<1>1. User("injected") \in Message /\ User("injected").id = "injected"
  BY Made DEF Senders, User
<1>2. \A i \in 1..k : User("injected") \in Message
  BY <1>1
<1>3. Injected(k) \in Context
  BY <1>2 DEF Injected, Context
<1>4. DOMAIN Injected(k) = 1..k /\ \A i \in 1..k : Injected(k)[i].id = "injected"
  BY <1>1 DEF Injected
<1> QED BY <1>3, <1>4 DEF Users

(* What a step may make of the messages at hand.                           *)
LEMMA AtHand ==
  ASSUME TypeInvariant
  PROVE  /\ Assistant(0) \in Message /\ <<Assistant(0)>> \in Context
         /\ Assistant(answer.calls) \in Message
         /\ User("injected") \in Message /\ <<User("nudge")>> \in Context
         /\ UserMessages(Drained(steering, SteeringMode)) \in Context
         /\ UserMessages(Drained(followUp, FollowUpMode)) \in Context
         /\ Left(steering, SteeringMode) \in Seq(Messages)
         /\ Left(followUp, FollowUpMode) \in Seq(Messages)
         /\ Whole \in Nat /\ Whole + answer.incomplete = answer.calls
         /\ answer.incomplete \in 0..1 /\ Whole <= MaxCalls
         /\ ResultsOf(Whole + 1, answer.incomplete) \in Seq(ResultMessages)
         /\ ResultsOf(1, Whole) \in Seq(ResultMessages)
         /\ results \in Seq(ResultMessages) /\ results \in Context
         /\ results \o ResultsOf(1, Whole) \in Seq(ResultMessages)
<1>1. turn_index \in Nat
  BY DEF TypeInvariant, PlaceType
<1>2. /\ answer.calls \in 0..MaxCalls /\ answer.incomplete \in 0..1
      /\ answer.incomplete <= answer.calls
  BY DEF TypeInvariant, TurnType
<1>3. 0 \in 0..MaxCalls /\ MaxCalls \in Nat
  BY LoopAssumption
<1>4. Assistant(0) \in Message /\ Assistant(answer.calls) \in Message
  BY <1>1, <1>2, <1>3, Made
<1>5. User("injected") \in Message /\ User("nudge") \in Message
  BY Made DEF Senders
<1>6. /\ Drained(steering, SteeringMode) \in Seq(Messages)
      /\ Drained(followUp, FollowUpMode) \in Seq(Messages)
      /\ Left(steering, SteeringMode) \in Seq(Messages)
      /\ Left(followUp, FollowUpMode) \in Seq(Messages)
  BY Polls DEF TypeInvariant, QueueType
<1>7. Whole \in Nat /\ Whole + answer.incomplete = answer.calls /\ Whole <= MaxCalls
  BY <1>2, <1>3 DEF Whole
<1>8. ResultsOf(Whole + 1, answer.incomplete) \in Seq(ResultMessages)
  <2>1. /\ Whole + 1 \in Nat \ {0} /\ answer.incomplete \in Nat
        /\ Whole + 1 + answer.incomplete - 1 <= MaxCalls
    BY <1>2, <1>3, <1>7
  <2> QED BY <1>1, <2>1, ResultsMade
<1>9. ResultsOf(1, Whole) \in Seq(ResultMessages)
  <2>1. 1 \in Nat \ {0} /\ Whole \in Nat /\ 1 + Whole - 1 <= MaxCalls
    BY <1>7
  <2> QED BY <1>1, <2>1, ResultsMade
<1>10. results \in Seq(ResultMessages) /\ results \in Context
  BY Contexts DEF TypeInvariant, TurnType
<1>11. results \o ResultsOf(1, Whole) \in Seq(ResultMessages)
  BY <1>9, <1>10
<1> QED BY <1>2, <1>4, <1>5, <1>6, <1>7, <1>8, <1>9, <1>10, <1>11, Contexts, Polled


LEMMA Begun ==
  \A s \in {handle_cancellation, handle_started_turn_cancellation, <<Event("AgentEnd")>>}
           \cup {<<End(r), Event("AgentEnd")>> : r \in P!FinalReasons} :
    s \in Seq(LoopEvents) /\ s # <<>>
<1>1. ASSUME NEW s, Closes(s) PROVE s \in Seq(LoopEvents) /\ s # <<>>
  BY <1>1, ScriptsGoOn DEF Closes
<1> QED BY <1>1, Scripts

(* A post-turn policy, and the end of a batch, only add to what is pending.*)
LEMMA PolicyAdds ==
  ASSUME TypeInvariant, NEW v, run_post_turn_policy_check(v)
  PROVE  /\ injects' \in 0..MaxInjects
         /\ pending' \in Context /\ snapPending' \in Context
         /\ \/ pending' = pending /\ snapPending' = snapPending
            \/ pending' = Append(pending, User("injected")) /\ snapPending' = pending'
<1>1. injects \in 0..MaxInjects /\ pending \in Context /\ snapPending \in Context
  BY DEF TypeInvariant, PlaceType, ContextType
<1>2. Append(pending, User("injected")) \in Context
  BY <1>1, Contexts, AtHand
<1>3. CASE v = "Inject"
  <2>1. injects + 1 \in 0..MaxInjects
    BY <1>1, <1>3, LoopAssumption DEF run_post_turn_policy_check
  <2> QED BY <1>2, <1>3, <2>1 DEF run_post_turn_policy_check
<1>4. CASE v # "Inject"
  BY <1>1, <1>4 DEF run_post_turn_policy_check
<1> QED BY <1>3, <1>4

LEMMA BatchAdds ==
  ASSUME TypeInvariant, NEW messages \in Context, NEW next, BatchEnds(messages, next)
  PROVE  /\ results' = results \o ResultsOf(1, Whole)
         /\ results' \in Seq(ResultMessages) /\ injects' \in 0..MaxInjects
         /\ snapPending' = pending' /\ pending' \in Context
         /\ \E k \in 0..1 : pending' = (pending \o Injected(k)) \o messages
<1>1. injects \in 0..MaxInjects /\ pending \in Context
  BY DEF TypeInvariant, PlaceType, ContextType
<1>2. PICK k \in 0..1 : /\ k = 1 => injects < MaxInjects
                        /\ injects' = injects + k
                        /\ pending' = (pending \o Injected(k)) \o messages
  <2> DEFINE inject == "Inject" \in Policies /\ injects < MaxInjects
  <2>1. PICK k \in IF inject THEN 0..1 ELSE {0} :
          injects' = injects + k /\ pending' = (pending \o Injected(k)) \o messages
    BY DEF BatchEnds
  <2>2. k \in 0..1 /\ (k = 1 => inject)
    BY <2>1
  <2> QED BY <2>1, <2>2
<1>3. pending' \in Context
  BY <1>1, <1>2, Injections, Contexts
<1>4. injects' \in 0..MaxInjects
  BY <1>1, <1>2, LoopAssumption
<1>5. results' = results \o ResultsOf(1, Whole) /\ results' \in Seq(ResultMessages)
  BY AtHand DEF BatchEnds, BatchResults
<1> QED BY <1>2, <1>3, <1>4, <1>5 DEF BatchEnds

(* What the consumer sees of each event.                                   *)
LEMMA Seen ==
  ASSUME NEW e
  PROVE  /\ e.type = "AgentStart" =>
              (Sees(e) <=> run' = "running" /\ turn' = turn /\ msg' = msg /\ last' = last)
         /\ e.type = "TurnStart" =>
              (Sees(e) <=> run' = run /\ turn' = "open" /\ msg' = "none" /\ last' = last)
         /\ e.type = "MessageStart" =>
              (Sees(e) <=> run' = run /\ turn' = turn /\ msg' = "open" /\ last' = last)
         /\ e.type = "MessageEnd" =>
              (Sees(e) <=> run' = run /\ turn' = turn /\ msg' = "done" /\ last' = last)
         /\ e.type = "TurnEnd" =>
              (Sees(e) <=> run' = run /\ turn' = "closed" /\ msg' = msg /\ last' = e.reason)
         /\ e.type = "AgentEnd" =>
              (Sees(e) <=> run' = "ended" /\ turn' = turn /\ msg' = msg /\ last' = last)
BY DEF Sees

LEMMA SeenEvents ==
  /\ Sees(Event("AgentStart")) <=>
       run' = "running" /\ turn' = turn /\ msg' = msg /\ last' = last
  /\ Sees(Event("TurnStart")) <=>
       run' = run /\ turn' = "open" /\ msg' = "none" /\ last' = last
  /\ Sees(Event("MessageStart")) <=>
       run' = run /\ turn' = turn /\ msg' = "open" /\ last' = last
  /\ Sees(Event("MessageEnd")) <=>
       run' = run /\ turn' = turn /\ msg' = "done" /\ last' = last
  /\ \A r : Sees(End(r)) <=>
       run' = run /\ turn' = "closed" /\ msg' = msg /\ last' = r
<1>1. \A t : Event(t).type = t
  BY DEF Event
<1>2. \A r : End(r).type = "TurnEnd" /\ End(r).reason = r
  BY DEF End
<1> QED BY <1>1, <1>2, Seen

(* The next event of an ending.                                            *)
LEMMA NextOfEnding ==
  ASSUME NEW s, Closes(s)
  PROVE  /\ Len(s) \in 1..5
         /\ Len(s) = 1 => s[1].type = "AgentEnd"
         /\ Len(s) = 2 => s[1].type = "TurnEnd" /\ s[1].reason \in P!FinalReasons
         /\ Len(s) = 3 => s[1].type = "MessageEnd"
         /\ Len(s) = 4 => s[1].type = "MessageStart"
         /\ Len(s) = 5 => s[1].type = "TurnStart"
<1>1. Len(s) \in 1..5
  BY DEF Closes
<1>2. Len(s) = 1 => s[1].type = "AgentEnd"
  BY DEF Closes
<1>3. ASSUME Len(s) = 2 PROVE s[1].type = "TurnEnd" /\ s[1].reason \in P!FinalReasons
  <2>1. 2 >= 2 /\ 2 - 1 = 1
    OBVIOUS
  <2> QED BY <1>3, <2>1 DEF Closes
<1>4. ASSUME Len(s) = 3 PROVE s[1].type = "MessageEnd"
  <2>1. 3 >= 3 /\ 3 - 2 = 1
    OBVIOUS
  <2> QED BY <1>4, <2>1 DEF Closes
<1>5. ASSUME Len(s) = 4 PROVE s[1].type = "MessageStart"
  <2>1. 4 >= 4 /\ 4 - 3 = 1
    OBVIOUS
  <2> QED BY <1>5, <2>1 DEF Closes
<1>6. Len(s) = 5 => s[1].type = "TurnStart"
  BY DEF Closes
<1> QED BY <1>1, <1>2, <1>3, <1>4, <1>5, <1>6

LEMMA UsersTyped == \A s \in Context : Users(s) \subseteq Messages \cup Senders
<1>1. ASSUME NEW s \in Context, NEW i \in DOMAIN s, s[i].role = "user"
      PROVE  s[i].id \in Messages \cup Senders
  <2>1. s[i] \in Message
    BY <1>1 DEF Context
  <2> QED BY <1>1, <2>1 DEF Message, ResultMessages
<1> QED BY <1>1 DEF Users

LEMMA AnswersTyped ==
  \A a \in Answers :
    /\ a \in [kind : {"none", "visible", "reasoning", "calls"},
              calls : 0..MaxCalls, incomplete : 0..1]
    /\ a.incomplete <= a.calls
<1> SUFFICES ASSUME NEW a \in Answers
             PROVE  /\ a \in [kind : {"none", "visible", "reasoning", "calls"},
                              calls : 0..MaxCalls, incomplete : 0..1]
                    /\ a.incomplete <= a.calls
  OBVIOUS
<1>1. CASE \E k \in {"visible", "reasoning"} : a = [kind |-> k, calls |-> 0, incomplete |-> 0]
  BY <1>1, LoopAssumption
<1>2. CASE \E n \in 1..MaxCalls, i \in 0..1 :
             a = [kind |-> "calls", calls |-> n, incomplete |-> i]
  BY <1>2, LoopAssumption
<1> QED BY <1>1, <1>2 DEF Answers

(* The types are kept.                                                     *)
THEOREM LoopTypeCorrect == Spec => []TypeInvariant
<1>1. Init => TypeInvariant
  <2> SUFFICES ASSUME Init PROVE TypeInvariant
    OBVIOUS
  <2>1. PlaceType
    BY LoopAssumption DEF Init, PlaceType, Steps
  <2>2. ContextType
    BY Contexts, Made DEF Init, ContextType, Senders
  <2>3. QueueType
    BY DEF Init, QueueType, Senders
  <2>4. FlagType
    BY DEF Init, FlagType
  <2>5. TurnType
    <3>1. NoAnswer \in [kind : {"none", "visible", "reasoning", "calls"},
                        calls : 0..MaxCalls, incomplete : 0..1]
      BY LoopAssumption DEF NoAnswer
    <3>2. NoAnswer.incomplete <= NoAnswer.calls
      BY DEF NoAnswer
    <3>3. answer = NoAnswer /\ results \in Seq(ResultMessages)
      BY DEF Init
    <3>4. stop \in BOOLEAN /\ interrupted \in BOOLEAN
      BY DEF Init
    <3> QED BY <3>1, <3>2, <3>3, <3>4 DEF TurnType
  <2>6. ScriptType
    BY DEF Init, ScriptType
  <2> QED BY <2>1, <2>2, <2>3, <2>4, <2>5, <2>6 DEF TypeInvariant
<1>2. TypeInvariant /\ [Next]_vars => TypeInvariant'
  <2> SUFFICES ASSUME TypeInvariant, [Next]_vars PROVE TypeInvariant'
    OBVIOUS
  <2>1. CASE Start
    <3>1. PlaceType'
      BY <2>1, LoopAssumption DEF TypeInvariant, Start, emit, Sees, PlaceType,
         ScriptType, ContextType, QueueType, FlagType, TurnType, Steps
    <3>2. ScriptType'
      BY <2>1, LoopAssumption, Begun DEF TypeInvariant, Start, emit, Sees,
         ScriptType, PlaceType, ContextType, QueueType, FlagType, TurnType
    <3>3. ContextType'
      BY <2>1, LoopAssumption, Contexts, AtHand DEF TypeInvariant, Start,
         emit, stream, Sees, snaps, ContextType, PlaceType, ScriptType,
         QueueType, FlagType, TurnType
    <3>4. TurnType'
      BY <2>1, LoopAssumption, AtHand DEF TypeInvariant, Start, emit, stream,
         Sees, turnVars, TurnType, PlaceType, ScriptType, ContextType,
         QueueType, FlagType
    <3> QED BY <2>1, <3>1, <3>2, <3>3, <3>4 DEF TypeInvariant, Start, emit,
       queues, env, history, QueueType, FlagType
  <2>2. CASE InjectPending
    <3>1. PlaceType'
      BY <2>2, LoopAssumption DEF TypeInvariant, InjectPending, NoAnswer,
         sync_loop_context_snapshot, Ends, PlaceType, ScriptType, ContextType,
         QueueType, FlagType, TurnType, Steps
    <3>2. ScriptType'
      <4>1. handle_cancellation \in Seq(LoopEvents) /\ handle_cancellation # <<>>
        BY Begun
      <4>2. \/ pc' = "ending" /\ script' = handle_cancellation
            \/ pc' = "transform" /\ script' = script
        BY <2>2 DEF InjectPending, Ends
      <4> QED BY <4>1, <4>2 DEF TypeInvariant, ScriptType
    <3>3. ContextType'
      <4>1. ctx \in Context /\ pending \in Context
        BY DEF TypeInvariant, ContextType
      <4>2. ctx \o pending \in Context /\ <<>> \in Context
        BY <4>1, Contexts
      <4>3. (ctx \o pending) \o <<Assistant(0)>> \in Context
        BY <4>2, Contexts, AtHand
      <4> QED BY <2>2, <4>2, <4>3 DEF InjectPending, sync_loop_context_snapshot,
         ContextType
    <3>4. QueueType'
      <4>1. \A m \in Users(pending) : m \in Messages \cup Senders
        BY UsersTyped DEF TypeInvariant, ContextType
      <4> QED BY <2>2, <4>1 DEF TypeInvariant, QueueType, InjectPending, queues, env
    <3>5. FlagType'
      BY <2>2, LoopAssumption DEF TypeInvariant, InjectPending, NoAnswer,
         sync_loop_context_snapshot, Ends, env, FlagType, PlaceType,
         ScriptType, ContextType, QueueType, TurnType
    <3>6. TurnType'
      <4>1. NoAnswer \in [kind : {"none", "visible", "reasoning", "calls"},
                          calls : 0..MaxCalls, incomplete : 0..1]
        BY LoopAssumption DEF NoAnswer
      <4>2. NoAnswer.incomplete <= NoAnswer.calls
        BY DEF NoAnswer
      <4>3. answer' = NoAnswer /\ results' = <<>>
        BY <2>2 DEF InjectPending
      <4>4. results' \in Seq(ResultMessages)
        BY <4>3
      <4>5. stop' \in BOOLEAN /\ interrupted' \in BOOLEAN
        BY <2>2 DEF InjectPending
      <4> QED BY <4>1, <4>2, <4>3, <4>4, <4>5 DEF TurnType
    <3> QED BY <2>2, <3>1, <3>2, <3>3, <3>4, <3>5, <3>6 DEF TypeInvariant
  <2>3. CASE Transform
    <3>1. PlaceType'
      BY <2>3, LoopAssumption DEF TypeInvariant, Transform,
         sync_loop_context_snapshot, PlaceType, ScriptType, ContextType,
         QueueType, FlagType, TurnType, Steps
    <3>2. ScriptType'
      BY <2>3, LoopAssumption, Begun DEF TypeInvariant, Transform,
         sync_loop_context_snapshot, ScriptType, PlaceType, ContextType,
         QueueType, FlagType, TurnType
    <3>3. ContextType'
      <4>1. ctx' \in Context
        BY <2>3, Compacted DEF TypeInvariant, ContextType, Transform
      <4>2. snapCtx' = ctx' /\ pending' = pending /\ snapPending' = snapPending
        BY <2>3 DEF Transform, sync_loop_context_snapshot
      <4> QED BY <4>1, <4>2 DEF TypeInvariant, ContextType
    <3> QED BY <2>3, <3>1, <3>2, <3>3 DEF TypeInvariant, Transform, queues,
       turnVars, stream, env, history, QueueType, FlagType, TurnType
  <2>4. CASE PreTurnContinue
    <3>1. PlaceType'
      BY <2>4, LoopAssumption DEF TypeInvariant, PreTurnContinue, PlaceType,
         ScriptType, ContextType, QueueType, FlagType, TurnType, Steps
    <3>2. ScriptType'
      BY <2>4, LoopAssumption, Begun DEF TypeInvariant, PreTurnContinue,
         ScriptType, PlaceType, ContextType, QueueType, FlagType, TurnType
    <3> QED BY <2>4, <3>1, <3>2 DEF TypeInvariant, PreTurnContinue, snaps,
       queues, turnVars, stream, env, history, ContextType, QueueType,
       FlagType, TurnType
  <2>5. CASE PreTurnStop
    <3>1. PlaceType'
      BY <2>5, LoopAssumption DEF TypeInvariant, PreTurnStop, Ends, PlaceType,
         ScriptType, ContextType, QueueType, FlagType, TurnType, Steps
    <3>2. ScriptType'
      BY <2>5, LoopAssumption, Begun DEF TypeInvariant, PreTurnStop, Ends,
         ScriptType, PlaceType, ContextType, QueueType, FlagType, TurnType
    <3>3. FlagType'
      BY <2>5, LoopAssumption DEF TypeInvariant, PreTurnStop, Ends, env,
         FlagType, PlaceType, ScriptType, ContextType, QueueType, TurnType
    <3> QED BY <2>5, <3>1, <3>2, <3>3 DEF TypeInvariant, PreTurnStop, Ends,
       stream, snaps, queues, turnVars, env, ContextType, QueueType, TurnType
  <2>6. CASE PreTurnInject
    <3>1. PlaceType'
      BY <2>6, LoopAssumption DEF TypeInvariant, PreTurnInject,
         sync_loop_context_snapshot, PlaceType, ScriptType, ContextType,
         QueueType, FlagType, TurnType, Steps
    <3>2. ScriptType'
      BY <2>6, LoopAssumption, Begun DEF TypeInvariant, PreTurnInject,
         sync_loop_context_snapshot, ScriptType, PlaceType, ContextType,
         QueueType, FlagType, TurnType
    <3>3. ContextType'
      BY <2>6, LoopAssumption, Contexts, AtHand DEF TypeInvariant,
         PreTurnInject, sync_loop_context_snapshot, stream, ContextType,
         PlaceType, ScriptType, QueueType, FlagType, TurnType
    <3> QED BY <2>6, <3>1, <3>2, <3>3 DEF TypeInvariant, PreTurnInject,
       queues, turnVars, stream, env, history, QueueType, FlagType, TurnType
  <2>7. CASE TurnStart
    <3>1. PlaceType'
      BY <2>7, LoopAssumption DEF TypeInvariant, TurnStart, emit, Sees,
         PlaceType, ScriptType, ContextType, QueueType, FlagType, TurnType,
         Steps
    <3>2. ScriptType'
      BY <2>7, LoopAssumption, Begun DEF TypeInvariant, TurnStart, emit, Sees,
         ScriptType, PlaceType, ContextType, QueueType, FlagType, TurnType
    <3>3. ContextType'
      BY <2>7, LoopAssumption, Contexts, AtHand DEF TypeInvariant, TurnStart,
         emit, stream, Sees, snaps, ContextType, PlaceType, ScriptType,
         QueueType, FlagType, TurnType
    <3>4. TurnType'
      BY <2>7, LoopAssumption, AtHand DEF TypeInvariant, TurnStart, emit,
         stream, Sees, turnVars, TurnType, PlaceType, ScriptType, ContextType,
         QueueType, FlagType
    <3> QED BY <2>7, <3>1, <3>2, <3>3, <3>4 DEF TypeInvariant, TurnStart,
       emit, queues, env, history, QueueType, FlagType
  <2>8. CASE BeforeLlmCall
    <3>1. PlaceType'
      BY <2>8, LoopAssumption DEF TypeInvariant, BeforeLlmCall, CallStep,
         PlaceType, ScriptType, ContextType, QueueType, FlagType, TurnType,
         Steps
    <3>2. ScriptType'
      BY <2>8, LoopAssumption, Begun DEF TypeInvariant, BeforeLlmCall,
         CallStep, ScriptType, PlaceType, ContextType, QueueType, FlagType,
         TurnType
    <3> QED BY <2>8, <3>1, <3>2 DEF TypeInvariant, BeforeLlmCall, snaps,
       queues, turnVars, stream, env, history, ContextType, QueueType,
       FlagType, TurnType
  <2>9. CASE CallModel
    <3>1. PlaceType'
      BY <2>9, LoopAssumption DEF TypeInvariant, CallModel, emit, Sees,
         PlaceType, ScriptType, ContextType, QueueType, FlagType, TurnType,
         Steps
    <3>2. ScriptType'
      BY <2>9, LoopAssumption, Begun DEF TypeInvariant, CallModel, emit, Sees,
         ScriptType, PlaceType, ContextType, QueueType, FlagType, TurnType
    <3>3. ContextType'
      BY <2>9, LoopAssumption, Contexts, AtHand DEF TypeInvariant, CallModel,
         stream, emit, Sees, snaps, ContextType, PlaceType, ScriptType,
         QueueType, FlagType, TurnType
    <3>4. TurnType'
      BY <2>9, LoopAssumption, AtHand DEF TypeInvariant, CallModel, stream,
         emit, Sees, turnVars, TurnType, PlaceType, ScriptType, ContextType,
         QueueType, FlagType
    <3> QED BY <2>9, <3>1, <3>2, <3>3, <3>4 DEF TypeInvariant, CallModel,
       emit, queues, env, history, QueueType, FlagType
  <2>10. ASSUME NEW a \in Answers, StreamAnswers(a) PROVE TypeInvariant'
    <3>1. PlaceType'
      BY <2>10, LoopAssumption DEF TypeInvariant, StreamAnswers, emit, Sees,
         PlaceType, ScriptType, ContextType, QueueType, FlagType, TurnType,
         Steps
    <3>2. ScriptType'
      BY <2>10, LoopAssumption, Begun DEF TypeInvariant, StreamAnswers, emit,
         Sees, ScriptType, PlaceType, ContextType, QueueType, FlagType,
         TurnType
    <3>3. ContextType'
      BY <2>10, LoopAssumption, Contexts, AtHand DEF TypeInvariant,
         StreamAnswers, emit, stream, Sees, snaps, ContextType, PlaceType,
         ScriptType, QueueType, FlagType, TurnType
    <3>4. TurnType'
      <4>1. /\ answer' \in [kind : {"none", "visible", "reasoning", "calls"},
                            calls : 0..MaxCalls, incomplete : 0..1]
            /\ answer'.incomplete <= answer'.calls
        BY <2>10, AnswersTyped DEF StreamAnswers
      <4>2. UNCHANGED <<results, stop, interrupted>>
        BY <2>10 DEF StreamAnswers
      <4> QED BY <4>1, <4>2 DEF TypeInvariant, TurnType
    <3> QED BY <2>10, <3>1, <3>2, <3>3, <3>4 DEF TypeInvariant, StreamAnswers,
       emit, queues, env, history, QueueType, FlagType
  <2>11. CASE StreamFails
    <3>1. PlaceType'
      BY <2>11, LoopAssumption DEF TypeInvariant, StreamFails, emit, Sees,
         emit_unchecked, PlaceType, ScriptType, ContextType, QueueType,
         FlagType, TurnType, Steps
    <3>2. ScriptType'
      BY <2>11, LoopAssumption, Begun DEF TypeInvariant, StreamFails, emit,
         Sees, emit_unchecked, ScriptType, PlaceType, ContextType, QueueType,
         FlagType, TurnType
    <3>3. ContextType'
      BY <2>11, LoopAssumption, Contexts, AtHand DEF TypeInvariant,
         StreamFails, emit, stream, Sees, emit_unchecked, snaps, ContextType,
         PlaceType, ScriptType, QueueType, FlagType, TurnType
    <3>4. TurnType'
      BY <2>11, LoopAssumption, AtHand DEF TypeInvariant, StreamFails, emit,
         stream, Sees, emit_unchecked, turnVars, TurnType, PlaceType,
         ScriptType, ContextType, QueueType, FlagType
    <3> QED BY <2>11, <3>1, <3>2, <3>3, <3>4 DEF TypeInvariant, StreamFails,
       emit, emit_unchecked, queues, env, history, QueueType, FlagType
  <2>12. CASE StreamAborts
    <3>1. PlaceType'
      BY <2>12, LoopAssumption DEF TypeInvariant, StreamAborts, emit, Sees,
         PlaceType, ScriptType, ContextType, QueueType, FlagType, TurnType,
         Steps
    <3>2. ScriptType'
      BY <2>12, LoopAssumption, Begun DEF TypeInvariant, StreamAborts, emit,
         Sees, ScriptType, PlaceType, ContextType, QueueType, FlagType,
         TurnType
    <3>3. ContextType'
      BY <2>12, LoopAssumption, Contexts, AtHand DEF TypeInvariant,
         StreamAborts, stream, emit, Sees, snaps, ContextType, PlaceType,
         ScriptType, QueueType, FlagType, TurnType
    <3>4. TurnType'
      BY <2>12, LoopAssumption, AtHand DEF TypeInvariant, StreamAborts,
         stream, emit, Sees, turnVars, TurnType, PlaceType, ScriptType,
         ContextType, QueueType, FlagType
    <3> QED BY <2>12, <3>1, <3>2, <3>3, <3>4 DEF TypeInvariant, StreamAborts,
       emit, queues, env, history, QueueType, FlagType
  <2>13. CASE StreamOverflows
    <3>1. PlaceType'
      BY <2>13, LoopAssumption DEF TypeInvariant, StreamOverflows, PlaceType,
         ScriptType, ContextType, QueueType, FlagType, TurnType, Steps
    <3>2. ScriptType'
      BY <2>13, LoopAssumption, Begun DEF TypeInvariant, StreamOverflows,
         ScriptType, PlaceType, ContextType, QueueType, FlagType, TurnType
    <3> QED BY <2>13, <3>1, <3>2 DEF TypeInvariant, StreamOverflows, snaps,
       queues, turnVars, stream, env, history, ContextType, QueueType,
       FlagType, TurnType
  <2>14. CASE attempt_overflow_recovery
    <3>1. PlaceType'
      BY <2>14, LoopAssumption DEF TypeInvariant, attempt_overflow_recovery,
         sync_loop_context_snapshot, any_compacted, Ends, PlaceType,
         ScriptType, ContextType, QueueType, FlagType, TurnType, Steps
    <3>2. ScriptType'
      <4>1. /\ handle_started_turn_cancellation \in Seq(LoopEvents)
            /\ handle_started_turn_cancellation # <<>>
        BY Begun
      <4>2. \/ pc' = "ending" /\ script' = handle_started_turn_cancellation
            \/ pc' # "ending" /\ script' = script
        BY <2>14 DEF attempt_overflow_recovery, Ends
      <4> QED BY <4>1, <4>2 DEF TypeInvariant, ScriptType
    <3>3. ContextType'
      <4>1. PICK new \in run_context_transformers :
              snapCtx' = new /\ ctx' \in {ctx, new, Append(new, Assistant(0))}
        BY <2>14 DEF attempt_overflow_recovery, sync_loop_context_snapshot
      <4>2. ctx \in Context /\ new \in Context
        BY Compacted DEF TypeInvariant, ContextType
      <4>3. Append(new, Assistant(0)) \in Context
        BY <4>2, Contexts, AtHand
      <4>4. pending' = pending /\ snapPending' = snapPending
        BY <2>14 DEF attempt_overflow_recovery
      <4> QED BY <4>1, <4>2, <4>3, <4>4 DEF TypeInvariant, ContextType
    <3>4. FlagType'
      BY <2>14, LoopAssumption DEF TypeInvariant, attempt_overflow_recovery,
         sync_loop_context_snapshot, any_compacted, Ends, env, history,
         FlagType, PlaceType, ScriptType, ContextType, QueueType, TurnType
    <3> QED BY <2>14, <3>1, <3>2, <3>3, <3>4 DEF TypeInvariant,
       attempt_overflow_recovery, stream, Ends, queues, turnVars, env,
       history, QueueType, TurnType
  <2>15. CASE overflow_error
    <3>1. PlaceType'
      BY <2>15, LoopAssumption DEF TypeInvariant, overflow_error,
         emit_unchecked, Sees, PlaceType, ScriptType, ContextType, QueueType,
         FlagType, TurnType, Steps
    <3>2. ScriptType'
      BY <2>15, LoopAssumption, Begun DEF TypeInvariant, overflow_error,
         emit_unchecked, Sees, ScriptType, PlaceType, ContextType, QueueType,
         FlagType, TurnType
    <3>3. ContextType'
      BY <2>15, LoopAssumption, Contexts, AtHand DEF TypeInvariant,
         overflow_error, emit_unchecked, stream, Sees, snaps, ContextType,
         PlaceType, ScriptType, QueueType, FlagType, TurnType
    <3>4. TurnType'
      BY <2>15, LoopAssumption, AtHand DEF TypeInvariant, overflow_error,
         emit_unchecked, stream, Sees, turnVars, TurnType, PlaceType,
         ScriptType, ContextType, QueueType, FlagType
    <3> QED BY <2>15, <3>1, <3>2, <3>3, <3>4 DEF TypeInvariant,
       overflow_error, emit_unchecked, queues, env, history, QueueType,
       FlagType
  <2>16. CASE handle_error_stop
    <3>1. PlaceType'
      <4>1. PICK v : run_post_turn_policy_check(v)
        BY <2>16 DEF handle_error_stop, EndFailed
      <4>2. injects' \in 0..MaxInjects
        BY <4>1, PolicyAdds
      <4> QED BY <2>16, <4>2 DEF TypeInvariant, PlaceType, Steps,
         handle_error_stop, EndFailed, ExitFailed, Ends
    <3>2. ScriptType'
      <4>1. "Error" \in P!FinalReasons
        BY DEF P!FinalReasons
      <4> QED BY <2>16, <4>1, Begun DEF handle_error_stop, EndFailed,
         ExitFailed, Ends, ScriptType
    <3>3. ContextType'
      <4>1. PICK v : run_post_turn_policy_check(v)
        BY <2>16 DEF handle_error_stop, EndFailed
      <4>2. pending' \in Context /\ snapPending' \in Context
        BY <4>1, PolicyAdds
      <4>3. Append(ctx, Assistant(0)) \in Context
        BY Contexts, AtHand DEF TypeInvariant, ContextType
      <4> QED BY <2>16, <4>2, <4>3 DEF TypeInvariant, ContextType,
         handle_error_stop, EndFailed
    <3>4. FlagType'
      BY <2>16, LoopAssumption DEF TypeInvariant, handle_error_stop,
         EndFailed, run_post_turn_policy_check, ExitFailed, Ends, env,
         FlagType, PlaceType, ScriptType, ContextType, QueueType, TurnType
    <3> QED BY <2>16, <3>1, <3>2, <3>3, <3>4 DEF TypeInvariant,
       handle_error_stop, EndFailed, run_post_turn_policy_check, Ends, stream,
       queues, turnVars, env, QueueType, TurnType
  <2>17. CASE handle_stream_abort
    <3>1. PlaceType'
      <4>1. PICK v : run_post_turn_policy_check(v)
        BY <2>17 DEF handle_stream_abort, EndFailed
      <4>2. injects' \in 0..MaxInjects
        BY <4>1, PolicyAdds
      <4> QED BY <2>17, <4>2 DEF TypeInvariant, PlaceType, Steps,
         handle_stream_abort, EndFailed, ExitFailed, Ends
    <3>2. ScriptType'
      <4>1. "Aborted" \in P!FinalReasons
        BY DEF P!FinalReasons
      <4> QED BY <2>17, <4>1, Begun DEF handle_stream_abort, EndFailed,
         ExitFailed, Ends, ScriptType
    <3>3. ContextType'
      <4>1. PICK v : run_post_turn_policy_check(v)
        BY <2>17 DEF handle_stream_abort, EndFailed
      <4>2. pending' \in Context /\ snapPending' \in Context
        BY <4>1, PolicyAdds
      <4>3. Append(ctx, Assistant(0)) \in Context
        BY Contexts, AtHand DEF TypeInvariant, ContextType
      <4> QED BY <2>17, <4>2, <4>3 DEF TypeInvariant, ContextType,
         handle_stream_abort, EndFailed
    <3>4. FlagType'
      BY <2>17, LoopAssumption DEF TypeInvariant, handle_stream_abort,
         EndFailed, run_post_turn_policy_check, ExitFailed, Ends, env,
         FlagType, PlaceType, ScriptType, ContextType, QueueType, TurnType
    <3> QED BY <2>17, <3>1, <3>2, <3>3, <3>4 DEF TypeInvariant,
       handle_stream_abort, EndFailed, run_post_turn_policy_check, Ends,
       stream, queues, turnVars, env, QueueType, TurnType
  <2>18. CASE CommitText
    <3>1. PlaceType'
      <4>1. PICK v : run_post_turn_policy_check(v)
        BY <2>18 DEF CommitText
      <4>2. injects' \in 0..MaxInjects
        BY <4>1, PolicyAdds
      <4> QED BY <2>18, <4>2 DEF TypeInvariant, PlaceType, Steps, CommitText, emit
    <3>2. ScriptType'
      BY <2>18, LoopAssumption, Begun DEF TypeInvariant, CommitText,
         sync_loop_context_snapshot, run_post_turn_policy_check, emit, Sees,
         ScriptType, PlaceType, ContextType, QueueType, FlagType, TurnType
    <3>3. ContextType'
      <4>1. PICK v : run_post_turn_policy_check(v)
        BY <2>18 DEF CommitText
      <4>2. pending' \in Context /\ snapPending' \in Context
        BY <4>1, PolicyAdds
      <4>3. Append(ctx, Assistant(0)) \in Context
        BY Contexts, AtHand DEF TypeInvariant, ContextType
      <4> QED BY <2>18, <4>2, <4>3 DEF ContextType, CommitText,
         sync_loop_context_snapshot
    <3>4. FlagType'
      BY <2>18, LoopAssumption DEF TypeInvariant, CommitText,
         sync_loop_context_snapshot, run_post_turn_policy_check, emit, Sees,
         env, FlagType, PlaceType, ScriptType, ContextType, QueueType,
         TurnType
    <3>5. TurnType'
      <4>1. PICK k \in {"visible", "reasoning", answer.kind} : answer' = [answer EXCEPT !.kind = k]
        BY <2>18 DEF CommitText
      <4>2. answer' = [kind |-> k, calls |-> answer.calls, incomplete |-> answer.incomplete]
        BY <4>1 DEF TypeInvariant, TurnType
      <4>3. /\ answer' \in [kind : {"none", "visible", "reasoning", "calls"},
                            calls : 0..MaxCalls, incomplete : 0..1]
            /\ answer'.incomplete <= answer'.calls
        BY <4>1, <4>2 DEF TypeInvariant, TurnType
      <4>4. results' = results /\ interrupted' = interrupted
        BY <2>18 DEF CommitText
      <4>5. stop' \in BOOLEAN
        BY <2>18 DEF CommitText
      <4> QED BY <4>3, <4>4, <4>5 DEF TypeInvariant, TurnType
    <3> QED BY <2>18, <3>1, <3>2, <3>3, <3>4, <3>5 DEF TypeInvariant,
       CommitText, run_post_turn_policy_check, emit, queues, env, QueueType
  <2>19. CASE AfterText
    <3>1. PlaceType'
      BY <2>19, LoopAssumption DEF TypeInvariant, AfterText, StopHonoured,
         Ends, BreakInner, PlaceType, ScriptType, ContextType, QueueType,
         FlagType, TurnType, Steps
    <3>2. ScriptType'
      <4>1. <<Event("AgentEnd")>> \in Seq(LoopEvents) /\ <<Event("AgentEnd")>> # <<>>
        BY Begun
      <4>2. \/ pc' = "ending" /\ script' = <<Event("AgentEnd")>>
            \/ pc' # "ending" /\ script' = script
        BY <2>19 DEF AfterText, Ends
      <4> QED BY <4>1, <4>2 DEF TypeInvariant, ScriptType
    <3>3. ContextType'
      <4> DEFINE polled == UserMessages(Drained(steering, SteeringMode))
                 nudge == IF answer.kind = "reasoning" /\ Nudge /\ ~nudged THEN <<User("nudge")>>
                          ELSE <<>>
      <4>1. pending \in Context /\ polled \in Context /\ nudge \in Context
        BY Contexts, AtHand DEF TypeInvariant, ContextType
      <4>2. (pending \o nudge) \o polled \in Context
        BY <4>1, Contexts
      <4>3. \/ pending' = pending /\ snapPending' = snapPending
            \/ pending' = (pending \o nudge) \o polled /\ snapPending' = pending'
        BY <2>19 DEF AfterText
      <4>4. ctx' = ctx /\ snapCtx' = snapCtx
        BY <2>19 DEF AfterText
      <4> QED BY <4>2, <4>3, <4>4 DEF TypeInvariant, ContextType
    <3>4. QueueType'
      BY <2>19, LoopAssumption, AtHand DEF TypeInvariant, AfterText,
         StopHonoured, Ends, BreakInner, env, history, QueueType, Senders,
         PlaceType, ScriptType, ContextType, FlagType, TurnType
    <3>5. FlagType'
      BY <2>19, LoopAssumption DEF TypeInvariant, AfterText, StopHonoured,
         Ends, BreakInner, env, history, FlagType, PlaceType, ScriptType,
         ContextType, QueueType, TurnType
    <3> QED BY <2>19, <3>1, <3>2, <3>3, <3>4, <3>5 DEF TypeInvariant,
       AfterText, Ends, stream, turnVars, TurnType
  <2>20. CASE CommitCalls
    <3>1. PlaceType'
      BY <2>20, LoopAssumption DEF TypeInvariant, CommitCalls, PlaceType,
         ScriptType, ContextType, QueueType, FlagType, TurnType, Steps
    <3>2. ScriptType'
      BY <2>20, LoopAssumption, Begun DEF TypeInvariant, CommitCalls,
         ScriptType, PlaceType, ContextType, QueueType, FlagType, TurnType
    <3>3. ContextType'
      <4>1. Append(ctx, Assistant(answer.calls)) \in Context
        BY Contexts, AtHand DEF TypeInvariant, ContextType
      <4>2. Append(ctx, Assistant(answer.calls)) \o ResultsOf(Whole + 1, answer.incomplete) \in Context
        BY <4>1, Contexts, AtHand
      <4> QED BY <2>20, <4>2 DEF TypeInvariant, ContextType, CommitCalls, snaps
    <3>4. TurnType'
      BY <2>20, LoopAssumption, AtHand DEF TypeInvariant, CommitCalls, stream,
         TurnType, PlaceType, ScriptType, ContextType, QueueType, FlagType
    <3> QED BY <2>20, <3>1, <3>2, <3>3, <3>4 DEF TypeInvariant, CommitCalls,
       queues, env, history, QueueType, FlagType
  <2>21. CASE ToolsComplete
    <3>1. PlaceType'
      <4>1. PICK next \in {"commit", "transfer", "cancelled"} : BatchEnds(<<>>, next)
        BY <2>21 DEF ToolsComplete
      <4>2. <<>> \in Context
        BY Contexts, AtHand
      <4>3. injects' \in 0..MaxInjects
        BY <4>1, <4>2, BatchAdds
      <4> QED BY <4>1, <4>3 DEF TypeInvariant, PlaceType, Steps, BatchEnds
    <3>2. ScriptType'
      <4>1. PICK next \in {"commit", "transfer", "cancelled"} : BatchEnds(<<>>, next)
        BY <2>21 DEF ToolsComplete
      <4> QED BY <4>1 DEF TypeInvariant, ScriptType, BatchEnds
    <3>3. ContextType'
      <4>1. PICK next \in {"commit", "transfer", "cancelled"} : BatchEnds(<<>>, next)
        BY <2>21 DEF ToolsComplete
      <4>2. <<>> \in Context
        BY Contexts, AtHand
      <4>3. pending' \in Context /\ snapPending' = pending'
        BY <4>1, <4>2, BatchAdds
      <4> QED BY <4>1, <4>3 DEF TypeInvariant, ContextType, BatchEnds
    <3>4. TurnType'
      <4>1. PICK next \in {"commit", "transfer", "cancelled"} : BatchEnds(<<>>, next)
        BY <2>21 DEF ToolsComplete
      <4>2. <<>> \in Context
        BY Contexts, AtHand
      <4>3. results' \in Seq(ResultMessages)
        BY <4>1, <4>2, BatchAdds
      <4>4. answer' = answer
        BY <4>1 DEF BatchEnds
      <4>5. stop' \in BOOLEAN /\ interrupted' \in BOOLEAN
        BY <2>21 DEF TypeInvariant, TurnType, ToolsComplete
      <4> QED BY <4>3, <4>4, <4>5 DEF TypeInvariant, TurnType
    <3> QED BY <2>21, <3>1, <3>2, <3>3, <3>4 DEF TypeInvariant, ToolsComplete,
       BatchEnds, env, QueueType, FlagType
  <2>22. CASE ToolsStopped
    <3>1. PlaceType'
      <4>1. PICK next \in {"commit", "transfer", "cancelled"} : BatchEnds(<<>>, next)
        BY <2>22 DEF ToolsStopped
      <4>2. <<>> \in Context
        BY Contexts, AtHand
      <4>3. injects' \in 0..MaxInjects
        BY <4>1, <4>2, BatchAdds
      <4> QED BY <4>1, <4>3 DEF TypeInvariant, PlaceType, Steps, BatchEnds
    <3>2. ScriptType'
      <4>1. PICK next \in {"commit", "transfer", "cancelled"} : BatchEnds(<<>>, next)
        BY <2>22 DEF ToolsStopped
      <4> QED BY <4>1 DEF TypeInvariant, ScriptType, BatchEnds
    <3>3. ContextType'
      <4>1. PICK next \in {"commit", "transfer", "cancelled"} : BatchEnds(<<>>, next)
        BY <2>22 DEF ToolsStopped
      <4>2. <<>> \in Context
        BY Contexts, AtHand
      <4>3. pending' \in Context /\ snapPending' = pending'
        BY <4>1, <4>2, BatchAdds
      <4> QED BY <4>1, <4>3 DEF TypeInvariant, ContextType, BatchEnds
    <3>4. FlagType'
      BY <2>22, LoopAssumption DEF TypeInvariant, ToolsStopped, BatchEnds,
         BatchResults, env, FlagType, PlaceType, ScriptType, ContextType,
         QueueType, TurnType
    <3>5. TurnType'
      <4>1. PICK next \in {"commit", "transfer", "cancelled"} : BatchEnds(<<>>, next)
        BY <2>22 DEF ToolsStopped
      <4>2. <<>> \in Context
        BY Contexts, AtHand
      <4>3. results' \in Seq(ResultMessages)
        BY <4>1, <4>2, BatchAdds
      <4>4. answer' = answer
        BY <4>1 DEF BatchEnds
      <4>5. stop' \in BOOLEAN /\ interrupted' \in BOOLEAN
        BY <2>22 DEF TypeInvariant, TurnType, ToolsStopped
      <4> QED BY <4>3, <4>4, <4>5 DEF TypeInvariant, TurnType
    <3> QED BY <2>22, <3>1, <3>2, <3>3, <3>4, <3>5 DEF TypeInvariant,
       ToolsStopped, BatchEnds, env, QueueType
  <2>23. CASE ToolsInterrupted
    <3>1. PlaceType'
      <4>1. PICK next \in {"commit", "transfer", "cancelled"} : BatchEnds(UserMessages(Drained(steering, SteeringMode)), next)
        BY <2>23 DEF ToolsInterrupted
      <4>2. UserMessages(Drained(steering, SteeringMode)) \in Context
        BY Contexts, AtHand
      <4>3. injects' \in 0..MaxInjects
        BY <4>1, <4>2, BatchAdds
      <4> QED BY <4>1, <4>3 DEF TypeInvariant, PlaceType, Steps, BatchEnds
    <3>2. ScriptType'
      <4>1. PICK next \in {"commit", "transfer", "cancelled"} : BatchEnds(UserMessages(Drained(steering, SteeringMode)), next)
        BY <2>23 DEF ToolsInterrupted
      <4> QED BY <4>1 DEF TypeInvariant, ScriptType, BatchEnds
    <3>3. ContextType'
      <4>1. PICK next \in {"commit", "transfer", "cancelled"} : BatchEnds(UserMessages(Drained(steering, SteeringMode)), next)
        BY <2>23 DEF ToolsInterrupted
      <4>2. UserMessages(Drained(steering, SteeringMode)) \in Context
        BY Contexts, AtHand
      <4>3. pending' \in Context /\ snapPending' = pending'
        BY <4>1, <4>2, BatchAdds
      <4> QED BY <4>1, <4>3 DEF TypeInvariant, ContextType, BatchEnds
    <3>4. QueueType'
      BY <2>23, LoopAssumption, AtHand DEF TypeInvariant, ToolsInterrupted,
         BatchEnds, BatchResults, env, QueueType, Senders, PlaceType,
         ScriptType, ContextType, FlagType, TurnType
    <3>5. TurnType'
      <4>1. PICK next \in {"commit", "transfer", "cancelled"} : BatchEnds(UserMessages(Drained(steering, SteeringMode)), next)
        BY <2>23 DEF ToolsInterrupted
      <4>2. UserMessages(Drained(steering, SteeringMode)) \in Context
        BY Contexts, AtHand
      <4>3. results' \in Seq(ResultMessages)
        BY <4>1, <4>2, BatchAdds
      <4>4. answer' = answer
        BY <4>1 DEF BatchEnds
      <4>5. stop' \in BOOLEAN /\ interrupted' \in BOOLEAN
        BY <2>23 DEF TypeInvariant, TurnType, ToolsInterrupted
      <4> QED BY <4>3, <4>4, <4>5 DEF TypeInvariant, TurnType
    <3> QED BY <2>23, <3>1, <3>2, <3>3, <3>4, <3>5 DEF TypeInvariant,
       ToolsInterrupted, BatchEnds, env, FlagType
  <2>24. CASE ToolsAborted
    <3>1. PlaceType'
      <4>1. PICK next \in {"commit", "transfer", "cancelled"} : BatchEnds(<<>>, next)
        BY <2>24 DEF ToolsAborted
      <4>2. <<>> \in Context
        BY Contexts, AtHand
      <4>3. injects' \in 0..MaxInjects
        BY <4>1, <4>2, BatchAdds
      <4> QED BY <4>1, <4>3 DEF TypeInvariant, PlaceType, Steps, BatchEnds
    <3>2. ScriptType'
      <4>1. PICK next \in {"commit", "transfer", "cancelled"} : BatchEnds(<<>>, next)
        BY <2>24 DEF ToolsAborted
      <4> QED BY <4>1 DEF TypeInvariant, ScriptType, BatchEnds
    <3>3. ContextType'
      <4>1. PICK next \in {"commit", "transfer", "cancelled"} : BatchEnds(<<>>, next)
        BY <2>24 DEF ToolsAborted
      <4>2. <<>> \in Context
        BY Contexts, AtHand
      <4>3. pending' \in Context /\ snapPending' = pending'
        BY <4>1, <4>2, BatchAdds
      <4> QED BY <4>1, <4>3 DEF TypeInvariant, ContextType, BatchEnds
    <3>4. TurnType'
      <4>1. PICK next \in {"commit", "transfer", "cancelled"} : BatchEnds(<<>>, next)
        BY <2>24 DEF ToolsAborted
      <4>2. <<>> \in Context
        BY Contexts, AtHand
      <4>3. results' \in Seq(ResultMessages)
        BY <4>1, <4>2, BatchAdds
      <4>4. answer' = answer
        BY <4>1 DEF BatchEnds
      <4>5. stop' \in BOOLEAN /\ interrupted' \in BOOLEAN
        BY <2>24 DEF TypeInvariant, TurnType, ToolsAborted
      <4> QED BY <4>3, <4>4, <4>5 DEF TypeInvariant, TurnType
    <3> QED BY <2>24, <3>1, <3>2, <3>3, <3>4 DEF TypeInvariant, ToolsAborted,
       BatchEnds, env, QueueType, FlagType
  <2>25. CASE ToolsUndelivered
    <3>1. PlaceType'
      BY <2>25, LoopAssumption DEF TypeInvariant, ToolsUndelivered, PlaceType,
         ScriptType, ContextType, QueueType, FlagType, TurnType, Steps
    <3>2. ScriptType'
      BY <2>25, LoopAssumption, Begun DEF TypeInvariant, ToolsUndelivered,
         ScriptType, PlaceType, ContextType, QueueType, FlagType, TurnType
    <3> QED BY <2>25, <3>1, <3>2 DEF TypeInvariant, ToolsUndelivered, snaps,
       queues, turnVars, stream, env, history, ContextType, QueueType,
       FlagType, TurnType
  <2>26. CASE CommitCancelled
    <3>1. PlaceType'
      <4>1. PICK v : run_post_turn_policy_check(v)
        BY <2>26 DEF CommitCancelled
      <4>2. injects' \in 0..MaxInjects
        BY <4>1, PolicyAdds
      <4> QED BY <2>26, <4>2 DEF TypeInvariant, PlaceType, Steps,
         CommitCancelled, Ends, emit
    <3>2. ScriptType'
      <4>1. "Cancelled" \in P!FinalReasons
        BY DEF P!FinalReasons
      <4> QED BY <2>26, <4>1, Begun DEF CommitCancelled, Ends, ScriptType
    <3>3. ContextType'
      <4>1. PICK v : run_post_turn_policy_check(v)
        BY <2>26 DEF CommitCancelled
      <4>2. pending' \in Context /\ snapPending' \in Context
        BY <4>1, PolicyAdds
      <4>3. ctx \o results \in Context
        BY Contexts, AtHand DEF TypeInvariant, ContextType
      <4> QED BY <2>26, <4>2, <4>3 DEF TypeInvariant, ContextType,
         CommitCancelled, sync_loop_context_snapshot
    <3>4. FlagType'
      BY <2>26, LoopAssumption DEF TypeInvariant, CommitCancelled,
         run_post_turn_policy_check, Ends, env, FlagType, PlaceType,
         ScriptType, ContextType, QueueType, TurnType
    <3> QED BY <2>26, <3>1, <3>2, <3>3, <3>4 DEF TypeInvariant,
       CommitCancelled, run_post_turn_policy_check, Ends, stream, queues,
       turnVars, env, QueueType, TurnType
  <2>27. CASE CommitResults
    <3>1. PlaceType'
      <4>1. PICK v : run_post_turn_policy_check(v)
        BY <2>27 DEF CommitResults
      <4>2. injects' \in 0..MaxInjects
        BY <4>1, PolicyAdds
      <4> QED BY <2>27, <4>2 DEF TypeInvariant, PlaceType, Steps, CommitResults,
         Ends, emit
    <3>2. ScriptType'
      <4>1. "Transfer" \in P!FinalReasons
        BY DEF P!FinalReasons
      <4>2. \/ pc' = "ending" /\ script' = <<End("Transfer"), Event("AgentEnd")>>
            \/ pc' # "ending" /\ script' = script
        BY <2>27 DEF CommitResults, Ends, emit
      <4> QED BY <4>1, <4>2, Begun DEF TypeInvariant, ScriptType
    <3>3. ContextType'
      <4>1. PICK v : run_post_turn_policy_check(v)
        BY <2>27 DEF CommitResults
      <4>2. pending' \in Context /\ snapPending' \in Context
        BY <4>1, PolicyAdds
      <4>3. ctx \o results \in Context
        BY Contexts, AtHand DEF TypeInvariant, ContextType
      <4> QED BY <2>27, <4>2, <4>3 DEF TypeInvariant, ContextType,
         CommitResults, sync_loop_context_snapshot
    <3>4. FlagType'
      BY <2>27, LoopAssumption DEF TypeInvariant, CommitResults,
         sync_loop_context_snapshot, run_post_turn_policy_check, Ends, emit,
         Sees, env, FlagType, PlaceType, ScriptType, ContextType, QueueType,
         TurnType
    <3>5. TurnType'
      BY <2>27, LoopAssumption, AtHand DEF TypeInvariant, CommitResults,
         sync_loop_context_snapshot, run_post_turn_policy_check, Ends, stream,
         emit, Sees, TurnType, PlaceType, ScriptType, ContextType, QueueType,
         FlagType
    <3> QED BY <2>27, <3>1, <3>2, <3>3, <3>4, <3>5 DEF TypeInvariant,
       CommitResults, run_post_turn_policy_check, Ends, emit, queues, env,
       QueueType
  <2>28. CASE AfterTools
    <3>1. PlaceType'
      BY <2>28, LoopAssumption DEF TypeInvariant, AfterTools, StopHonoured,
         Ends, PlaceType, ScriptType, ContextType, QueueType, FlagType,
         TurnType, Steps
    <3>2. ScriptType'
      <4>1. <<Event("AgentEnd")>> \in Seq(LoopEvents) /\ <<Event("AgentEnd")>> # <<>>
        BY Begun
      <4>2. \/ pc' = "ending" /\ script' = <<Event("AgentEnd")>>
            \/ pc' # "ending" /\ script' = script
        BY <2>28 DEF AfterTools, Ends
      <4> QED BY <4>1, <4>2 DEF TypeInvariant, ScriptType
    <3>3. ContextType'
      <4>1. pending \in Context /\ UserMessages(Drained(steering, SteeringMode)) \in Context
        BY AtHand DEF TypeInvariant, ContextType
      <4>2. UserMessages(<<>>) \in Context
        <5>1. <<>> \in Seq(Messages)
          OBVIOUS
        <5> QED BY <5>1, Polled
      <4>3. /\ pending \o UserMessages(Drained(steering, SteeringMode)) \in Context
            /\ pending \o UserMessages(<<>>) \in Context
        BY <4>1, <4>2, Contexts
      <4>4. \/ pending' = pending /\ snapPending' = snapPending
            \/ /\ \/ pending' = pending \o UserMessages(Drained(steering, SteeringMode))
                  \/ pending' = pending \o UserMessages(<<>>)
               /\ snapPending' = pending'
        BY <2>28 DEF AfterTools
      <4>5. ctx' = ctx /\ snapCtx' = snapCtx
        BY <2>28 DEF AfterTools
      <4> QED BY <4>3, <4>4, <4>5 DEF TypeInvariant, ContextType
    <3>4. QueueType'
      BY <2>28, LoopAssumption, AtHand DEF TypeInvariant, AfterTools,
         StopHonoured, Ends, env, history, QueueType, Senders, PlaceType,
         ScriptType, ContextType, FlagType, TurnType
    <3> QED BY <2>28, <3>1, <3>2, <3>3, <3>4 DEF TypeInvariant, AfterTools,
       Ends, stream, turnVars, env, history, FlagType, TurnType
  <2>29. CASE PostLoopContinue
    <3>1. PlaceType'
      BY <2>29, LoopAssumption DEF TypeInvariant, PostLoopContinue, PlaceType,
         ScriptType, ContextType, QueueType, FlagType, TurnType, Steps
    <3>2. ScriptType'
      BY <2>29, LoopAssumption, Begun DEF TypeInvariant, PostLoopContinue,
         ScriptType, PlaceType, ContextType, QueueType, FlagType, TurnType
    <3> QED BY <2>29, <3>1, <3>2 DEF TypeInvariant, PostLoopContinue, snaps,
       queues, turnVars, stream, env, history, ContextType, QueueType,
       FlagType, TurnType
  <2>30. CASE PostLoopStop
    <3>1. PlaceType'
      BY <2>30, LoopAssumption DEF TypeInvariant, PostLoopStop, Ends,
         PlaceType, ScriptType, ContextType, QueueType, FlagType, TurnType,
         Steps
    <3>2. ScriptType'
      BY <2>30, LoopAssumption, Begun DEF TypeInvariant, PostLoopStop, Ends,
         ScriptType, PlaceType, ContextType, QueueType, FlagType, TurnType
    <3>3. FlagType'
      BY <2>30, LoopAssumption DEF TypeInvariant, PostLoopStop, Ends, env,
         FlagType, PlaceType, ScriptType, ContextType, QueueType, TurnType
    <3> QED BY <2>30, <3>1, <3>2, <3>3 DEF TypeInvariant, PostLoopStop, Ends,
       stream, snaps, queues, turnVars, env, ContextType, QueueType, TurnType
  <2>31. CASE PostLoopInject
    <3>1. PlaceType'
      BY <2>31, LoopAssumption DEF TypeInvariant, PostLoopInject, PlaceType,
         ScriptType, ContextType, QueueType, FlagType, TurnType, Steps
    <3>2. ScriptType'
      BY <2>31, LoopAssumption, Begun DEF TypeInvariant, PostLoopInject,
         ScriptType, PlaceType, ContextType, QueueType, FlagType, TurnType
    <3>3. ContextType'
      BY <2>31, LoopAssumption, Contexts, AtHand DEF TypeInvariant,
         PostLoopInject, stream, ContextType, PlaceType, ScriptType,
         QueueType, FlagType, TurnType
    <3> QED BY <2>31, <3>1, <3>2, <3>3 DEF TypeInvariant, PostLoopInject,
       queues, turnVars, stream, env, history, QueueType, FlagType, TurnType
  <2>32. CASE PollFollowUp
    <3>1. PlaceType'
      BY <2>32, LoopAssumption DEF TypeInvariant, PollFollowUp, Ends,
         PlaceType, ScriptType, ContextType, QueueType, FlagType, TurnType,
         Steps
    <3>2. ScriptType'
      <4>1. <<Event("AgentEnd")>> \in Seq(LoopEvents) /\ <<Event("AgentEnd")>> # <<>>
        BY Begun
      <4>2. \/ pc' = "ending" /\ script' = <<Event("AgentEnd")>>
            \/ pc' # "ending" /\ script' = script
        BY <2>32 DEF PollFollowUp, Ends
      <4> QED BY <4>1, <4>2 DEF TypeInvariant, ScriptType
    <3>3. ContextType'
      <4>1. pending \in Context /\ UserMessages(Drained(followUp, FollowUpMode)) \in Context
        BY AtHand DEF TypeInvariant, ContextType
      <4>2. pending \o UserMessages(Drained(followUp, FollowUpMode)) \in Context
        BY <4>1, Contexts
      <4> QED BY <2>32, <4>2 DEF TypeInvariant, ContextType, PollFollowUp
    <3>4. QueueType'
      BY <2>32, LoopAssumption, AtHand DEF TypeInvariant, PollFollowUp, Ends,
         env, history, QueueType, Senders, PlaceType, ScriptType, ContextType,
         FlagType, TurnType
    <3> QED BY <2>32, <3>1, <3>2, <3>3, <3>4 DEF TypeInvariant, PollFollowUp,
       Ends, stream, turnVars, env, history, FlagType, TurnType
  <2>33. CASE Ending
    <3>1. PlaceType'
      BY <2>33, LoopAssumption DEF TypeInvariant, Ending, emit, Sees,
         PlaceType, ScriptType, ContextType, QueueType, FlagType, TurnType,
         Steps
    <3>2. ScriptType'
      <4>1. script \in Seq(LoopEvents) /\ script # <<>>
        BY <2>33 DEF TypeInvariant, ScriptType, Ending
      <4>2. Tail(script) \in Seq(LoopEvents) /\ Len(Tail(script)) = Len(script) - 1
        BY <4>1
      <4>3. Len(script) # 1 => Tail(script) # <<>>
        <5>1. Len(<<>>) = 0
          OBVIOUS
        <5>2. Len(script) # 1 => Len(Tail(script)) # 0
          BY <4>1, <4>2
        <5> QED BY <5>1, <5>2
      <4>4. script' = Tail(script) /\ (pc' = "ending" => Len(script) # 1)
        BY <2>33 DEF Ending, emit, LastEvent
      <4> QED BY <4>2, <4>3, <4>4 DEF ScriptType
    <3>3. ContextType'
      BY <2>33, LoopAssumption, Contexts, AtHand DEF TypeInvariant, Ending,
         emit, stream, Sees, snaps, ContextType, PlaceType, ScriptType,
         QueueType, FlagType, TurnType
    <3>4. TurnType'
      BY <2>33, LoopAssumption, AtHand DEF TypeInvariant, Ending, emit,
         stream, Sees, turnVars, TurnType, PlaceType, ScriptType, ContextType,
         QueueType, FlagType
    <3> QED BY <2>33, <3>1, <3>2, <3>3, <3>4 DEF TypeInvariant, Ending, emit,
       queues, env, history, QueueType, FlagType
  <2>34. CASE Queue
    <3>1. QueueType'
      <4>1. PICK m \in Messages \ queued :
              /\ queued' = queued \cup {m}
              /\ \/ steering' = Append(steering, m) /\ followUp' = followUp
                 \/ followUp' = Append(followUp, m) /\ steering' = steering
        BY <2>34 DEF Queue
      <4>2. Append(steering, m) \in Seq(Messages) /\ Append(followUp, m) \in Seq(Messages)
        BY <4>1 DEF TypeInvariant, QueueType
      <4>3. given' = given
        BY <2>34 DEF Queue, history
      <4> QED BY <4>1, <4>2, <4>3 DEF TypeInvariant, QueueType
    <3> QED BY <2>34, <3>1 DEF TypeInvariant, Queue, snaps, turnVars, stream,
       history, PlaceType, ScriptType, ContextType, FlagType, TurnType
  <2>35. CASE Cancel
    <3>1. FlagType'
      BY <2>35, LoopAssumption DEF TypeInvariant, Cancel, history, FlagType,
         PlaceType, ScriptType, ContextType, QueueType, TurnType
    <3> QED BY <2>35, <3>1 DEF TypeInvariant, Cancel, snaps, queues, turnVars,
       stream, history, PlaceType, ScriptType, ContextType, QueueType,
       TurnType
  <2>36. CASE DropStream
    <3>1. FlagType'
      BY <2>36, LoopAssumption DEF TypeInvariant, DropStream, history,
         FlagType, PlaceType, ScriptType, ContextType, QueueType, TurnType
    <3> QED BY <2>36, <3>1 DEF TypeInvariant, DropStream, snaps, queues,
       turnVars, stream, history, PlaceType, ScriptType, ContextType,
       QueueType, TurnType
  <2>37. CASE Done
    <3> QED BY <2>37 DEF TypeInvariant, Done, vars, snaps, queues, turnVars,
       stream, env, history, PlaceType, ScriptType, ContextType, QueueType,
       FlagType, TurnType
  <2>38. CASE UNCHANGED vars
    BY <2>38 DEF vars, snaps, queues, turnVars, stream, env, history,
       TypeInvariant, PlaceType, ScriptType, ContextType, QueueType, FlagType,
       TurnType
  <2> QED BY <2>1, <2>2, <2>3, <2>4, <2>5, <2>6, <2>7, <2>8, <2>9, <2>10,
     <2>11, <2>12, <2>13, <2>14, <2>15, <2>16, <2>17, <2>18, <2>19, <2>20,
     <2>21, <2>22, <2>23, <2>24, <2>25, <2>26, <2>27, <2>28, <2>29, <2>30,
     <2>31, <2>32, <2>33, <2>34, <2>35, <2>36, <2>37, <2>38 DEF Next, Loop,
     Turn, Model, Text, Tools, Outer, Env
<1> QED BY <1>1, <1>2, PTL DEF Spec

(* The events come in order.                                               *)
LEMMA OrderedInit == Init => Ordered
BY DEF Init, Ordered, StreamFits, FirstAttempt, EndingFits, BetweenTurns, InTurn,
   Answered

LEMMA OrderedStep == TypeInvariant /\ Ordered /\ [Next]_vars => Ordered'
<1> SUFFICES ASSUME TypeInvariant, Ordered, [Next]_vars PROVE Ordered'
  OBVIOUS
<1>1. CASE Start
  <2>1. StreamFits'
    BY <1>1, SeenEvents DEF Ordered, Start, emit, stream, env, StreamFits,
       BetweenTurns, InTurn, Answered, TypeInvariant, FlagType, P!FinalReasons
  <2>2. FirstAttempt'
    BY <1>1, SeenEvents DEF Ordered, Start, emit, FirstAttempt, TypeInvariant,
       FlagType
  <2>3. EndingFits'
    BY <1>1, SeenEvents, Scripts DEF Ordered, Start, emit, stream, env,
       EndingFits, TypeInvariant, FlagType, StreamFits, FirstAttempt,
       P!FinalReasons, BetweenTurns, InTurn, Answered
  <2> QED BY <1>1, <2>1, <2>2, <2>3 DEF Ordered
<1>2. CASE InjectPending
  <2>1. StreamFits'
    BY <1>2, SeenEvents DEF Ordered, InjectPending, NoAnswer,
       sync_loop_context_snapshot, Ends, stream, env, StreamFits,
       BetweenTurns, InTurn, Answered, TypeInvariant, FlagType, P!FinalReasons
  <2>2. FirstAttempt'
    BY <1>2, SeenEvents DEF Ordered, InjectPending, NoAnswer,
       sync_loop_context_snapshot, Ends, FirstAttempt, TypeInvariant, FlagType
  <2>3. EndingFits'
    <3>1. CASE cancelled
      <4>1. pc' = "ending" /\ script' = handle_cancellation
        BY <1>2, <3>1 DEF InjectPending, Ends
      <4>2. UNCHANGED <<closed, run, turn, msg, last>> /\ pc = "turn"
        BY <1>2, <3>1 DEF InjectPending, Ends, stream, env
      <4>3. ~closed => run = "running" /\ turn # "open" /\ last \notin P!FinalReasons
        BY <4>2 DEF Ordered, StreamFits, BetweenTurns
      <4>4. Closes(script') /\ Len(script') = 5
        BY <4>1, Scripts
      <4> QED BY <4>2, <4>3, <4>4 DEF EndingFits
    <3>2. CASE ~cancelled
      BY <1>2, <3>2 DEF InjectPending, EndingFits
    <3> QED BY <3>1, <3>2
  <2> QED BY <1>2, <2>1, <2>2, <2>3 DEF Ordered
<1>3. CASE Transform
  <2>1. StreamFits'
    BY <1>3, SeenEvents DEF Ordered, Transform, sync_loop_context_snapshot,
       stream, env, StreamFits, BetweenTurns, InTurn, Answered, TypeInvariant,
       FlagType, P!FinalReasons
  <2>2. FirstAttempt'
    BY <1>3, SeenEvents DEF Ordered, Transform, sync_loop_context_snapshot,
       FirstAttempt, TypeInvariant, FlagType
  <2>3. EndingFits'
    BY <1>3, SeenEvents, Scripts DEF Ordered, Transform,
       sync_loop_context_snapshot, stream, env, EndingFits, TypeInvariant,
       FlagType, StreamFits, FirstAttempt, P!FinalReasons, BetweenTurns,
       InTurn, Answered
  <2> QED BY <1>3, <2>1, <2>2, <2>3 DEF Ordered
<1>4. CASE PreTurnContinue
  <2>1. StreamFits'
    BY <1>4, SeenEvents DEF Ordered, PreTurnContinue, stream, env, StreamFits,
       BetweenTurns, InTurn, Answered, TypeInvariant, FlagType, P!FinalReasons
  <2>2. FirstAttempt'
    BY <1>4, SeenEvents DEF Ordered, PreTurnContinue, FirstAttempt,
       TypeInvariant, FlagType
  <2>3. EndingFits'
    BY <1>4, SeenEvents, Scripts DEF Ordered, PreTurnContinue, stream, env,
       EndingFits, TypeInvariant, FlagType, StreamFits, FirstAttempt,
       P!FinalReasons, BetweenTurns, InTurn, Answered
  <2> QED BY <1>4, <2>1, <2>2, <2>3 DEF Ordered
<1>5. CASE PreTurnStop
  <2>1. StreamFits'
    BY <1>5, SeenEvents DEF Ordered, PreTurnStop, Ends, stream, env,
       StreamFits, BetweenTurns, InTurn, Answered, TypeInvariant, FlagType,
       P!FinalReasons
  <2>2. FirstAttempt'
    BY <1>5, SeenEvents DEF Ordered, PreTurnStop, Ends, FirstAttempt,
       TypeInvariant, FlagType
  <2>3. EndingFits'
    BY <1>5, SeenEvents, Scripts DEF Ordered, PreTurnStop, Ends, stream, env,
       EndingFits, TypeInvariant, FlagType, StreamFits, FirstAttempt,
       P!FinalReasons, BetweenTurns, InTurn, Answered
  <2> QED BY <1>5, <2>1, <2>2, <2>3 DEF Ordered
<1>6. CASE PreTurnInject
  <2>1. StreamFits'
    BY <1>6, SeenEvents DEF Ordered, PreTurnInject,
       sync_loop_context_snapshot, stream, env, StreamFits, BetweenTurns,
       InTurn, Answered, TypeInvariant, FlagType, P!FinalReasons
  <2>2. FirstAttempt'
    BY <1>6, SeenEvents DEF Ordered, PreTurnInject,
       sync_loop_context_snapshot, FirstAttempt, TypeInvariant, FlagType
  <2>3. EndingFits'
    BY <1>6, SeenEvents, Scripts DEF Ordered, PreTurnInject,
       sync_loop_context_snapshot, stream, env, EndingFits, TypeInvariant,
       FlagType, StreamFits, FirstAttempt, P!FinalReasons, BetweenTurns,
       InTurn, Answered
  <2> QED BY <1>6, <2>1, <2>2, <2>3 DEF Ordered
<1>7. CASE TurnStart
  <2>1. StreamFits'
    BY <1>7, SeenEvents DEF Ordered, TurnStart, emit, stream, env, StreamFits,
       BetweenTurns, InTurn, Answered, TypeInvariant, FlagType, P!FinalReasons
  <2>2. FirstAttempt'
    BY <1>7, SeenEvents DEF Ordered, TurnStart, emit, FirstAttempt,
       TypeInvariant, FlagType
  <2>3. EndingFits'
    BY <1>7, SeenEvents, Scripts DEF Ordered, TurnStart, emit, stream, env,
       EndingFits, TypeInvariant, FlagType, StreamFits, FirstAttempt,
       P!FinalReasons, BetweenTurns, InTurn, Answered
  <2> QED BY <1>7, <2>1, <2>2, <2>3 DEF Ordered
<1>8. CASE BeforeLlmCall
  <2>1. StreamFits'
    <3>1. pc = "request" /\ ~recovered /\ UNCHANGED <<closed, recovered, run, turn, msg, last>>
      BY <1>8 DEF BeforeLlmCall, Ordered, FirstAttempt, stream, env
    <3>2. pc' = IF closed THEN "returned" ELSE "call"
      BY <1>8 DEF BeforeLlmCall, CallStep
    <3> QED BY <3>1, <3>2 DEF Ordered, StreamFits, BetweenTurns, InTurn, Answered
  <2>2. FirstAttempt'
    BY <1>8, SeenEvents DEF Ordered, BeforeLlmCall, CallStep, FirstAttempt,
       TypeInvariant, FlagType
  <2>3. EndingFits'
    BY <1>8, SeenEvents, Scripts DEF Ordered, BeforeLlmCall, CallStep, stream,
       env, EndingFits, TypeInvariant, FlagType, StreamFits, FirstAttempt,
       P!FinalReasons, BetweenTurns, InTurn, Answered
  <2> QED BY <1>8, <2>1, <2>2, <2>3 DEF Ordered
<1>9. CASE CallModel
  <2>1. StreamFits'
    BY <1>9, SeenEvents DEF Ordered, CallModel, stream, emit, env, StreamFits,
       BetweenTurns, InTurn, Answered, TypeInvariant, FlagType, P!FinalReasons
  <2>2. FirstAttempt'
    BY <1>9, SeenEvents DEF Ordered, CallModel, emit, FirstAttempt,
       TypeInvariant, FlagType
  <2>3. EndingFits'
    BY <1>9, SeenEvents, Scripts DEF Ordered, CallModel, stream, emit, env,
       EndingFits, TypeInvariant, FlagType, StreamFits, FirstAttempt,
       P!FinalReasons, BetweenTurns, InTurn, Answered
  <2> QED BY <1>9, <2>1, <2>2, <2>3 DEF Ordered
<1>10. ASSUME NEW a \in Answers, StreamAnswers(a) PROVE Ordered'
  <2>1. StreamFits'
    BY <1>10, SeenEvents DEF Ordered, StreamAnswers, emit, stream, env,
       StreamFits, BetweenTurns, InTurn, Answered, TypeInvariant, FlagType,
       P!FinalReasons
  <2>2. FirstAttempt'
    BY <1>10, SeenEvents DEF Ordered, StreamAnswers, emit, FirstAttempt,
       TypeInvariant, FlagType
  <2>3. EndingFits'
    BY <1>10, SeenEvents, Scripts DEF Ordered, StreamAnswers, emit, stream,
       env, EndingFits, TypeInvariant, FlagType, StreamFits, FirstAttempt,
       P!FinalReasons, BetweenTurns, InTurn, Answered
  <2> QED BY <1>10, <2>1, <2>2, <2>3 DEF Ordered
<1>11. CASE StreamFails
  <2>1. StreamFits'
    BY <1>11, SeenEvents DEF Ordered, StreamFails, emit, stream,
       emit_unchecked, env, StreamFits, BetweenTurns, InTurn, Answered,
       TypeInvariant, FlagType, P!FinalReasons
  <2>2. FirstAttempt'
    BY <1>11, SeenEvents DEF Ordered, StreamFails, emit, emit_unchecked,
       FirstAttempt, TypeInvariant, FlagType
  <2>3. EndingFits'
    BY <1>11, SeenEvents, Scripts DEF Ordered, StreamFails, emit, stream,
       emit_unchecked, env, EndingFits, TypeInvariant, FlagType, StreamFits,
       FirstAttempt, P!FinalReasons, BetweenTurns, InTurn, Answered
  <2> QED BY <1>11, <2>1, <2>2, <2>3 DEF Ordered
<1>12. CASE StreamAborts
  <2>1. StreamFits'
    BY <1>12, SeenEvents DEF Ordered, StreamAborts, stream, emit, env,
       StreamFits, BetweenTurns, InTurn, Answered, TypeInvariant, FlagType,
       P!FinalReasons
  <2>2. FirstAttempt'
    BY <1>12, SeenEvents DEF Ordered, StreamAborts, emit, FirstAttempt,
       TypeInvariant, FlagType
  <2>3. EndingFits'
    BY <1>12, SeenEvents, Scripts DEF Ordered, StreamAborts, stream, emit,
       env, EndingFits, TypeInvariant, FlagType, StreamFits, FirstAttempt,
       P!FinalReasons, BetweenTurns, InTurn, Answered
  <2> QED BY <1>12, <2>1, <2>2, <2>3 DEF Ordered
<1>13. CASE StreamOverflows
  <2>1. StreamFits'
    BY <1>13, SeenEvents DEF Ordered, StreamOverflows, stream, env,
       StreamFits, BetweenTurns, InTurn, Answered, TypeInvariant, FlagType,
       P!FinalReasons
  <2>2. FirstAttempt'
    BY <1>13, SeenEvents DEF Ordered, StreamOverflows, FirstAttempt,
       TypeInvariant, FlagType
  <2>3. EndingFits'
    BY <1>13, SeenEvents, Scripts DEF Ordered, StreamOverflows, stream, env,
       EndingFits, TypeInvariant, FlagType, StreamFits, FirstAttempt,
       P!FinalReasons, BetweenTurns, InTurn, Answered
  <2> QED BY <1>13, <2>1, <2>2, <2>3 DEF Ordered
<1>14. CASE attempt_overflow_recovery
  <2>1. StreamFits'
    BY <1>14, SeenEvents DEF Ordered, attempt_overflow_recovery,
       sync_loop_context_snapshot, any_compacted, stream, Ends, env,
       StreamFits, BetweenTurns, InTurn, Answered, TypeInvariant, FlagType,
       P!FinalReasons
  <2>2. FirstAttempt'
    BY <1>14, SeenEvents DEF Ordered, attempt_overflow_recovery,
       sync_loop_context_snapshot, any_compacted, Ends, FirstAttempt,
       TypeInvariant, FlagType
  <2>3. EndingFits'
    <3>1. CASE pc' = "ending"
      <4>1. script' = handle_started_turn_cancellation
        BY <1>14, <3>1 DEF attempt_overflow_recovery, Ends
      <4>2. UNCHANGED <<closed, run, turn, msg, last>> /\ pc = "recover"
        BY <1>14 DEF attempt_overflow_recovery, Ends, stream, env
      <4>3. ~closed => run = "running" /\ turn = "open" /\ msg = "open"
        BY <4>2 DEF Ordered, StreamFits, BetweenTurns, InTurn
      <4>4. Closes(script') /\ Len(script') = 3
        BY <4>1, Scripts
      <4> QED BY <4>2, <4>3, <4>4 DEF EndingFits
    <3> QED BY <3>1 DEF EndingFits
  <2> QED BY <1>14, <2>1, <2>2, <2>3 DEF Ordered
<1>15. CASE overflow_error
  <2>1. StreamFits'
    BY <1>15, SeenEvents DEF Ordered, overflow_error, emit_unchecked, stream,
       env, StreamFits, BetweenTurns, InTurn, Answered, TypeInvariant,
       FlagType, P!FinalReasons
  <2>2. FirstAttempt'
    BY <1>15, SeenEvents DEF Ordered, overflow_error, emit_unchecked,
       FirstAttempt, TypeInvariant, FlagType
  <2>3. EndingFits'
    BY <1>15, SeenEvents, Scripts DEF Ordered, overflow_error, emit_unchecked,
       stream, env, EndingFits, TypeInvariant, FlagType, StreamFits,
       FirstAttempt, P!FinalReasons, BetweenTurns, InTurn, Answered
  <2> QED BY <1>15, <2>1, <2>2, <2>3 DEF Ordered
<1>16. CASE handle_error_stop
  <2>1. StreamFits'
    BY <1>16, SeenEvents DEF Ordered, handle_error_stop, EndFailed,
       run_post_turn_policy_check, ExitFailed, Ends, stream, env, StreamFits,
       BetweenTurns, InTurn, Answered, TypeInvariant, FlagType, P!FinalReasons
  <2>2. FirstAttempt'
    BY <1>16, SeenEvents DEF Ordered, handle_error_stop, EndFailed,
       run_post_turn_policy_check, ExitFailed, Ends, FirstAttempt,
       TypeInvariant, FlagType
  <2>3. EndingFits'
    BY <1>16, SeenEvents, Scripts DEF Ordered, handle_error_stop, EndFailed,
       run_post_turn_policy_check, ExitFailed, Ends, stream, env, EndingFits,
       TypeInvariant, FlagType, StreamFits, FirstAttempt, P!FinalReasons,
       BetweenTurns, InTurn, Answered
  <2> QED BY <1>16, <2>1, <2>2, <2>3 DEF Ordered
<1>17. CASE handle_stream_abort
  <2>1. StreamFits'
    BY <1>17, SeenEvents DEF Ordered, handle_stream_abort, EndFailed,
       run_post_turn_policy_check, ExitFailed, Ends, stream, env, StreamFits,
       BetweenTurns, InTurn, Answered, TypeInvariant, FlagType, P!FinalReasons
  <2>2. FirstAttempt'
    BY <1>17, SeenEvents DEF Ordered, handle_stream_abort, EndFailed,
       run_post_turn_policy_check, ExitFailed, Ends, FirstAttempt,
       TypeInvariant, FlagType
  <2>3. EndingFits'
    BY <1>17, SeenEvents, Scripts DEF Ordered, handle_stream_abort, EndFailed,
       run_post_turn_policy_check, ExitFailed, Ends, stream, env, EndingFits,
       TypeInvariant, FlagType, StreamFits, FirstAttempt, P!FinalReasons,
       BetweenTurns, InTurn, Answered
  <2> QED BY <1>17, <2>1, <2>2, <2>3 DEF Ordered
<1>18. CASE CommitText
  <2>1. StreamFits'
    BY <1>18, SeenEvents DEF Ordered, CommitText, sync_loop_context_snapshot,
       run_post_turn_policy_check, emit, stream, env, StreamFits,
       BetweenTurns, InTurn, Answered, TypeInvariant, FlagType, P!FinalReasons
  <2>2. FirstAttempt'
    BY <1>18, SeenEvents DEF Ordered, CommitText, sync_loop_context_snapshot,
       run_post_turn_policy_check, emit, FirstAttempt, TypeInvariant, FlagType
  <2>3. EndingFits'
    BY <1>18, SeenEvents, Scripts DEF Ordered, CommitText,
       sync_loop_context_snapshot, run_post_turn_policy_check, emit, stream,
       env, EndingFits, TypeInvariant, FlagType, StreamFits, FirstAttempt,
       P!FinalReasons, BetweenTurns, InTurn, Answered
  <2> QED BY <1>18, <2>1, <2>2, <2>3 DEF Ordered
<1>19. CASE AfterText
  <2>1. StreamFits'
    BY <1>19, SeenEvents DEF Ordered, AfterText, StopHonoured, Ends, stream,
       BreakInner, env, StreamFits, BetweenTurns, InTurn, Answered,
       TypeInvariant, FlagType, P!FinalReasons
  <2>2. FirstAttempt'
    BY <1>19, SeenEvents DEF Ordered, AfterText, StopHonoured, Ends,
       BreakInner, FirstAttempt, TypeInvariant, FlagType
  <2>3. EndingFits'
    BY <1>19, SeenEvents, Scripts DEF Ordered, AfterText, StopHonoured, Ends,
       stream, BreakInner, env, EndingFits, TypeInvariant, FlagType,
       StreamFits, FirstAttempt, P!FinalReasons, BetweenTurns, InTurn,
       Answered
  <2> QED BY <1>19, <2>1, <2>2, <2>3 DEF Ordered
<1>20. CASE CommitCalls
  <2>1. StreamFits'
    BY <1>20, SeenEvents DEF Ordered, CommitCalls, stream, env, StreamFits,
       BetweenTurns, InTurn, Answered, TypeInvariant, FlagType, P!FinalReasons
  <2>2. FirstAttempt'
    BY <1>20, SeenEvents DEF Ordered, CommitCalls, FirstAttempt,
       TypeInvariant, FlagType
  <2>3. EndingFits'
    BY <1>20, SeenEvents, Scripts DEF Ordered, CommitCalls, stream, env,
       EndingFits, TypeInvariant, FlagType, StreamFits, FirstAttempt,
       P!FinalReasons, BetweenTurns, InTurn, Answered
  <2> QED BY <1>20, <2>1, <2>2, <2>3 DEF Ordered
<1>21. CASE ToolsComplete
  <2>1. StreamFits'
    BY <1>21, SeenEvents DEF Ordered, ToolsComplete, BatchEnds, BatchResults,
       stream, env, StreamFits, BetweenTurns, InTurn, Answered, TypeInvariant,
       FlagType, P!FinalReasons
  <2>2. FirstAttempt'
    BY <1>21, SeenEvents DEF Ordered, ToolsComplete, BatchEnds, BatchResults,
       FirstAttempt, TypeInvariant, FlagType
  <2>3. EndingFits'
    BY <1>21, SeenEvents, Scripts DEF Ordered, ToolsComplete, BatchEnds,
       BatchResults, stream, env, EndingFits, TypeInvariant, FlagType,
       StreamFits, FirstAttempt, P!FinalReasons, BetweenTurns, InTurn,
       Answered
  <2> QED BY <1>21, <2>1, <2>2, <2>3 DEF Ordered
<1>22. CASE ToolsStopped
  <2>1. StreamFits'
    BY <1>22, SeenEvents DEF Ordered, ToolsStopped, BatchEnds, BatchResults,
       stream, env, StreamFits, BetweenTurns, InTurn, Answered, TypeInvariant,
       FlagType, P!FinalReasons
  <2>2. FirstAttempt'
    BY <1>22, SeenEvents DEF Ordered, ToolsStopped, BatchEnds, BatchResults,
       FirstAttempt, TypeInvariant, FlagType
  <2>3. EndingFits'
    BY <1>22, SeenEvents, Scripts DEF Ordered, ToolsStopped, BatchEnds,
       BatchResults, stream, env, EndingFits, TypeInvariant, FlagType,
       StreamFits, FirstAttempt, P!FinalReasons, BetweenTurns, InTurn,
       Answered
  <2> QED BY <1>22, <2>1, <2>2, <2>3 DEF Ordered
<1>23. CASE ToolsInterrupted
  <2>1. StreamFits'
    BY <1>23, SeenEvents DEF Ordered, ToolsInterrupted, BatchEnds,
       BatchResults, stream, env, StreamFits, BetweenTurns, InTurn, Answered,
       TypeInvariant, FlagType, P!FinalReasons
  <2>2. FirstAttempt'
    BY <1>23, SeenEvents DEF Ordered, ToolsInterrupted, BatchEnds,
       BatchResults, FirstAttempt, TypeInvariant, FlagType
  <2>3. EndingFits'
    BY <1>23, SeenEvents, Scripts DEF Ordered, ToolsInterrupted, BatchEnds,
       BatchResults, stream, env, EndingFits, TypeInvariant, FlagType,
       StreamFits, FirstAttempt, P!FinalReasons, BetweenTurns, InTurn,
       Answered
  <2> QED BY <1>23, <2>1, <2>2, <2>3 DEF Ordered
<1>24. CASE ToolsAborted
  <2>1. StreamFits'
    BY <1>24, SeenEvents DEF Ordered, ToolsAborted, BatchEnds, BatchResults,
       stream, env, StreamFits, BetweenTurns, InTurn, Answered, TypeInvariant,
       FlagType, P!FinalReasons
  <2>2. FirstAttempt'
    BY <1>24, SeenEvents DEF Ordered, ToolsAborted, BatchEnds, BatchResults,
       FirstAttempt, TypeInvariant, FlagType
  <2>3. EndingFits'
    BY <1>24, SeenEvents, Scripts DEF Ordered, ToolsAborted, BatchEnds,
       BatchResults, stream, env, EndingFits, TypeInvariant, FlagType,
       StreamFits, FirstAttempt, P!FinalReasons, BetweenTurns, InTurn,
       Answered
  <2> QED BY <1>24, <2>1, <2>2, <2>3 DEF Ordered
<1>25. CASE ToolsUndelivered
  <2>1. StreamFits'
    BY <1>25, SeenEvents DEF Ordered, ToolsUndelivered, stream, env,
       StreamFits, BetweenTurns, InTurn, Answered, TypeInvariant, FlagType,
       P!FinalReasons
  <2>2. FirstAttempt'
    BY <1>25, SeenEvents DEF Ordered, ToolsUndelivered, FirstAttempt,
       TypeInvariant, FlagType
  <2>3. EndingFits'
    BY <1>25, SeenEvents, Scripts DEF Ordered, ToolsUndelivered, stream, env,
       EndingFits, TypeInvariant, FlagType, StreamFits, FirstAttempt,
       P!FinalReasons, BetweenTurns, InTurn, Answered
  <2> QED BY <1>25, <2>1, <2>2, <2>3 DEF Ordered
<1>26. CASE CommitCancelled
  <2>1. StreamFits'
    BY <1>26, SeenEvents DEF Ordered, CommitCancelled,
       run_post_turn_policy_check, Ends, stream, env, StreamFits,
       BetweenTurns, InTurn, Answered, TypeInvariant, FlagType, P!FinalReasons
  <2>2. FirstAttempt'
    BY <1>26, SeenEvents DEF Ordered, CommitCancelled,
       run_post_turn_policy_check, Ends, FirstAttempt, TypeInvariant, FlagType
  <2>3. EndingFits'
    BY <1>26, SeenEvents, Scripts DEF Ordered, CommitCancelled,
       run_post_turn_policy_check, Ends, stream, env, EndingFits,
       TypeInvariant, FlagType, StreamFits, FirstAttempt, P!FinalReasons,
       BetweenTurns, InTurn, Answered
  <2> QED BY <1>26, <2>1, <2>2, <2>3 DEF Ordered
<1>27. CASE CommitResults
  <2>1. StreamFits'
    BY <1>27, SeenEvents DEF Ordered, CommitResults,
       sync_loop_context_snapshot, run_post_turn_policy_check, Ends, stream,
       emit, env, StreamFits, BetweenTurns, InTurn, Answered, TypeInvariant,
       FlagType, P!FinalReasons
  <2>2. FirstAttempt'
    BY <1>27, SeenEvents DEF Ordered, CommitResults,
       sync_loop_context_snapshot, run_post_turn_policy_check, Ends, emit,
       FirstAttempt, TypeInvariant, FlagType
  <2>3. EndingFits'
    <3>1. CASE pc' = "ending"
      <4>1. /\ script' = <<End("Transfer"), Event("AgentEnd")>>
            /\ UNCHANGED <<closed, run, turn, msg, last>> /\ pc = "transfer"
        BY <1>27, <3>1 DEF CommitResults, Ends, emit, stream, env
      <4>2. ~closed => run = "running" /\ turn = "open" /\ msg = "done"
        BY <4>1 DEF Ordered, StreamFits, BetweenTurns, InTurn, Answered
      <4>3. "Transfer" \in P!FinalReasons
        BY DEF P!FinalReasons
      <4>4. Closes(script') /\ Len(script') = 2
        BY <4>1, <4>3, Scripts
      <4> QED BY <4>1, <4>2, <4>4 DEF EndingFits
    <3> QED BY <3>1 DEF EndingFits
  <2> QED BY <1>27, <2>1, <2>2, <2>3 DEF Ordered
<1>28. CASE AfterTools
  <2>1. StreamFits'
    BY <1>28, SeenEvents DEF Ordered, AfterTools, StopHonoured, Ends, stream,
       env, StreamFits, BetweenTurns, InTurn, Answered, TypeInvariant,
       FlagType, P!FinalReasons
  <2>2. FirstAttempt'
    BY <1>28, SeenEvents DEF Ordered, AfterTools, StopHonoured, Ends,
       FirstAttempt, TypeInvariant, FlagType
  <2>3. EndingFits'
    BY <1>28, SeenEvents, Scripts DEF Ordered, AfterTools, StopHonoured, Ends,
       stream, env, EndingFits, TypeInvariant, FlagType, StreamFits,
       FirstAttempt, P!FinalReasons, BetweenTurns, InTurn, Answered
  <2> QED BY <1>28, <2>1, <2>2, <2>3 DEF Ordered
<1>29. CASE PostLoopContinue
  <2>1. StreamFits'
    BY <1>29, SeenEvents DEF Ordered, PostLoopContinue, stream, env,
       StreamFits, BetweenTurns, InTurn, Answered, TypeInvariant, FlagType,
       P!FinalReasons
  <2>2. FirstAttempt'
    BY <1>29, SeenEvents DEF Ordered, PostLoopContinue, FirstAttempt,
       TypeInvariant, FlagType
  <2>3. EndingFits'
    BY <1>29, SeenEvents, Scripts DEF Ordered, PostLoopContinue, stream, env,
       EndingFits, TypeInvariant, FlagType, StreamFits, FirstAttempt,
       P!FinalReasons, BetweenTurns, InTurn, Answered
  <2> QED BY <1>29, <2>1, <2>2, <2>3 DEF Ordered
<1>30. CASE PostLoopStop
  <2>1. StreamFits'
    BY <1>30, SeenEvents DEF Ordered, PostLoopStop, Ends, stream, env,
       StreamFits, BetweenTurns, InTurn, Answered, TypeInvariant, FlagType,
       P!FinalReasons
  <2>2. FirstAttempt'
    BY <1>30, SeenEvents DEF Ordered, PostLoopStop, Ends, FirstAttempt,
       TypeInvariant, FlagType
  <2>3. EndingFits'
    BY <1>30, SeenEvents, Scripts DEF Ordered, PostLoopStop, Ends, stream,
       env, EndingFits, TypeInvariant, FlagType, StreamFits, FirstAttempt,
       P!FinalReasons, BetweenTurns, InTurn, Answered
  <2> QED BY <1>30, <2>1, <2>2, <2>3 DEF Ordered
<1>31. CASE PostLoopInject
  <2>1. StreamFits'
    BY <1>31, SeenEvents DEF Ordered, PostLoopInject, stream, env, StreamFits,
       BetweenTurns, InTurn, Answered, TypeInvariant, FlagType, P!FinalReasons
  <2>2. FirstAttempt'
    BY <1>31, SeenEvents DEF Ordered, PostLoopInject, FirstAttempt,
       TypeInvariant, FlagType
  <2>3. EndingFits'
    BY <1>31, SeenEvents, Scripts DEF Ordered, PostLoopInject, stream, env,
       EndingFits, TypeInvariant, FlagType, StreamFits, FirstAttempt,
       P!FinalReasons, BetweenTurns, InTurn, Answered
  <2> QED BY <1>31, <2>1, <2>2, <2>3 DEF Ordered
<1>32. CASE PollFollowUp
  <2>1. StreamFits'
    BY <1>32, SeenEvents DEF Ordered, PollFollowUp, Ends, stream, env,
       StreamFits, BetweenTurns, InTurn, Answered, TypeInvariant, FlagType,
       P!FinalReasons
  <2>2. FirstAttempt'
    BY <1>32, SeenEvents DEF Ordered, PollFollowUp, Ends, FirstAttempt,
       TypeInvariant, FlagType
  <2>3. EndingFits'
    <3>1. CASE pc' = "ending"
      <4>1. /\ script' = <<Event("AgentEnd")>>
            /\ UNCHANGED <<closed, run, turn, msg, last>> /\ pc = "followup"
        BY <1>32, <3>1 DEF PollFollowUp, Ends, stream, env
      <4>2. ~closed => run = "running" /\ turn # "open"
        BY <4>1 DEF Ordered, StreamFits, BetweenTurns
      <4>3. Closes(script') /\ Len(script') = 1
        BY <4>1, Scripts
      <4> QED BY <4>1, <4>2, <4>3 DEF EndingFits
    <3> QED BY <3>1 DEF EndingFits
  <2> QED BY <1>32, <2>1, <2>2, <2>3 DEF Ordered
<1>33. CASE Ending
  <2>1. StreamFits'
    BY <1>33, SeenEvents DEF Ordered, Ending, emit, stream, env, StreamFits,
       BetweenTurns, InTurn, Answered, TypeInvariant, FlagType, P!FinalReasons
  <2>2. FirstAttempt'
    BY <1>33, SeenEvents DEF Ordered, Ending, emit, FirstAttempt,
       TypeInvariant, FlagType
  <2>3. EndingFits'
    <3>1. CASE pc' = "ending"
      <4>1. /\ pc = "ending" /\ ~closed /\ closed' = closed /\ Len(script) # 1
            /\ Sees(Head(script)) /\ script' = Tail(script)
        BY <1>33, <3>1 DEF Ending, emit, LastEvent, env
      <4>2. Closes(script)
        BY <4>1 DEF Ordered, EndingFits
      <4>3. Len(script) \in 2..5
        BY <4>1, <4>2, NextOfEnding
      <4>4. /\ Closes(script') /\ Len(script') = Len(script) - 1 /\ Head(script) = script[1]
            /\ Len(script) = 3 => script'[1] = script[2]
        <5>1. \A n \in 2..5 : n > 1
          OBVIOUS
        <5>2. Len(script) > 1
          BY <4>3, <5>1
        <5> QED BY <4>1, <4>2, <5>2, ScriptsGoOn
      <4>5. Len(script) = 5 \/ Len(script) = 4 \/ Len(script) = 3 \/ Len(script) = 2
        <5>1. \A n \in 2..5 : n = 5 \/ n = 4 \/ n = 3 \/ n = 2
          OBVIOUS
        <5> QED BY <4>3, <5>1
      <4>6. /\ run = "running" /\ closed' = closed
            /\ Len(script) = 5 => turn # "open" /\ last \notin P!FinalReasons
            /\ Len(script) \in {2, 3, 4} => turn = "open"
            /\ Len(script) = 4 => msg = "none"
            /\ Len(script) = 3 => msg = "open"
        BY <4>1, <4>3 DEF Ordered, EndingFits
      <4>7. CASE Len(script) = 5
        <5>1. run' = run /\ turn' = "open" /\ msg' = "none" /\ last' = last
          BY <4>1, <4>2, <4>4, <4>7, NextOfEnding, Seen
        <5> QED BY <4>4, <4>6, <4>7, <5>1 DEF EndingFits
      <4>8. CASE Len(script) = 4
        <5>1. run' = run /\ turn' = turn /\ msg' = "open" /\ last' = last
          BY <4>1, <4>2, <4>4, <4>8, NextOfEnding, Seen
        <5> QED BY <4>4, <4>6, <4>8, <5>1 DEF EndingFits
      <4>9. CASE Len(script) = 3
        <5>1. run' = run /\ turn' = turn /\ msg' = "done" /\ last' = last
          BY <4>1, <4>2, <4>4, <4>9, NextOfEnding, Seen
        <5> QED BY <4>4, <4>6, <4>9, <5>1 DEF EndingFits
      <4>10. CASE Len(script) = 2
        <5>1. run' = run /\ turn' = "closed"
          BY <4>1, <4>2, <4>4, <4>10, NextOfEnding, Seen
        <5> QED BY <4>4, <4>6, <4>10, <5>1 DEF EndingFits
      <4> QED BY <4>5, <4>7, <4>8, <4>9, <4>10
    <3> QED BY <3>1 DEF EndingFits
  <2> QED BY <1>33, <2>1, <2>2, <2>3 DEF Ordered
<1>34. CASE Queue
  <2> QED BY <1>34 DEF Ordered, Queue, stream, StreamFits, FirstAttempt,
     EndingFits
<1>35. CASE Cancel
  <2> QED BY <1>35 DEF Ordered, Cancel, stream, StreamFits, FirstAttempt,
     EndingFits
<1>36. CASE DropStream
  <2>1. StreamFits'
    BY <1>36, SeenEvents DEF Ordered, DropStream, stream, StreamFits,
       BetweenTurns, InTurn, Answered, TypeInvariant, FlagType, P!FinalReasons
  <2>2. EndingFits'
    BY <1>36, SeenEvents, Scripts DEF Ordered, DropStream, stream, EndingFits,
       TypeInvariant, FlagType, StreamFits, FirstAttempt, P!FinalReasons,
       BetweenTurns, InTurn, Answered
  <2> QED BY <1>36, <2>1, <2>2 DEF Ordered, DropStream, FirstAttempt
<1>37. CASE Done
  <2> QED BY <1>37 DEF Ordered, Done, vars, stream, env, StreamFits,
     FirstAttempt, EndingFits
<1>38. CASE UNCHANGED vars
  BY <1>38 DEF vars, snaps, queues, turnVars, stream, env, history, Ordered,
     StreamFits, FirstAttempt, EndingFits
<1> QED BY <1>1, <1>2, <1>3, <1>4, <1>5, <1>6, <1>7, <1>8, <1>9, <1>10, <1>11,
   <1>12, <1>13, <1>14, <1>15, <1>16, <1>17, <1>18, <1>19, <1>20, <1>21,
   <1>22, <1>23, <1>24, <1>25, <1>26, <1>27, <1>28, <1>29, <1>30, <1>31,
   <1>32, <1>33, <1>34, <1>35, <1>36, <1>37, <1>38 DEF Next, Loop, Turn,
   Model, Text, Tools, Outer, Env

(* Each step shows the consumer at most one event, the one it is due.      *)
LEMMA ProtocolStep ==
  TypeInvariant /\ Ordered /\ [Next]_vars => [P!ProtocolNext]_(P!protocolVars)
<1> SUFFICES ASSUME TypeInvariant, Ordered, [Next]_vars
             PROVE  P!ProtocolNext \/ UNCHANGED <<run, turn, msg, last>>
  BY DEF P!protocolVars
<1>1. CASE Start
  BY <1>1, SeenEvents DEF Start, emit, stream, Ordered, StreamFits,
     FirstAttempt, BetweenTurns, InTurn, Answered, P!FinalReasons, P!Reasons,
     P!ProtocolNext, P!AgentStart
<1>2. CASE InjectPending
  BY <1>2 DEF InjectPending, Ends, stream
<1>3. CASE Transform
  BY <1>3 DEF Transform, stream
<1>4. CASE PreTurnContinue
  BY <1>4 DEF PreTurnContinue, stream
<1>5. CASE PreTurnStop
  BY <1>5 DEF PreTurnStop, Ends, stream
<1>6. CASE PreTurnInject
  BY <1>6 DEF PreTurnInject, stream
<1>7. CASE TurnStart
  BY <1>7, SeenEvents DEF TurnStart, emit, stream, Ordered, StreamFits,
     FirstAttempt, BetweenTurns, InTurn, Answered, P!FinalReasons, P!Reasons,
     P!ProtocolNext, P!TurnStart
<1>8. CASE BeforeLlmCall
  BY <1>8 DEF BeforeLlmCall, CallStep, stream
<1>9. CASE CallModel
  BY <1>9, SeenEvents DEF CallModel, stream, emit, Ordered, StreamFits,
     FirstAttempt, BetweenTurns, InTurn, Answered, P!FinalReasons, P!Reasons,
     P!ProtocolNext, P!MessageStart
<1>10. ASSUME NEW a \in Answers, StreamAnswers(a)
      PROVE  P!ProtocolNext \/ UNCHANGED <<run, turn, msg, last>>
  BY <1>10, SeenEvents DEF StreamAnswers, emit, stream, Ordered, StreamFits,
     FirstAttempt, BetweenTurns, InTurn, Answered, P!FinalReasons, P!Reasons,
     P!ProtocolNext, P!MessageEnd
<1>11. CASE StreamFails
  BY <1>11, SeenEvents DEF StreamFails, emit, stream, emit_unchecked, Ordered,
     StreamFits, FirstAttempt, BetweenTurns, InTurn, Answered, P!FinalReasons,
     P!Reasons, P!ProtocolNext, P!MessageEnd
<1>12. CASE StreamAborts
  BY <1>12, SeenEvents DEF StreamAborts, stream, emit, Ordered, StreamFits,
     FirstAttempt, BetweenTurns, InTurn, Answered, P!FinalReasons, P!Reasons,
     P!ProtocolNext, P!MessageEnd
<1>13. CASE StreamOverflows
  BY <1>13 DEF StreamOverflows, stream
<1>14. CASE attempt_overflow_recovery
  BY <1>14 DEF attempt_overflow_recovery, stream, Ends
<1>15. CASE overflow_error
  BY <1>15, SeenEvents DEF overflow_error, emit_unchecked, stream, Ordered,
     StreamFits, FirstAttempt, BetweenTurns, InTurn, Answered, P!FinalReasons,
     P!Reasons, P!ProtocolNext, P!MessageEnd
<1>16. CASE handle_error_stop
  BY <1>16 DEF handle_error_stop, EndFailed, ExitFailed, Ends, stream
<1>17. CASE handle_stream_abort
  BY <1>17 DEF handle_stream_abort, EndFailed, ExitFailed, Ends, stream
<1>18. CASE CommitText
  BY <1>18, SeenEvents DEF CommitText, emit, stream, Ordered, StreamFits,
     FirstAttempt, BetweenTurns, InTurn, Answered, P!FinalReasons, P!Reasons,
     P!ProtocolNext, P!TurnEnd
<1>19. CASE AfterText
  BY <1>19 DEF AfterText, Ends, stream
<1>20. CASE CommitCalls
  BY <1>20 DEF CommitCalls, stream
<1>21. CASE ToolsComplete
  BY <1>21 DEF ToolsComplete, BatchEnds, stream
<1>22. CASE ToolsStopped
  BY <1>22 DEF ToolsStopped, BatchEnds, stream
<1>23. CASE ToolsInterrupted
  BY <1>23 DEF ToolsInterrupted, BatchEnds, stream
<1>24. CASE ToolsAborted
  BY <1>24 DEF ToolsAborted, BatchEnds, stream
<1>25. CASE ToolsUndelivered
  BY <1>25 DEF ToolsUndelivered, stream
<1>26. CASE CommitCancelled
  BY <1>26 DEF CommitCancelled, Ends, stream
<1>27. CASE CommitResults
  BY <1>27, SeenEvents DEF CommitResults, Ends, stream, emit, Ordered,
     StreamFits, FirstAttempt, BetweenTurns, InTurn, Answered, P!FinalReasons,
     P!Reasons, P!ProtocolNext, P!TurnEnd
<1>28. CASE AfterTools
  BY <1>28 DEF AfterTools, Ends, stream
<1>29. CASE PostLoopContinue
  BY <1>29 DEF PostLoopContinue, stream
<1>30. CASE PostLoopStop
  BY <1>30 DEF PostLoopStop, Ends, stream
<1>31. CASE PostLoopInject
  BY <1>31 DEF PostLoopInject, stream
<1>32. CASE PollFollowUp
  BY <1>32 DEF PollFollowUp, Ends, stream
<1>33. CASE Ending
  <2>1. CASE closed
    BY <1>33, <2>1 DEF Ending, emit, stream
  <2>2. CASE ~closed
    <3>1. Closes(script) /\ Sees(Head(script)) /\ Head(script) = script[1]
      BY <1>33, <2>2, ScriptsGoOn DEF Ending, emit, Ordered, EndingFits
    <3>2. Len(script) \in 1..5
      BY <3>1, NextOfEnding
    <3>3. Len(script) = 5 \/ Len(script) = 4 \/ Len(script) = 3 \/ Len(script) = 2 \/ Len(script) = 1
      <4>1. \A n \in 1..5 : n = 5 \/ n = 4 \/ n = 3 \/ n = 2 \/ n = 1
        OBVIOUS
      <4> QED BY <3>2, <4>1
    <3>4. /\ run = "running"
          /\ Len(script) = 5 => turn # "open" /\ last \notin P!FinalReasons
          /\ Len(script) = 1 => turn # "open"
          /\ Len(script) \in {2, 3, 4} => turn = "open"
          /\ Len(script) = 4 => msg = "none"
          /\ Len(script) = 3 => msg = "open"
          /\ Len(script) = 2 => msg = "done" \/ script[1].reason = "Aborted"
      BY <1>33, <2>2 DEF Ending, Ordered, EndingFits
    <3>5. CASE Len(script) = 5
      <4>1. run' = run /\ turn' = "open" /\ msg' = "none" /\ last' = last
        BY <3>1, <3>5, NextOfEnding, Seen
      <4> QED BY <3>4, <3>5, <4>1 DEF P!ProtocolNext, P!TurnStart
    <3>6. CASE Len(script) = 4
      <4>1. run' = run /\ turn' = turn /\ msg' = "open" /\ last' = last
        BY <3>1, <3>6, NextOfEnding, Seen
      <4> QED BY <3>4, <3>6, <4>1 DEF P!ProtocolNext, P!MessageStart
    <3>7. CASE Len(script) = 3
      <4>1. run' = run /\ turn' = turn /\ msg' = "done" /\ last' = last
        BY <3>1, <3>7, NextOfEnding, Seen
      <4> QED BY <3>4, <3>7, <4>1 DEF P!ProtocolNext, P!MessageEnd
    <3>8. CASE Len(script) = 2
      <4>1. run' = run /\ turn' = "closed" /\ msg' = msg /\ last' = script[1].reason
        BY <3>1, <3>8, NextOfEnding, Seen
      <4>2. script[1].reason \in P!Reasons
        BY <3>1, <3>8, NextOfEnding DEF P!Reasons
      <4>3. P!TurnEnd(script[1].reason)
        BY <3>4, <3>8, <4>1 DEF P!TurnEnd
      <4> QED BY <4>2, <4>3 DEF P!ProtocolNext
    <3>9. CASE Len(script) = 1
      <4>1. run' = "ended" /\ turn' = turn /\ msg' = msg /\ last' = last
        BY <3>1, <3>9, NextOfEnding, Seen
      <4> QED BY <3>4, <3>9, <4>1 DEF P!ProtocolNext, P!AgentEnd
    <3> QED BY <3>3, <3>5, <3>6, <3>7, <3>8, <3>9
  <2> QED BY <2>1, <2>2
<1>34. CASE Queue
  BY <1>34 DEF Queue, stream
<1>35. CASE Cancel
  BY <1>35 DEF Cancel, stream
<1>36. CASE DropStream
  BY <1>36 DEF DropStream, stream
<1>37. CASE Done
  BY <1>37 DEF Done, vars, stream
<1>38. CASE UNCHANGED vars
  BY <1>38 DEF vars, stream
<1> QED BY <1>1, <1>2, <1>3, <1>4, <1>5, <1>6, <1>7, <1>8, <1>9, <1>10, <1>11,
   <1>12, <1>13, <1>14, <1>15, <1>16, <1>17, <1>18, <1>19, <1>20, <1>21,
   <1>22, <1>23, <1>24, <1>25, <1>26, <1>27, <1>28, <1>29, <1>30, <1>31,
   <1>32, <1>33, <1>34, <1>35, <1>36, <1>37, <1>38 DEF Next, Loop, Turn,
   Model, Text, Tools, Outer, Env

(* FR-003: the events are those of EventProtocol, in its order.            *)
THEOREM EventsInOrder == Spec => EventOrder
<1>1. Init => P!ProtocolInit
  BY DEF Init, P!ProtocolInit
<1> QED BY <1>1, LoopTypeCorrect, OrderedInit, OrderedStep, ProtocolStep, PTL
        DEF Spec, EventOrder, P!ProtocolSpec

(* What ends the run by itself has nothing pending.                         *)
LEMMA LeavesNothingInit == Init => LeavesNothing
BY DEF Init, LeavesNothing, StopRemembered, OuterEmpty, EndsEmpty, EndedEmpty

LEMMA LeavesNothingStep == TypeInvariant /\ Ordered /\ LeavesNothing /\ [Next]_vars => LeavesNothing'
<1> SUFFICES ASSUME TypeInvariant, Ordered, LeavesNothing, [Next]_vars PROVE LeavesNothing'
  OBVIOUS
<1>1. CASE Start
  <2>1. OuterEmpty'
    BY <1>1, SeenEvents DEF LeavesNothing, Start, emit, OuterEmpty,
       TypeInvariant, FlagType
  <2>2. EndsEmpty'
    BY <1>1, SeenEvents, Scripts DEF LeavesNothing, Start, emit, stream, env,
       history, EndsEmpty, NothingKept, TypeInvariant, FlagType,
       P!FinalReasons, StopRemembered, OuterEmpty
  <2>3. EndedEmpty'
    BY <1>1, SeenEvents DEF LeavesNothing, Start, emit, stream, history,
       EndedEmpty, NothingKept, TypeInvariant, FlagType, Ordered, StreamFits,
       EndingFits, BetweenTurns, InTurn, Answered
  <2> QED BY <1>1, <2>1, <2>2, <2>3 DEF LeavesNothing, Start, emit, turnVars,
     history, StopRemembered
<1>2. CASE InjectPending
  <2>1. StopRemembered'
    BY <1>2, SeenEvents DEF LeavesNothing, InjectPending, NoAnswer,
       sync_loop_context_snapshot, Ends, StopRemembered, TypeInvariant,
       FlagType
  <2>2. OuterEmpty'
    BY <1>2, SeenEvents DEF LeavesNothing, InjectPending, NoAnswer,
       sync_loop_context_snapshot, Ends, OuterEmpty, TypeInvariant, FlagType
  <2>3. EndsEmpty'
    BY <1>2, SeenEvents, Scripts DEF LeavesNothing, InjectPending, NoAnswer,
       sync_loop_context_snapshot, Ends, stream, env, EndsEmpty, NothingKept,
       TypeInvariant, FlagType, P!FinalReasons, StopRemembered, OuterEmpty
  <2>4. EndedEmpty'
    BY <1>2, SeenEvents DEF LeavesNothing, InjectPending, NoAnswer,
       sync_loop_context_snapshot, Ends, stream, EndedEmpty, NothingKept,
       TypeInvariant, FlagType, Ordered, StreamFits, EndingFits, BetweenTurns,
       InTurn, Answered
  <2> QED BY <1>2, <2>1, <2>2, <2>3, <2>4 DEF LeavesNothing
<1>3. CASE Transform
  <2>1. OuterEmpty'
    BY <1>3, SeenEvents DEF LeavesNothing, Transform,
       sync_loop_context_snapshot, OuterEmpty, TypeInvariant, FlagType
  <2>2. EndsEmpty'
    BY <1>3, SeenEvents, Scripts DEF LeavesNothing, Transform,
       sync_loop_context_snapshot, stream, env, history, EndsEmpty,
       NothingKept, TypeInvariant, FlagType, P!FinalReasons, StopRemembered,
       OuterEmpty
  <2>3. EndedEmpty'
    BY <1>3, SeenEvents DEF LeavesNothing, Transform,
       sync_loop_context_snapshot, stream, history, EndedEmpty, NothingKept,
       TypeInvariant, FlagType, Ordered, StreamFits, EndingFits, BetweenTurns,
       InTurn, Answered
  <2> QED BY <1>3, <2>1, <2>2, <2>3 DEF LeavesNothing, Transform, turnVars,
     history, StopRemembered
<1>4. CASE PreTurnContinue
  <2>1. OuterEmpty'
    BY <1>4, SeenEvents DEF LeavesNothing, PreTurnContinue, OuterEmpty,
       TypeInvariant, FlagType
  <2>2. EndsEmpty'
    BY <1>4, SeenEvents, Scripts DEF LeavesNothing, PreTurnContinue, stream,
       env, history, EndsEmpty, NothingKept, TypeInvariant, FlagType,
       P!FinalReasons, StopRemembered, OuterEmpty
  <2>3. EndedEmpty'
    BY <1>4, SeenEvents DEF LeavesNothing, PreTurnContinue, stream, history,
       EndedEmpty, NothingKept, TypeInvariant, FlagType, Ordered, StreamFits,
       EndingFits, BetweenTurns, InTurn, Answered
  <2> QED BY <1>4, <2>1, <2>2, <2>3 DEF LeavesNothing, PreTurnContinue,
     turnVars, history, StopRemembered
<1>5. CASE PreTurnStop
  <2>1. StopRemembered'
    BY <1>5, SeenEvents DEF LeavesNothing, PreTurnStop, Ends, turnVars,
       StopRemembered, TypeInvariant, FlagType
  <2>2. OuterEmpty'
    BY <1>5, SeenEvents DEF LeavesNothing, PreTurnStop, Ends, OuterEmpty,
       TypeInvariant, FlagType
  <2>3. EndsEmpty'
    BY <1>5, SeenEvents, Scripts DEF LeavesNothing, PreTurnStop, Ends, stream,
       env, EndsEmpty, NothingKept, TypeInvariant, FlagType, P!FinalReasons,
       StopRemembered, OuterEmpty
  <2>4. EndedEmpty'
    BY <1>5, SeenEvents DEF LeavesNothing, PreTurnStop, Ends, stream,
       EndedEmpty, NothingKept, TypeInvariant, FlagType, Ordered, StreamFits,
       EndingFits, BetweenTurns, InTurn, Answered
  <2> QED BY <1>5, <2>1, <2>2, <2>3, <2>4 DEF LeavesNothing
<1>6. CASE PreTurnInject
  <2>1. OuterEmpty'
    BY <1>6, SeenEvents DEF LeavesNothing, PreTurnInject,
       sync_loop_context_snapshot, OuterEmpty, TypeInvariant, FlagType
  <2>2. EndsEmpty'
    BY <1>6, SeenEvents, Scripts DEF LeavesNothing, PreTurnInject,
       sync_loop_context_snapshot, stream, env, history, EndsEmpty,
       NothingKept, TypeInvariant, FlagType, P!FinalReasons, StopRemembered,
       OuterEmpty
  <2>3. EndedEmpty'
    BY <1>6, SeenEvents DEF LeavesNothing, PreTurnInject,
       sync_loop_context_snapshot, stream, history, EndedEmpty, NothingKept,
       TypeInvariant, FlagType, Ordered, StreamFits, EndingFits, BetweenTurns,
       InTurn, Answered
  <2> QED BY <1>6, <2>1, <2>2, <2>3 DEF LeavesNothing, PreTurnInject,
     turnVars, history, StopRemembered
<1>7. CASE TurnStart
  <2>1. OuterEmpty'
    BY <1>7, SeenEvents DEF LeavesNothing, TurnStart, emit, OuterEmpty,
       TypeInvariant, FlagType
  <2>2. EndsEmpty'
    BY <1>7, SeenEvents, Scripts DEF LeavesNothing, TurnStart, emit, stream,
       env, history, EndsEmpty, NothingKept, TypeInvariant, FlagType,
       P!FinalReasons, StopRemembered, OuterEmpty
  <2>3. EndedEmpty'
    BY <1>7, SeenEvents DEF LeavesNothing, TurnStart, emit, stream, history,
       EndedEmpty, NothingKept, TypeInvariant, FlagType, Ordered, StreamFits,
       EndingFits, BetweenTurns, InTurn, Answered
  <2> QED BY <1>7, <2>1, <2>2, <2>3 DEF LeavesNothing, TurnStart, emit,
     turnVars, history, StopRemembered
<1>8. CASE BeforeLlmCall
  <2>1. OuterEmpty'
    BY <1>8, SeenEvents DEF LeavesNothing, BeforeLlmCall, CallStep,
       OuterEmpty, TypeInvariant, FlagType
  <2>2. EndsEmpty'
    BY <1>8, SeenEvents, Scripts DEF LeavesNothing, BeforeLlmCall, CallStep,
       stream, env, history, EndsEmpty, NothingKept, TypeInvariant, FlagType,
       P!FinalReasons, StopRemembered, OuterEmpty
  <2>3. EndedEmpty'
    BY <1>8, SeenEvents DEF LeavesNothing, BeforeLlmCall, CallStep, stream,
       history, EndedEmpty, NothingKept, TypeInvariant, FlagType, Ordered,
       StreamFits, EndingFits, BetweenTurns, InTurn, Answered
  <2> QED BY <1>8, <2>1, <2>2, <2>3 DEF LeavesNothing, BeforeLlmCall,
     turnVars, history, StopRemembered
<1>9. CASE CallModel
  <2>1. OuterEmpty'
    BY <1>9, SeenEvents DEF LeavesNothing, CallModel, emit, OuterEmpty,
       TypeInvariant, FlagType
  <2>2. EndsEmpty'
    BY <1>9, SeenEvents, Scripts DEF LeavesNothing, CallModel, stream, emit,
       env, history, EndsEmpty, NothingKept, TypeInvariant, FlagType,
       P!FinalReasons, StopRemembered, OuterEmpty
  <2>3. EndedEmpty'
    BY <1>9, SeenEvents DEF LeavesNothing, CallModel, stream, emit, history,
       EndedEmpty, NothingKept, TypeInvariant, FlagType, Ordered, StreamFits,
       EndingFits, BetweenTurns, InTurn, Answered
  <2> QED BY <1>9, <2>1, <2>2, <2>3 DEF LeavesNothing, CallModel, emit,
     turnVars, history, StopRemembered
<1>10. ASSUME NEW a \in Answers, StreamAnswers(a) PROVE LeavesNothing'
  <2>1. OuterEmpty'
    BY <1>10, SeenEvents DEF LeavesNothing, StreamAnswers, emit, OuterEmpty,
       TypeInvariant, FlagType
  <2>2. EndsEmpty'
    BY <1>10, SeenEvents, Scripts DEF LeavesNothing, StreamAnswers, emit,
       stream, env, history, EndsEmpty, NothingKept, TypeInvariant, FlagType,
       P!FinalReasons, StopRemembered, OuterEmpty
  <2>3. EndedEmpty'
    BY <1>10, SeenEvents DEF LeavesNothing, StreamAnswers, emit, stream,
       history, EndedEmpty, NothingKept, TypeInvariant, FlagType, Ordered,
       StreamFits, EndingFits, BetweenTurns, InTurn, Answered
  <2> QED BY <1>10, <2>1, <2>2, <2>3 DEF LeavesNothing, StreamAnswers, emit,
     history, StopRemembered
<1>11. CASE StreamFails
  <2>1. OuterEmpty'
    BY <1>11, SeenEvents DEF LeavesNothing, StreamFails, emit, emit_unchecked,
       OuterEmpty, TypeInvariant, FlagType
  <2>2. EndsEmpty'
    BY <1>11, SeenEvents, Scripts DEF LeavesNothing, StreamFails, emit,
       stream, emit_unchecked, env, history, EndsEmpty, NothingKept,
       TypeInvariant, FlagType, P!FinalReasons, StopRemembered, OuterEmpty
  <2>3. EndedEmpty'
    BY <1>11, SeenEvents DEF LeavesNothing, StreamFails, emit, stream,
       emit_unchecked, history, EndedEmpty, NothingKept, TypeInvariant,
       FlagType, Ordered, StreamFits, EndingFits, BetweenTurns, InTurn,
       Answered
  <2> QED BY <1>11, <2>1, <2>2, <2>3 DEF LeavesNothing, StreamFails, emit,
     emit_unchecked, turnVars, history, StopRemembered
<1>12. CASE StreamAborts
  <2>1. OuterEmpty'
    BY <1>12, SeenEvents DEF LeavesNothing, StreamAborts, emit, OuterEmpty,
       TypeInvariant, FlagType
  <2>2. EndsEmpty'
    BY <1>12, SeenEvents, Scripts DEF LeavesNothing, StreamAborts, stream,
       emit, env, history, EndsEmpty, NothingKept, TypeInvariant, FlagType,
       P!FinalReasons, StopRemembered, OuterEmpty
  <2>3. EndedEmpty'
    BY <1>12, SeenEvents DEF LeavesNothing, StreamAborts, stream, emit,
       history, EndedEmpty, NothingKept, TypeInvariant, FlagType, Ordered,
       StreamFits, EndingFits, BetweenTurns, InTurn, Answered
  <2> QED BY <1>12, <2>1, <2>2, <2>3 DEF LeavesNothing, StreamAborts, emit,
     turnVars, history, StopRemembered
<1>13. CASE StreamOverflows
  <2>1. OuterEmpty'
    BY <1>13, SeenEvents DEF LeavesNothing, StreamOverflows, OuterEmpty,
       TypeInvariant, FlagType
  <2>2. EndsEmpty'
    BY <1>13, SeenEvents, Scripts DEF LeavesNothing, StreamOverflows, stream,
       env, history, EndsEmpty, NothingKept, TypeInvariant, FlagType,
       P!FinalReasons, StopRemembered, OuterEmpty
  <2>3. EndedEmpty'
    BY <1>13, SeenEvents DEF LeavesNothing, StreamOverflows, stream, history,
       EndedEmpty, NothingKept, TypeInvariant, FlagType, Ordered, StreamFits,
       EndingFits, BetweenTurns, InTurn, Answered
  <2> QED BY <1>13, <2>1, <2>2, <2>3 DEF LeavesNothing, StreamOverflows,
     turnVars, history, StopRemembered
<1>14. CASE attempt_overflow_recovery
  <2>1. OuterEmpty'
    BY <1>14, SeenEvents DEF LeavesNothing, attempt_overflow_recovery,
       sync_loop_context_snapshot, any_compacted, Ends, OuterEmpty,
       TypeInvariant, FlagType
  <2>2. EndsEmpty'
    <3>1. pc' = "ending" => Len(script') = 3
      <4>1. pc' = "ending" => script' = handle_started_turn_cancellation
        BY <1>14 DEF attempt_overflow_recovery, Ends
      <4> QED BY <4>1, Scripts
    <3> QED BY <3>1 DEF EndsEmpty
  <2>3. EndedEmpty'
    BY <1>14, SeenEvents DEF LeavesNothing, attempt_overflow_recovery,
       sync_loop_context_snapshot, any_compacted, stream, Ends, history,
       EndedEmpty, NothingKept, TypeInvariant, FlagType, Ordered, StreamFits,
       EndingFits, BetweenTurns, InTurn, Answered
  <2> QED BY <1>14, <2>1, <2>2, <2>3 DEF LeavesNothing,
     attempt_overflow_recovery, Ends, turnVars, history, StopRemembered
<1>15. CASE overflow_error
  <2>1. OuterEmpty'
    BY <1>15, SeenEvents DEF LeavesNothing, overflow_error, emit_unchecked,
       OuterEmpty, TypeInvariant, FlagType
  <2>2. EndsEmpty'
    BY <1>15, SeenEvents, Scripts DEF LeavesNothing, overflow_error,
       emit_unchecked, stream, env, history, EndsEmpty, NothingKept,
       TypeInvariant, FlagType, P!FinalReasons, StopRemembered, OuterEmpty
  <2>3. EndedEmpty'
    BY <1>15, SeenEvents DEF LeavesNothing, overflow_error, emit_unchecked,
       stream, history, EndedEmpty, NothingKept, TypeInvariant, FlagType,
       Ordered, StreamFits, EndingFits, BetweenTurns, InTurn, Answered
  <2> QED BY <1>15, <2>1, <2>2, <2>3 DEF LeavesNothing, overflow_error,
     emit_unchecked, turnVars, history, StopRemembered
<1>16. CASE handle_error_stop
  <2>1. StopRemembered'
    BY <1>16, SeenEvents DEF LeavesNothing, handle_error_stop, EndFailed,
       run_post_turn_policy_check, ExitFailed, Ends, turnVars, StopRemembered,
       TypeInvariant, FlagType
  <2>2. OuterEmpty'
    BY <1>16, SeenEvents DEF LeavesNothing, handle_error_stop, EndFailed,
       run_post_turn_policy_check, ExitFailed, Ends, OuterEmpty,
       TypeInvariant, FlagType
  <2>3. EndsEmpty'
    BY <1>16, SeenEvents, Scripts DEF LeavesNothing, handle_error_stop,
       EndFailed, run_post_turn_policy_check, ExitFailed, Ends, stream, env,
       EndsEmpty, NothingKept, TypeInvariant, FlagType, P!FinalReasons,
       StopRemembered, OuterEmpty
  <2>4. EndedEmpty'
    BY <1>16, SeenEvents DEF LeavesNothing, handle_error_stop, EndFailed,
       run_post_turn_policy_check, ExitFailed, Ends, stream, EndedEmpty,
       NothingKept, TypeInvariant, FlagType, Ordered, StreamFits, EndingFits,
       BetweenTurns, InTurn, Answered
  <2> QED BY <1>16, <2>1, <2>2, <2>3, <2>4 DEF LeavesNothing
<1>17. CASE handle_stream_abort
  <2>1. StopRemembered'
    BY <1>17, SeenEvents DEF LeavesNothing, handle_stream_abort, EndFailed,
       run_post_turn_policy_check, ExitFailed, Ends, turnVars, StopRemembered,
       TypeInvariant, FlagType
  <2>2. OuterEmpty'
    BY <1>17, SeenEvents DEF LeavesNothing, handle_stream_abort, EndFailed,
       run_post_turn_policy_check, ExitFailed, Ends, OuterEmpty,
       TypeInvariant, FlagType
  <2>3. EndsEmpty'
    BY <1>17, SeenEvents, Scripts DEF LeavesNothing, handle_stream_abort,
       EndFailed, run_post_turn_policy_check, ExitFailed, Ends, stream, env,
       EndsEmpty, NothingKept, TypeInvariant, FlagType, P!FinalReasons,
       StopRemembered, OuterEmpty
  <2>4. EndedEmpty'
    BY <1>17, SeenEvents DEF LeavesNothing, handle_stream_abort, EndFailed,
       run_post_turn_policy_check, ExitFailed, Ends, stream, EndedEmpty,
       NothingKept, TypeInvariant, FlagType, Ordered, StreamFits, EndingFits,
       BetweenTurns, InTurn, Answered
  <2> QED BY <1>17, <2>1, <2>2, <2>3, <2>4 DEF LeavesNothing
<1>18. CASE CommitText
  <2>1. StopRemembered'
    BY <1>18, SeenEvents DEF LeavesNothing, CommitText,
       sync_loop_context_snapshot, run_post_turn_policy_check, emit,
       StopRemembered, TypeInvariant, FlagType
  <2>2. OuterEmpty'
    BY <1>18, SeenEvents DEF LeavesNothing, CommitText,
       sync_loop_context_snapshot, run_post_turn_policy_check, emit,
       OuterEmpty, TypeInvariant, FlagType
  <2>3. EndsEmpty'
    BY <1>18, SeenEvents, Scripts DEF LeavesNothing, CommitText,
       sync_loop_context_snapshot, run_post_turn_policy_check, emit, stream,
       env, EndsEmpty, NothingKept, TypeInvariant, FlagType, P!FinalReasons,
       StopRemembered, OuterEmpty
  <2>4. EndedEmpty'
    BY <1>18, SeenEvents DEF LeavesNothing, CommitText,
       sync_loop_context_snapshot, run_post_turn_policy_check, emit, stream,
       EndedEmpty, NothingKept, TypeInvariant, FlagType, Ordered, StreamFits,
       EndingFits, BetweenTurns, InTurn, Answered
  <2> QED BY <1>18, <2>1, <2>2, <2>3, <2>4 DEF LeavesNothing
<1>19. CASE AfterText
  <2>1. OuterEmpty'
    BY <1>19, SeenEvents DEF LeavesNothing, AfterText, StopHonoured, Ends,
       BreakInner, OuterEmpty, TypeInvariant, FlagType
  <2>2. EndsEmpty'
    BY <1>19, SeenEvents, Scripts DEF LeavesNothing, AfterText, StopHonoured,
       Ends, stream, BreakInner, env, history, EndsEmpty, NothingKept,
       TypeInvariant, FlagType, P!FinalReasons, StopRemembered, OuterEmpty
  <2>3. EndedEmpty'
    BY <1>19, SeenEvents DEF LeavesNothing, AfterText, StopHonoured, Ends,
       stream, BreakInner, history, EndedEmpty, NothingKept, TypeInvariant,
       FlagType, Ordered, StreamFits, EndingFits, BetweenTurns, InTurn,
       Answered
  <2> QED BY <1>19, <2>1, <2>2, <2>3 DEF LeavesNothing, AfterText, Ends,
     turnVars, history, StopRemembered
<1>20. CASE CommitCalls
  <2>1. OuterEmpty'
    BY <1>20, SeenEvents DEF LeavesNothing, CommitCalls, OuterEmpty,
       TypeInvariant, FlagType
  <2>2. EndsEmpty'
    BY <1>20, SeenEvents, Scripts DEF LeavesNothing, CommitCalls, stream, env,
       history, EndsEmpty, NothingKept, TypeInvariant, FlagType,
       P!FinalReasons, StopRemembered, OuterEmpty
  <2>3. EndedEmpty'
    BY <1>20, SeenEvents DEF LeavesNothing, CommitCalls, stream, history,
       EndedEmpty, NothingKept, TypeInvariant, FlagType, Ordered, StreamFits,
       EndingFits, BetweenTurns, InTurn, Answered
  <2> QED BY <1>20, <2>1, <2>2, <2>3 DEF LeavesNothing, CommitCalls, history,
     StopRemembered
<1>21. CASE ToolsComplete
  <2>1. OuterEmpty'
    BY <1>21, SeenEvents DEF LeavesNothing, ToolsComplete, BatchEnds,
       BatchResults, OuterEmpty, TypeInvariant, FlagType
  <2>2. EndsEmpty'
    BY <1>21, SeenEvents, Scripts DEF LeavesNothing, ToolsComplete, BatchEnds,
       BatchResults, stream, env, EndsEmpty, NothingKept, TypeInvariant,
       FlagType, P!FinalReasons, StopRemembered, OuterEmpty
  <2>3. EndedEmpty'
    BY <1>21, SeenEvents DEF LeavesNothing, ToolsComplete, BatchEnds,
       BatchResults, stream, EndedEmpty, NothingKept, TypeInvariant, FlagType,
       Ordered, StreamFits, EndingFits, BetweenTurns, InTurn, Answered
  <2> QED BY <1>21, <2>1, <2>2, <2>3 DEF LeavesNothing, ToolsComplete,
     BatchEnds, StopRemembered
<1>22. CASE ToolsStopped
  <2>1. StopRemembered'
    BY <1>22, SeenEvents DEF LeavesNothing, ToolsStopped, BatchEnds,
       BatchResults, StopRemembered, TypeInvariant, FlagType
  <2>2. OuterEmpty'
    BY <1>22, SeenEvents DEF LeavesNothing, ToolsStopped, BatchEnds,
       BatchResults, OuterEmpty, TypeInvariant, FlagType
  <2>3. EndsEmpty'
    BY <1>22, SeenEvents, Scripts DEF LeavesNothing, ToolsStopped, BatchEnds,
       BatchResults, stream, env, EndsEmpty, NothingKept, TypeInvariant,
       FlagType, P!FinalReasons, StopRemembered, OuterEmpty
  <2>4. EndedEmpty'
    BY <1>22, SeenEvents DEF LeavesNothing, ToolsStopped, BatchEnds,
       BatchResults, stream, EndedEmpty, NothingKept, TypeInvariant, FlagType,
       Ordered, StreamFits, EndingFits, BetweenTurns, InTurn, Answered
  <2> QED BY <1>22, <2>1, <2>2, <2>3, <2>4 DEF LeavesNothing
<1>23. CASE ToolsInterrupted
  <2>1. OuterEmpty'
    BY <1>23, SeenEvents DEF LeavesNothing, ToolsInterrupted, BatchEnds,
       BatchResults, OuterEmpty, TypeInvariant, FlagType
  <2>2. EndsEmpty'
    BY <1>23, SeenEvents, Scripts DEF LeavesNothing, ToolsInterrupted,
       BatchEnds, BatchResults, stream, env, EndsEmpty, NothingKept,
       TypeInvariant, FlagType, P!FinalReasons, StopRemembered, OuterEmpty
  <2>3. EndedEmpty'
    BY <1>23, SeenEvents DEF LeavesNothing, ToolsInterrupted, BatchEnds,
       BatchResults, stream, EndedEmpty, NothingKept, TypeInvariant, FlagType,
       Ordered, StreamFits, EndingFits, BetweenTurns, InTurn, Answered
  <2> QED BY <1>23, <2>1, <2>2, <2>3 DEF LeavesNothing, ToolsInterrupted,
     BatchEnds, StopRemembered
<1>24. CASE ToolsAborted
  <2>1. OuterEmpty'
    BY <1>24, SeenEvents DEF LeavesNothing, ToolsAborted, BatchEnds,
       BatchResults, OuterEmpty, TypeInvariant, FlagType
  <2>2. EndsEmpty'
    BY <1>24, SeenEvents, Scripts DEF LeavesNothing, ToolsAborted, BatchEnds,
       BatchResults, stream, env, EndsEmpty, NothingKept, TypeInvariant,
       FlagType, P!FinalReasons, StopRemembered, OuterEmpty
  <2>3. EndedEmpty'
    BY <1>24, SeenEvents DEF LeavesNothing, ToolsAborted, BatchEnds,
       BatchResults, stream, EndedEmpty, NothingKept, TypeInvariant, FlagType,
       Ordered, StreamFits, EndingFits, BetweenTurns, InTurn, Answered
  <2> QED BY <1>24, <2>1, <2>2, <2>3 DEF LeavesNothing, ToolsAborted,
     BatchEnds, StopRemembered
<1>25. CASE ToolsUndelivered
  <2>1. OuterEmpty'
    BY <1>25, SeenEvents DEF LeavesNothing, ToolsUndelivered, OuterEmpty,
       TypeInvariant, FlagType
  <2>2. EndsEmpty'
    BY <1>25, SeenEvents, Scripts DEF LeavesNothing, ToolsUndelivered, stream,
       env, history, EndsEmpty, NothingKept, TypeInvariant, FlagType,
       P!FinalReasons, StopRemembered, OuterEmpty
  <2>3. EndedEmpty'
    BY <1>25, SeenEvents DEF LeavesNothing, ToolsUndelivered, stream, history,
       EndedEmpty, NothingKept, TypeInvariant, FlagType, Ordered, StreamFits,
       EndingFits, BetweenTurns, InTurn, Answered
  <2> QED BY <1>25, <2>1, <2>2, <2>3 DEF LeavesNothing, ToolsUndelivered,
     turnVars, history, StopRemembered
<1>26. CASE CommitCancelled
  <2>1. StopRemembered'
    BY <1>26, SeenEvents DEF LeavesNothing, CommitCancelled,
       run_post_turn_policy_check, Ends, turnVars, StopRemembered,
       TypeInvariant, FlagType
  <2>2. OuterEmpty'
    BY <1>26, SeenEvents DEF LeavesNothing, CommitCancelled,
       run_post_turn_policy_check, Ends, OuterEmpty, TypeInvariant, FlagType
  <2>3. EndsEmpty'
    BY <1>26, SeenEvents, Scripts DEF LeavesNothing, CommitCancelled,
       run_post_turn_policy_check, Ends, stream, env, EndsEmpty, NothingKept,
       TypeInvariant, FlagType, P!FinalReasons, StopRemembered, OuterEmpty
  <2>4. EndedEmpty'
    BY <1>26, SeenEvents DEF LeavesNothing, CommitCancelled,
       run_post_turn_policy_check, Ends, stream, EndedEmpty, NothingKept,
       TypeInvariant, FlagType, Ordered, StreamFits, EndingFits, BetweenTurns,
       InTurn, Answered
  <2> QED BY <1>26, <2>1, <2>2, <2>3, <2>4 DEF LeavesNothing
<1>27. CASE CommitResults
  <2>1. StopRemembered'
    BY <1>27, SeenEvents DEF LeavesNothing, CommitResults,
       sync_loop_context_snapshot, run_post_turn_policy_check, Ends, emit,
       StopRemembered, TypeInvariant, FlagType
  <2>2. OuterEmpty'
    BY <1>27, SeenEvents DEF LeavesNothing, CommitResults,
       sync_loop_context_snapshot, run_post_turn_policy_check, Ends, emit,
       OuterEmpty, TypeInvariant, FlagType
  <2>3. EndsEmpty'
    BY <1>27, SeenEvents, Scripts DEF LeavesNothing, CommitResults,
       sync_loop_context_snapshot, run_post_turn_policy_check, Ends, stream,
       emit, env, EndsEmpty, NothingKept, TypeInvariant, FlagType,
       P!FinalReasons, StopRemembered, OuterEmpty
  <2>4. EndedEmpty'
    BY <1>27, SeenEvents DEF LeavesNothing, CommitResults,
       sync_loop_context_snapshot, run_post_turn_policy_check, Ends, stream,
       emit, EndedEmpty, NothingKept, TypeInvariant, FlagType, Ordered,
       StreamFits, EndingFits, BetweenTurns, InTurn, Answered
  <2> QED BY <1>27, <2>1, <2>2, <2>3, <2>4 DEF LeavesNothing
<1>28. CASE AfterTools
  <2>1. OuterEmpty'
    BY <1>28, SeenEvents DEF LeavesNothing, AfterTools, StopHonoured, Ends,
       OuterEmpty, TypeInvariant, FlagType
  <2>2. EndsEmpty'
    BY <1>28, SeenEvents, Scripts DEF LeavesNothing, AfterTools, StopHonoured,
       Ends, stream, env, history, EndsEmpty, NothingKept, TypeInvariant,
       FlagType, P!FinalReasons, StopRemembered, OuterEmpty
  <2>3. EndedEmpty'
    BY <1>28, SeenEvents DEF LeavesNothing, AfterTools, StopHonoured, Ends,
       stream, history, EndedEmpty, NothingKept, TypeInvariant, FlagType,
       Ordered, StreamFits, EndingFits, BetweenTurns, InTurn, Answered
  <2> QED BY <1>28, <2>1, <2>2, <2>3 DEF LeavesNothing, AfterTools, Ends,
     turnVars, history, StopRemembered
<1>29. CASE PostLoopContinue
  <2>1. OuterEmpty'
    BY <1>29, SeenEvents DEF LeavesNothing, PostLoopContinue, OuterEmpty,
       TypeInvariant, FlagType
  <2>2. EndsEmpty'
    BY <1>29, SeenEvents, Scripts DEF LeavesNothing, PostLoopContinue, stream,
       env, history, EndsEmpty, NothingKept, TypeInvariant, FlagType,
       P!FinalReasons, StopRemembered, OuterEmpty
  <2>3. EndedEmpty'
    BY <1>29, SeenEvents DEF LeavesNothing, PostLoopContinue, stream, history,
       EndedEmpty, NothingKept, TypeInvariant, FlagType, Ordered, StreamFits,
       EndingFits, BetweenTurns, InTurn, Answered
  <2> QED BY <1>29, <2>1, <2>2, <2>3 DEF LeavesNothing, PostLoopContinue,
     turnVars, history, StopRemembered
<1>30. CASE PostLoopStop
  <2>1. StopRemembered'
    BY <1>30, SeenEvents DEF LeavesNothing, PostLoopStop, Ends, turnVars,
       StopRemembered, TypeInvariant, FlagType
  <2>2. OuterEmpty'
    BY <1>30, SeenEvents DEF LeavesNothing, PostLoopStop, Ends, OuterEmpty,
       TypeInvariant, FlagType
  <2>3. EndsEmpty'
    BY <1>30, SeenEvents, Scripts DEF LeavesNothing, PostLoopStop, Ends,
       stream, env, EndsEmpty, NothingKept, TypeInvariant, FlagType,
       P!FinalReasons, StopRemembered, OuterEmpty
  <2>4. EndedEmpty'
    BY <1>30, SeenEvents DEF LeavesNothing, PostLoopStop, Ends, stream,
       EndedEmpty, NothingKept, TypeInvariant, FlagType, Ordered, StreamFits,
       EndingFits, BetweenTurns, InTurn, Answered
  <2> QED BY <1>30, <2>1, <2>2, <2>3, <2>4 DEF LeavesNothing
<1>31. CASE PostLoopInject
  <2>1. OuterEmpty'
    BY <1>31, SeenEvents DEF LeavesNothing, PostLoopInject, OuterEmpty,
       TypeInvariant, FlagType
  <2>2. EndsEmpty'
    BY <1>31, SeenEvents, Scripts DEF LeavesNothing, PostLoopInject, stream,
       env, history, EndsEmpty, NothingKept, TypeInvariant, FlagType,
       P!FinalReasons, StopRemembered, OuterEmpty
  <2>3. EndedEmpty'
    BY <1>31, SeenEvents DEF LeavesNothing, PostLoopInject, stream, history,
       EndedEmpty, NothingKept, TypeInvariant, FlagType, Ordered, StreamFits,
       EndingFits, BetweenTurns, InTurn, Answered
  <2> QED BY <1>31, <2>1, <2>2, <2>3 DEF LeavesNothing, PostLoopInject,
     turnVars, history, StopRemembered
<1>32. CASE PollFollowUp
  <2>1. OuterEmpty'
    BY <1>32, SeenEvents DEF LeavesNothing, PollFollowUp, Ends, OuterEmpty,
       TypeInvariant, FlagType
  <2>2. EndsEmpty'
    BY <1>32, SeenEvents, Scripts DEF LeavesNothing, PollFollowUp, Ends,
       stream, env, history, EndsEmpty, NothingKept, TypeInvariant, FlagType,
       P!FinalReasons, StopRemembered, OuterEmpty
  <2>3. EndedEmpty'
    BY <1>32, SeenEvents DEF LeavesNothing, PollFollowUp, Ends, stream,
       history, EndedEmpty, NothingKept, TypeInvariant, FlagType, Ordered,
       StreamFits, EndingFits, BetweenTurns, InTurn, Answered
  <2> QED BY <1>32, <2>1, <2>2, <2>3 DEF LeavesNothing, PollFollowUp, Ends,
     turnVars, history, StopRemembered
<1>33. CASE Ending
  <2>1. OuterEmpty'
    BY <1>33, SeenEvents DEF LeavesNothing, Ending, emit, OuterEmpty,
       TypeInvariant, FlagType
  <2>2. EndsEmpty'
    <3> SUFFICES ASSUME pc' = "ending", Len(script') = 1 PROVE NothingKept'
      BY DEF EndsEmpty
    <3>1. /\ pc = "ending" /\ ~closed /\ Sees(Head(script)) /\ script' = Tail(script)
          /\ Len(script) # 1
      BY <1>33 DEF Ending, emit, LastEvent
    <3>2. Closes(script)
      BY <3>1 DEF Ordered, EndingFits
    <3>3. Len(script) = 2
      <4>1. script \in Seq(LoopEvents) /\ script # <<>>
        BY <3>2, ScriptsGoOn DEF Closes
      <4>2. Len(Tail(script)) = Len(script) - 1 /\ Len(script) \in Nat
        BY <4>1
      <4> QED BY <3>1, <4>2
    <3>4. Head(script) = script[1] /\ script[1].type = "TurnEnd" /\ script[1].reason \in P!FinalReasons
      BY <3>2, <3>3, ScriptsGoOn, NextOfEnding
    <3>5. last' \in P!FinalReasons
      BY <3>1, <3>4, Seen
    <3> QED BY <3>5 DEF NothingKept
  <2>3. EndedEmpty'
    <3>1. pc = "ending" /\ UNCHANGED <<closed, pending, stopped>>
      BY <1>33 DEF Ending, env, history
    <3>2. run # "ended"
      BY <3>1 DEF LeavesNothing, EndedEmpty
    <3>3. CASE closed
      BY <1>33, <3>2, <3>3 DEF Ending, emit, stream, EndedEmpty
    <3>4. CASE ~closed
      <4>1. /\ Sees(Head(script)) /\ pc' = IF Len(script) = 1 THEN "returned" ELSE "ending"
        BY <1>33, <3>4 DEF Ending, emit, LastEvent
      <4>2. Closes(script) /\ Head(script) = script[1]
        BY <3>1, ScriptsGoOn DEF Ordered, EndingFits
      <4>3. CASE Len(script) = 1
        <5>1. last' = last
          BY <4>1, <4>2, <4>3, NextOfEnding, Seen
        <5>2. NothingKept
          BY <3>1, <3>4, <4>3 DEF LeavesNothing, EndsEmpty
        <5> QED BY <3>1, <4>1, <4>3, <5>1, <5>2 DEF EndedEmpty, NothingKept
      <4>4. CASE Len(script) # 1
        <5>1. script[1].type \in {"TurnStart", "MessageStart", "MessageEnd", "TurnEnd"}
          <6>1. \A n \in 1..5 : n # 1 => n = 2 \/ n = 3 \/ n = 4 \/ n = 5
            OBVIOUS
          <6>2. Len(script) = 2 \/ Len(script) = 3 \/ Len(script) = 4 \/ Len(script) = 5
            BY <4>2, <4>4, <6>1, NextOfEnding
          <6> QED BY <4>2, <6>2, NextOfEnding
        <5>2. run' = run
          BY <4>1, <4>2, <5>1, Seen
        <5> QED BY <3>2, <5>2 DEF EndedEmpty
      <4> QED BY <4>3, <4>4
    <3> QED BY <3>3, <3>4
  <2> QED BY <1>33, <2>1, <2>2, <2>3 DEF LeavesNothing, Ending, emit,
     turnVars, history, StopRemembered
<1>34. CASE Queue
  <2> QED BY <1>34 DEF LeavesNothing, Queue, turnVars, stream, history,
     StopRemembered, OuterEmpty, EndsEmpty, NothingKept, EndedEmpty
<1>35. CASE Cancel
  <2> QED BY <1>35 DEF LeavesNothing, Cancel, turnVars, stream, history,
     StopRemembered, OuterEmpty, EndsEmpty, NothingKept, EndedEmpty
<1>36. CASE DropStream
  <2>1. EndsEmpty'
    BY <1>36, SeenEvents, Scripts DEF LeavesNothing, DropStream, stream,
       history, EndsEmpty, NothingKept, TypeInvariant, FlagType,
       P!FinalReasons, StopRemembered, OuterEmpty
  <2> QED BY <1>36, <2>1 DEF LeavesNothing, DropStream, turnVars, stream,
     history, StopRemembered, OuterEmpty, EndedEmpty, NothingKept
<1>37. CASE Done
  <2> QED BY <1>37 DEF LeavesNothing, Done, vars, turnVars, stream, env,
     history, StopRemembered, OuterEmpty, EndsEmpty, NothingKept, EndedEmpty
<1>38. CASE UNCHANGED vars
  BY <1>38 DEF vars, snaps, queues, turnVars, stream, env, history,
     LeavesNothing, StopRemembered, OuterEmpty, EndsEmpty, NothingKept,
     EndedEmpty
<1> QED BY <1>1, <1>2, <1>3, <1>4, <1>5, <1>6, <1>7, <1>8, <1>9, <1>10, <1>11,
   <1>12, <1>13, <1>14, <1>15, <1>16, <1>17, <1>18, <1>19, <1>20, <1>21,
   <1>22, <1>23, <1>24, <1>25, <1>26, <1>27, <1>28, <1>29, <1>30, <1>31,
   <1>32, <1>33, <1>34, <1>35, <1>36, <1>37, <1>38 DEF Next, Loop, Turn,
   Model, Text, Tools, Outer, Env

-----------------------------------------------------------------------------
(* What a step does with the messages.                                     *)
Plain(s) == Users(s) \cap Messages = {}
Taken(q, taken, left) ==
  /\ Ids(q) = Ids(taken) \cup Ids(left)
  /\ Once(q) => Ids(taken) \cap Ids(left) = {} /\ Once(taken) /\ Once(left)
Extras == {<<>>, <<User("nudge")>>, <<User("injected")>>} \cup {Injected(k) : k \in 0..1}
Gains(taken) ==
  \E extra \in Extras : pending' = (pending \o extra) \o UserMessages(taken)
ContextQuiet ==
  Users(ctx') \cap Messages \subseteq Users(ctx) /\ (OnceIn(ctx) => OnceIn(ctx'))
Delivers ==
  /\ pending' = <<>> /\ ctx' \in {ctx \o pending, (ctx \o pending) \o <<Assistant(0)>>}
  /\ given' = given \cup Users(pending) /\ UNCHANGED <<steering, followUp, queued>>
TakesFrom(taken) ==
  \/ taken = <<>> /\ UNCHANGED <<steering, followUp>>
  \/ Taken(steering, taken, steering') /\ UNCHANGED followUp
  \/ Taken(followUp, taken, followUp') /\ UNCHANGED steering
Takes ==
  /\ ContextQuiet /\ UNCHANGED <<given, queued>>
  /\ \E taken \in Seq(Messages) : TakesFrom(taken) /\ Gains(taken)

LEMMA PlainOnes ==
  /\ Plain(<<>>)
  /\ \A s \in Seq(ResultMessages) : Plain(s)
  /\ \A x \in Message : x.role # "user" \/ x.id \notin Messages => Plain(<<x>>)
  /\ \A k \in 0..1 : Plain(Injected(k))
<1>1. \A k \in 0..1 : Users(Injected(k)) \subseteq {"injected"}
  BY Injections
<1>2. "injected" \notin Messages
  BY LoopAssumption
<1>3. \A k \in 0..1 : Plain(Injected(k))
  BY <1>1, <1>2 DEF Plain
<1>4. ASSUME NEW x \in Message, x.role # "user" \/ x.id \notin Messages PROVE Plain(<<x>>)
  BY <1>4, UsersOne DEF Plain
<1>5. Plain(<<>>) /\ \A s \in Seq(ResultMessages) : Plain(s)
  BY UsersNone DEF Plain
<1> QED BY <1>3, <1>4, <1>5

LEMMA ExtrasPlain == \A extra \in Extras : extra \in Context /\ Plain(extra)
<1>1. /\ User("nudge") \in Message /\ User("nudge").id \notin Messages
      /\ User("injected") \in Message /\ User("injected").id \notin Messages
  <2>1. User("nudge") \in Message /\ User("injected") \in Message
    BY Made DEF Senders
  <2> QED BY <2>1, LoopAssumption DEF User
<1>2. /\ <<User("nudge")>> \in Context /\ Plain(<<User("nudge")>>)
      /\ <<User("injected")>> \in Context /\ Plain(<<User("injected")>>)
  BY <1>1, PlainOnes, Contexts
<1>3. \A k \in 0..1 : Injected(k) \in Context /\ Plain(Injected(k))
  BY Injections, PlainOnes
<1>4. <<>> \in Context /\ Plain(<<>>)
  BY Contexts, PlainOnes
<1> QED BY <1>2, <1>3, <1>4 DEF Extras

LEMMA OnceJoined ==
  ASSUME NEW s \in Context, NEW t \in Context, OnceIn(s), OnceIn(t),
         Users(s) \cap Users(t) \cap Messages = {}
  PROVE  OnceIn(s \o t)
<1>1. /\ DOMAIN (s \o t) = 1..(Len(s) + Len(t)) /\ DOMAIN s = 1..Len(s) /\ DOMAIN t = 1..Len(t)
      /\ Len(s) \in Nat /\ Len(t) \in Nat
  BY DEF Context
<1>2. \A i \in DOMAIN s : (s \o t)[i] = s[i]
  BY DEF Context
<1>3. \A i \in DOMAIN (s \o t) : i \notin DOMAIN s => (s \o t)[i] = t[i - Len(s)]
  BY DEF Context
<1>4. \A i \in DOMAIN (s \o t) : i \in DOMAIN s \/ i - Len(s) \in DOMAIN t
  BY <1>1
<1> SUFFICES ASSUME NEW i \in DOMAIN (s \o t), NEW j \in DOMAIN (s \o t),
                    (s \o t)[i].role = "user", (s \o t)[i].id \in Messages,
                    (s \o t)[i] = (s \o t)[j]
             PROVE  i = j
  BY DEF OnceIn
<1>5. CASE i \in DOMAIN s /\ j \in DOMAIN s
  BY <1>2, <1>5 DEF OnceIn
<1>6. CASE i \in DOMAIN s /\ j \notin DOMAIN s
  <2>1. s[i].role = "user" /\ s[i].id \in Messages /\ s[i] = t[j - Len(s)]
        /\ j - Len(s) \in DOMAIN t
    BY <1>2, <1>3, <1>4, <1>6
  <2>2. s[i].id \in Users(s) /\ s[i].id \in Users(t)
    BY <1>6, <2>1, UsersIn
  <2> QED BY <2>1, <2>2
<1>7. CASE i \notin DOMAIN s /\ j \in DOMAIN s
  <2>1. s[j].role = "user" /\ s[j].id \in Messages /\ s[j] = t[i - Len(s)]
        /\ i - Len(s) \in DOMAIN t
    BY <1>2, <1>3, <1>4, <1>7
  <2>2. s[j].id \in Users(s) /\ s[j].id \in Users(t)
    BY <1>7, <2>1, UsersIn
  <2> QED BY <2>1, <2>2
<1>8. CASE i \notin DOMAIN s /\ j \notin DOMAIN s
  <2>1. /\ i - Len(s) \in DOMAIN t /\ j - Len(s) \in DOMAIN t
        /\ t[i - Len(s)].role = "user" /\ t[i - Len(s)].id \in Messages
        /\ t[i - Len(s)] = t[j - Len(s)]
    BY <1>3, <1>4, <1>8
  <2>2. i - Len(s) = j - Len(s)
    BY <2>1 DEF OnceIn
  <2> QED BY <1>1, <2>2
<1> QED BY <1>5, <1>6, <1>7, <1>8

LEMMA PlainJoined ==
  ASSUME NEW s \in Context, NEW t \in Context, Plain(t)
  PROVE  /\ Users(s \o t) \cap Messages = Users(s) \cap Messages
         /\ OnceIn(s) => OnceIn(s \o t)
<1>1. Users(s \o t) = Users(s) \cup Users(t)
  BY UsersJoin
<1>2. OnceIn(t)
  <2>1. \A i \in DOMAIN t : t[i].role = "user" => t[i].id \notin Messages
    BY UsersIn DEF Plain
  <2> QED BY <2>1 DEF OnceIn
<1> QED BY <1>1, <1>2, OnceJoined DEF Plain

LEMMA CompactedQuiet ==
  ASSUME ctx \in Context, NEW new \in run_context_transformers
  PROVE  Users(new) \subseteq Users(ctx) /\ (OnceIn(ctx) => OnceIn(new))
<1>1. PICK d \in Nat : Len(new) = Len(ctx) - d /\ \A i \in 1..Len(new) : new[i] = ctx[i + d]
  BY Compacted
<1>2. new \in Context /\ DOMAIN new = 1..Len(new) /\ DOMAIN ctx = 1..Len(ctx)
  BY Compacted DEF Context
<1>3. Len(ctx) \in Nat /\ Len(new) \in Nat
  BY <1>2 DEF Context
<1>4. ASSUME NEW i \in DOMAIN new PROVE i + d \in DOMAIN ctx /\ new[i] = ctx[i + d]
  <2>1. i \in 1..Len(new) /\ Len(new) + d = Len(ctx)
    BY <1>1, <1>2, <1>3
  <2>2. i + d \in 1..Len(ctx)
    BY <1>3, <2>1
  <2> QED BY <1>1, <1>2, <2>1, <2>2
<1>5. ASSUME NEW m \in Users(new) PROVE m \in Users(ctx)
  <2>1. PICK i \in DOMAIN new : new[i].role = "user" /\ new[i].id = m
    BY UsersIn
  <2>2. i + d \in DOMAIN ctx /\ ctx[i + d].role = "user" /\ ctx[i + d].id = m
    BY <1>4, <2>1
  <2> QED BY <2>2, UsersIn
<1>6. ASSUME OnceIn(ctx) PROVE OnceIn(new)
  <2> SUFFICES ASSUME NEW i \in DOMAIN new, NEW j \in DOMAIN new,
                      new[i].role = "user", new[i].id \in Messages, new[i] = new[j]
               PROVE  i = j
    BY DEF OnceIn
  <2>1. i + d = j + d
    BY <1>4, <1>6 DEF OnceIn
  <2> QED BY <1>1, <1>2, <1>3, <2>1
<1> QED BY <1>5, <1>6

(* A message without a queued one, at the end of the context, is quiet.    *)
LEMMA QuietAppend ==
  ASSUME ctx \in Context, NEW x \in Message, x.role # "user" \/ x.id \notin Messages,
         ctx' = Append(ctx, x)
  PROVE  ContextQuiet
<1>1. ctx' = ctx \o <<x>>
  BY DEF Context
<1>2. <<x>> \in Context /\ Plain(<<x>>)
  BY Contexts, PlainOnes
<1> QED BY <1>1, <1>2, PlainJoined DEF ContextQuiet

LEMMA QuietStill == ctx' = ctx => ContextQuiet
BY DEF ContextQuiet

(* What becomes of the pending messages when nothing is polled.            *)
LEMMA NothingTaken ==
  ASSUME TypeInvariant, ContextQuiet, UNCHANGED <<steering, followUp, given, queued>>,
         \/ pending' = pending
         \/ pending' = Append(pending, User("injected"))
         \/ \E k \in 0..1 : pending' = (pending \o Injected(k)) \o <<>>
  PROVE  Takes
<1>1. pending \in Context /\ User("injected") \in Message
  BY AtHand DEF TypeInvariant, ContextType
<1>2. UserMessages(<<>>) = <<>> /\ <<>> \in Seq(Messages)
  <2>1. <<>> \in Seq(Messages) /\ DOMAIN <<>> = {}
    OBVIOUS
  <2>2. UserMessages(<<>>) \in Seq(Message)
    BY <2>1, Polled DEF Context
  <2>3. DOMAIN UserMessages(<<>>) = {}
    BY <2>1 DEF UserMessages
  <2>4. \A s \in Seq(Message) : DOMAIN s = {} => s = <<>>
    OBVIOUS
  <2> QED BY <2>1, <2>2, <2>3, <2>4
<1>3. \E extra \in Extras : pending' = (pending \o extra) \o <<>>
  <2>1. CASE pending' = pending
    <3>1. pending = (pending \o <<>>) \o <<>>
      BY <1>1 DEF Context
    <3> QED BY <2>1, <3>1 DEF Extras
  <2>2. CASE pending' = Append(pending, User("injected"))
    <3>1. Append(pending, User("injected")) = (pending \o <<User("injected")>>) \o <<>>
      BY <1>1 DEF Context
    <3> QED BY <2>2, <3>1 DEF Extras
  <2>3. CASE \E k \in 0..1 : pending' = (pending \o Injected(k)) \o <<>>
    BY <2>3 DEF Extras
  <2> QED BY <2>1, <2>2, <2>3
<1>4. TakesFrom(<<>>) /\ Gains(<<>>)
  BY <1>2, <1>3 DEF TakesFrom, Gains
<1> QED BY <1>2, <1>4 DEF Takes

LEMMA NothingMoves ==
  TypeInvariant /\ UNCHANGED <<ctx, pending, steering, followUp, given, queued>> => Takes
BY QuietStill, NothingTaken

LEMMA PollTaken ==
  TypeInvariant =>
    /\ Taken(steering, Drained(steering, SteeringMode), Left(steering, SteeringMode))
    /\ Taken(followUp, Drained(followUp, FollowUpMode), Left(followUp, FollowUpMode))
    /\ Drained(steering, SteeringMode) \in Seq(Messages)
    /\ Drained(followUp, FollowUpMode) \in Seq(Messages)
BY Polls DEF TypeInvariant, QueueType, Taken

(* Each step delivers the pending messages, or takes some into them from   *)
(* one queue, or the host queues one.                                      *)
LEMMA Moves == TypeInvariant /\ [Next]_vars => Delivers \/ Takes \/ Queue
<1> SUFFICES ASSUME TypeInvariant, [Next]_vars PROVE Delivers \/ Takes \/ Queue
  OBVIOUS
<1>1. CASE Start
  BY <1>1, NothingMoves DEF Start, queues, env, history
<1>2. CASE InjectPending
  <2>1. ctx' \in {ctx \o pending, (ctx \o pending) \o <<Assistant(0)>>}
    BY <1>2 DEF InjectPending
  <2>2. pending' = <<>> /\ given' = given \cup Users(pending)
    BY <1>2 DEF InjectPending
  <2>3. UNCHANGED <<steering, followUp, queued>>
    BY <1>2 DEF InjectPending, queues, env
  <2> QED BY <2>1, <2>2, <2>3 DEF Delivers
<1>3. CASE Transform
  <2>1. ctx' \in run_context_transformers
    BY <1>3 DEF Transform
  <2>2. ContextQuiet
    BY <2>1, CompactedQuiet DEF TypeInvariant, ContextType, ContextQuiet
  <2>3. UNCHANGED <<pending, steering, followUp, given, queued>>
    BY <1>3 DEF Transform, queues, env, history
  <2> QED BY <2>2, <2>3, NothingTaken
<1>4. CASE PreTurnContinue
  BY <1>4, NothingMoves DEF PreTurnContinue, queues, env, history
<1>5. CASE PreTurnStop
  BY <1>5, NothingMoves DEF PreTurnStop, queues, env
<1>6. CASE PreTurnInject
  <2>1. User("injected") \in Message /\ User("injected").id \notin Messages
    BY AtHand, LoopAssumption DEF User
  <2>2. ctx' = Append(ctx, User("injected"))
    BY <1>6 DEF PreTurnInject
  <2>3. ContextQuiet
    BY <2>1, <2>2, QuietAppend DEF TypeInvariant, ContextType
  <2>4. UNCHANGED <<pending, steering, followUp, given, queued>>
    BY <1>6 DEF PreTurnInject, queues, env, history
  <2> QED BY <2>3, <2>4, NothingTaken
<1>7. CASE TurnStart
  BY <1>7, NothingMoves DEF TurnStart, queues, env, history
<1>8. CASE BeforeLlmCall
  BY <1>8, NothingMoves DEF BeforeLlmCall, queues, env, history
<1>9. CASE CallModel
  BY <1>9, NothingMoves DEF CallModel, queues, env, history
<1>10. ASSUME NEW a \in Answers, StreamAnswers(a) PROVE Delivers \/ Takes \/ Queue
  BY <1>10, NothingMoves DEF StreamAnswers, queues, env, history
<1>11. CASE StreamFails
  BY <1>11, NothingMoves DEF StreamFails, queues, env, history
<1>12. CASE StreamAborts
  BY <1>12, NothingMoves DEF StreamAborts, queues, env, history
<1>13. CASE StreamOverflows
  BY <1>13, NothingMoves DEF StreamOverflows, queues, env, history
<1>14. CASE attempt_overflow_recovery
  <2>1. PICK new \in run_context_transformers : ctx' \in {ctx, new, Append(new, Assistant(0))}
    BY <1>14 DEF attempt_overflow_recovery
  <2>2. /\ ctx \in Context /\ new \in Context /\ Assistant(0) \in Message
        /\ Assistant(0).role # "user"
    BY AtHand, Compacted DEF TypeInvariant, ContextType, Assistant
  <2>3. Users(new) \subseteq Users(ctx) /\ (OnceIn(ctx) => OnceIn(new))
    BY <2>2, CompactedQuiet
  <2>4. /\ Users(Append(new, Assistant(0))) \cap Messages = Users(new) \cap Messages
        /\ OnceIn(new) => OnceIn(Append(new, Assistant(0)))
    <3>1. Append(new, Assistant(0)) = new \o <<Assistant(0)>>
      BY <2>2 DEF Context
    <3>2. <<Assistant(0)>> \in Context /\ Plain(<<Assistant(0)>>)
      BY <2>2, Contexts, PlainOnes
    <3> QED BY <2>2, <3>1, <3>2, PlainJoined
  <2>5. ContextQuiet
    BY <2>1, <2>3, <2>4 DEF ContextQuiet
  <2>6. UNCHANGED <<pending, steering, followUp, given, queued>>
    BY <1>14 DEF attempt_overflow_recovery, queues, env, history
  <2> QED BY <2>5, <2>6, NothingTaken
<1>15. CASE overflow_error
  BY <1>15, NothingMoves DEF overflow_error, queues, env, history
<1>16. CASE handle_error_stop
  <2>1. Assistant(0) \in Message /\ Assistant(0).role # "user"
    BY AtHand DEF Assistant
  <2>2. ctx' = Append(ctx, Assistant(0)) /\ \E v : run_post_turn_policy_check(v)
    BY <1>16 DEF handle_error_stop, EndFailed
  <2>3. ContextQuiet
    BY <2>1, <2>2, QuietAppend DEF TypeInvariant, ContextType
  <2>4. pending' = pending \/ pending' = Append(pending, User("injected"))
    BY <2>2, PolicyAdds
  <2>5. UNCHANGED <<steering, followUp, given, queued>>
    BY <1>16 DEF handle_error_stop, EndFailed, queues, env
  <2> QED BY <2>3, <2>4, <2>5, NothingTaken
<1>17. CASE handle_stream_abort
  <2>1. Assistant(0) \in Message /\ Assistant(0).role # "user"
    BY AtHand DEF Assistant
  <2>2. ctx' = Append(ctx, Assistant(0)) /\ \E v : run_post_turn_policy_check(v)
    BY <1>17 DEF handle_stream_abort, EndFailed
  <2>3. ContextQuiet
    BY <2>1, <2>2, QuietAppend DEF TypeInvariant, ContextType
  <2>4. pending' = pending \/ pending' = Append(pending, User("injected"))
    BY <2>2, PolicyAdds
  <2>5. UNCHANGED <<steering, followUp, given, queued>>
    BY <1>17 DEF handle_stream_abort, EndFailed, queues, env
  <2> QED BY <2>3, <2>4, <2>5, NothingTaken
<1>18. CASE CommitText
  <2>1. Assistant(0) \in Message /\ Assistant(0).role # "user"
    BY AtHand DEF Assistant
  <2>2. ctx' = Append(ctx, Assistant(0)) /\ \E v : run_post_turn_policy_check(v)
    BY <1>18 DEF CommitText
  <2>3. ContextQuiet
    BY <2>1, <2>2, QuietAppend DEF TypeInvariant, ContextType
  <2>4. pending' = pending \/ pending' = Append(pending, User("injected"))
    BY <2>2, PolicyAdds
  <2>5. UNCHANGED <<steering, followUp, given, queued>>
    BY <1>18 DEF CommitText, queues, env
  <2> QED BY <2>3, <2>4, <2>5, NothingTaken
<1>19. CASE AfterText
  <2> DEFINE taken == Drained(steering, SteeringMode)
  <2>1. ctx' = ctx /\ UNCHANGED <<followUp, given, queued>>
    BY <1>19 DEF AfterText, env, history
  <2>2. CASE stop
    <3>1. UNCHANGED <<pending, steering>>
      BY <1>19, <2>2 DEF AfterText, StopHonoured
    <3> QED BY <2>1, <3>1, NothingMoves
  <2>3. CASE ~stop
    <3>1. steering' = Left(steering, SteeringMode)
      BY <1>19, <2>3 DEF AfterText, StopHonoured
    <3>2. \E extra \in {<<>>, <<User("nudge")>>} :
            pending' = (pending \o extra) \o UserMessages(taken)
      BY <1>19, <2>3 DEF AfterText, StopHonoured
    <3>3. Gains(taken)
      BY <3>2 DEF Gains, Extras
    <3>4. taken \in Seq(Messages) /\ TakesFrom(taken)
      BY <2>1, <3>1, PollTaken DEF TakesFrom
    <3> QED BY <2>1, <3>3, <3>4, QuietStill DEF Takes
  <2> QED BY <2>2, <2>3
<1>20. CASE CommitCalls
  <2> DEFINE call == Assistant(answer.calls)
             errors == ResultsOf(Whole + 1, answer.incomplete)
  <2>1. ctx \in Context /\ call \in Message /\ call.role # "user"
    BY AtHand DEF TypeInvariant, ContextType, Assistant
  <2>2. errors \in Context /\ Plain(errors)
    BY AtHand, Contexts, PlainOnes
  <2>3. <<call>> \in Context /\ Plain(<<call>>) /\ Append(ctx, call) = ctx \o <<call>>
    <3>1. \A x \in Message : Append(ctx, x) = ctx \o <<x>>
      BY <2>1 DEF Context
    <3> QED BY <2>1, <3>1, Contexts, PlainOnes
  <2> HIDE DEF call, errors
  <2>4. /\ Users(ctx \o <<call>>) \cap Messages = Users(ctx) \cap Messages
        /\ OnceIn(ctx) => OnceIn(ctx \o <<call>>)
        /\ ctx \o <<call>> \in Context
    BY <2>1, <2>3, PlainJoined, Contexts
  <2>5. /\ Users((ctx \o <<call>>) \o errors) \cap Messages = Users(ctx \o <<call>>) \cap Messages
        /\ OnceIn(ctx \o <<call>>) => OnceIn((ctx \o <<call>>) \o errors)
    BY <2>2, <2>4, PlainJoined
  <2>6. ctx' = (ctx \o <<call>>) \o errors
    BY <1>20, <2>3 DEF CommitCalls, call, errors
  <2>7. ContextQuiet
    BY <2>4, <2>5, <2>6 DEF ContextQuiet
  <2>8. UNCHANGED <<pending, steering, followUp, given, queued>>
    BY <1>20 DEF CommitCalls, queues, env, history
  <2> QED BY <2>7, <2>8, NothingTaken
<1>21. CASE ToolsComplete
  <2>1. \E next : BatchEnds(<<>>, next)
    BY <1>21 DEF ToolsComplete
  <2>2. \E k \in 0..1 : pending' = (pending \o Injected(k)) \o <<>>
    BY <2>1, BatchAdds, Contexts
  <2>3. ctx' = ctx /\ UNCHANGED <<steering, followUp, given, queued>>
    BY <1>21 DEF ToolsComplete, BatchEnds, env, history
  <2> QED BY <2>2, <2>3, QuietStill, NothingTaken
<1>22. CASE ToolsStopped
  <2>1. \E next : BatchEnds(<<>>, next)
    BY <1>22 DEF ToolsStopped
  <2>2. \E k \in 0..1 : pending' = (pending \o Injected(k)) \o <<>>
    BY <2>1, BatchAdds, Contexts
  <2>3. ctx' = ctx /\ UNCHANGED <<steering, followUp, given, queued>>
    BY <1>22 DEF ToolsStopped, BatchEnds, env, history
  <2> QED BY <2>2, <2>3, QuietStill, NothingTaken
<1>23. CASE ToolsInterrupted
  <2> DEFINE taken == Drained(steering, SteeringMode)
  <2>1. BatchEnds(UserMessages(taken), "commit")
    BY <1>23 DEF ToolsInterrupted
  <2>2. UserMessages(taken) \in Context
    BY AtHand
  <2>3. \E k \in 0..1 : pending' = (pending \o Injected(k)) \o UserMessages(taken)
    BY <2>1, <2>2, BatchAdds
  <2>4. Gains(taken)
    BY <2>3 DEF Gains, Extras
  <2>5. steering' = Left(steering, SteeringMode)
    BY <1>23 DEF ToolsInterrupted
  <2>6. ctx' = ctx /\ UNCHANGED <<followUp, given, queued>>
    BY <2>1 DEF BatchEnds, env
  <2>7. taken \in Seq(Messages) /\ TakesFrom(taken)
    BY <2>5, <2>6, PollTaken DEF TakesFrom
  <2> QED BY <2>4, <2>6, <2>7, QuietStill DEF Takes
<1>24. CASE ToolsAborted
  <2>1. \E next : BatchEnds(<<>>, next)
    BY <1>24 DEF ToolsAborted
  <2>2. \E k \in 0..1 : pending' = (pending \o Injected(k)) \o <<>>
    BY <2>1, BatchAdds, Contexts
  <2>3. ctx' = ctx /\ UNCHANGED <<steering, followUp, given, queued>>
    BY <1>24 DEF ToolsAborted, BatchEnds, env, history
  <2> QED BY <2>2, <2>3, QuietStill, NothingTaken
<1>25. CASE ToolsUndelivered
  BY <1>25, NothingMoves DEF ToolsUndelivered, queues, env, history
<1>26. CASE CommitCancelled
  <2>1. ctx' = ctx \o results /\ \E v : run_post_turn_policy_check(v)
    BY <1>26 DEF CommitCancelled
  <2>2. ctx \in Context /\ results \in Context /\ Plain(results)
    BY AtHand, PlainOnes DEF TypeInvariant, ContextType
  <2>3. ContextQuiet
    BY <2>1, <2>2, PlainJoined DEF ContextQuiet
  <2>4. pending' = pending \/ pending' = Append(pending, User("injected"))
    BY <2>1, PolicyAdds
  <2>5. UNCHANGED <<steering, followUp, given, queued>>
    BY <1>26 DEF CommitCancelled, queues, env
  <2> QED BY <2>3, <2>4, <2>5, NothingTaken
<1>27. CASE CommitResults
  <2>1. ctx' = ctx \o results /\ \E v : run_post_turn_policy_check(v)
    BY <1>27 DEF CommitResults
  <2>2. ctx \in Context /\ results \in Context /\ Plain(results)
    BY AtHand, PlainOnes DEF TypeInvariant, ContextType
  <2>3. ContextQuiet
    BY <2>1, <2>2, PlainJoined DEF ContextQuiet
  <2>4. pending' = pending \/ pending' = Append(pending, User("injected"))
    BY <2>1, PolicyAdds
  <2>5. UNCHANGED <<steering, followUp, given, queued>>
    BY <1>27 DEF CommitResults, queues, env
  <2> QED BY <2>3, <2>4, <2>5, NothingTaken
<1>28. CASE AfterTools
  <2> DEFINE poll == pc = "aftertools" /\ ~interrupted
             taken == Drained(steering, SteeringMode)
  <2>0. pending \in Context
    BY DEF TypeInvariant, ContextType
  <2>1. ctx' = ctx /\ UNCHANGED <<followUp, given, queued>>
    BY <1>28 DEF AfterTools, env, history
  <2>2. CASE stop
    <3>1. UNCHANGED <<pending, steering>>
      BY <1>28, <2>2 DEF AfterTools, StopHonoured
    <3> QED BY <2>1, <3>1, NothingMoves
  <2>3. CASE ~stop /\ poll
    <3>1. steering' = Left(steering, SteeringMode) /\ pending' = pending \o UserMessages(taken)
      BY <1>28, <2>3 DEF AfterTools, StopHonoured
    <3>2. pending \o <<>> = pending
      BY <2>0 DEF Context
    <3>3. Gains(taken)
      BY <3>1, <3>2 DEF Gains, Extras
    <3>4. taken \in Seq(Messages) /\ TakesFrom(taken)
      BY <2>1, <3>1, PollTaken DEF TakesFrom
    <3> QED BY <2>1, <3>3, <3>4, QuietStill DEF Takes
  <2>4. CASE ~stop /\ ~poll
    <3>1. steering' = steering /\ pending' = pending \o UserMessages(<<>>)
      BY <1>28, <2>4 DEF AfterTools, StopHonoured
    <3>2. pending \o <<>> = pending
      BY <2>0 DEF Context
    <3>3. Gains(<<>>)
      BY <3>1, <3>2 DEF Gains, Extras
    <3>4. <<>> \in Seq(Messages) /\ TakesFrom(<<>>)
      BY <2>1, <3>1 DEF TakesFrom
    <3> QED BY <2>1, <3>3, <3>4, QuietStill DEF Takes
  <2> QED BY <2>2, <2>3, <2>4
<1>29. CASE PostLoopContinue
  BY <1>29, NothingMoves DEF PostLoopContinue, queues, env, history
<1>30. CASE PostLoopStop
  BY <1>30, NothingMoves DEF PostLoopStop, queues, env
<1>31. CASE PostLoopInject
  <2>1. pending' = Append(pending, User("injected"))
    BY <1>31 DEF PostLoopInject
  <2>2. ctx' = ctx /\ UNCHANGED <<steering, followUp, given, queued>>
    BY <1>31 DEF PostLoopInject, queues, env, history
  <2> QED BY <2>1, <2>2, QuietStill, NothingTaken
<1>32. CASE PollFollowUp
  <2> DEFINE taken == Drained(followUp, FollowUpMode)
  <2>0. pending \in Context
    BY DEF TypeInvariant, ContextType
  <2>1. ctx' = ctx /\ UNCHANGED <<steering, given, queued>>
    BY <1>32 DEF PollFollowUp, env, history
  <2>2. CASE taken = <<>>
    <3>1. UNCHANGED <<pending, followUp>>
      BY <1>32, <2>2 DEF PollFollowUp
    <3> QED BY <2>1, <3>1, NothingMoves
  <2>3. CASE taken # <<>>
    <3>1. followUp' = Left(followUp, FollowUpMode) /\ pending' = pending \o UserMessages(taken)
      BY <1>32, <2>3 DEF PollFollowUp
    <3>2. pending \o <<>> = pending
      BY <2>0 DEF Context
    <3>3. Gains(taken)
      BY <3>1, <3>2 DEF Gains, Extras
    <3>4. taken \in Seq(Messages) /\ TakesFrom(taken)
      BY <2>1, <3>1, PollTaken DEF TakesFrom
    <3> QED BY <2>1, <3>3, <3>4, QuietStill DEF Takes
  <2> QED BY <2>2, <2>3
<1>33. CASE Ending
  BY <1>33, NothingMoves DEF Ending, queues, env, history
<1>34. CASE Queue
  BY <1>34
<1>35. CASE Cancel
  BY <1>35, NothingMoves DEF Cancel, queues, history
<1>36. CASE DropStream
  BY <1>36, NothingMoves DEF DropStream, queues, history
<1>37. CASE Done
  BY <1>37, NothingMoves DEF Done, vars, queues, env, history
<1>38. CASE UNCHANGED vars
  BY <1>38, NothingMoves DEF vars, queues, env, history
<1> QED BY <1>1, <1>2, <1>3, <1>4, <1>5, <1>6, <1>7, <1>8, <1>9, <1>10, <1>11,
   <1>12, <1>13, <1>14, <1>15, <1>16, <1>17, <1>18, <1>19, <1>20, <1>21,
   <1>22, <1>23, <1>24, <1>25, <1>26, <1>27, <1>28, <1>29, <1>30, <1>31,
   <1>32, <1>33, <1>34, <1>35, <1>36, <1>37, <1>38 DEF Next, Loop, Turn,
   Model, Text, Tools, Outer, Env

(* Each queued message stays in one place.                                 *)
LEMMA Gained ==
  ASSUME TypeInvariant, NEW taken \in Seq(Messages), Gains(taken)
  PROVE  /\ Users(pending') \cap Messages = (Users(pending) \cap Messages) \cup Ids(taken)
         /\ OnceIn(pending) /\ Once(taken) /\ Ids(taken) \cap Users(pending) = {}
              => OnceIn(pending')
<1>1. PICK extra \in Extras : pending' = (pending \o extra) \o UserMessages(taken)
  BY DEF Gains
<1>2. pending \in Context /\ extra \in Context /\ Plain(extra)
  BY ExtrasPlain DEF TypeInvariant, ContextType
<1> DEFINE first == pending \o extra
           rest == UserMessages(taken)
<1>3. /\ first \in Context /\ Users(first) \cap Messages = Users(pending) \cap Messages
      /\ OnceIn(pending) => OnceIn(first)
  BY <1>2, PlainJoined, Contexts
<1>4. rest \in Context /\ Users(rest) = Ids(taken) /\ (Once(taken) => OnceIn(rest))
  BY Polled
<1> HIDE DEF first, rest
<1>5. Users(first \o rest) = Users(first) \cup Users(rest)
  BY <1>3, <1>4, UsersJoin
<1>6. Ids(taken) \subseteq Messages
  BY DEF Ids
<1>7. Users(first \o rest) \cap Messages = (Users(pending) \cap Messages) \cup Ids(taken)
  BY <1>3, <1>4, <1>5, <1>6
<1>8. ASSUME OnceIn(pending), Once(taken), Ids(taken) \cap Users(pending) = {}
      PROVE  OnceIn(first \o rest)
  <2>1. Users(first) \cap Users(rest) \cap Messages = {}
    BY <1>3, <1>4, <1>8
  <2> QED BY <1>3, <1>4, <1>8, <2>1, OnceJoined
<1>9. pending' = first \o rest
  BY <1>1 DEF first, rest
<1> QED BY <1>7, <1>8, <1>9

LEMMA Queued ==
  ASSUME NEW q \in Seq(Messages), NEW m \in Messages
  PROVE  /\ Ids(Append(q, m)) = Ids(q) \cup {m}
         /\ Once(q) /\ m \notin Ids(q) => Once(Append(q, m))
<1>1. /\ Len(q) \in Nat /\ DOMAIN q = 1..Len(q) /\ DOMAIN Append(q, m) = 1..(Len(q) + 1)
      /\ \A i \in 1..Len(q) : Append(q, m)[i] = q[i]
      /\ Append(q, m)[Len(q) + 1] = m
  OBVIOUS
<1>2. \A i \in 1..(Len(q) + 1) : i \in 1..Len(q) \/ i = Len(q) + 1
  BY <1>1
<1>3. \A i \in 1..Len(q) : i \in 1..(Len(q) + 1)
  BY <1>1
<1>4. Len(q) + 1 \in 1..(Len(q) + 1)
  BY <1>1
<1>5. Ids(Append(q, m)) = Ids(q) \cup {m}
  BY <1>1, <1>2, <1>3, <1>4 DEF Ids
<1>6. Once(q) /\ m \notin Ids(q) => Once(Append(q, m))
  BY <1>1, <1>2 DEF Ids, Once
<1> QED BY <1>5, <1>6

LEMMA KeptStep == TypeInvariant /\ Kept /\ [Next]_vars => Kept'
<1> SUFFICES ASSUME TypeInvariant, Kept, [Next]_vars PROVE Kept'
  OBVIOUS
<1>1. CASE Queue
  <2>1. PICK m \in Messages \ queued :
          /\ queued' = queued \cup {m}
          /\ \/ steering' = Append(steering, m) /\ followUp' = followUp
             \/ followUp' = Append(followUp, m) /\ steering' = steering
    BY <1>1 DEF Queue
  <2>2. UNCHANGED <<ctx, pending, given>>
    BY <1>1 DEF Queue, history
  <2>3. /\ Ids(Append(steering, m)) = Ids(steering) \cup {m}
        /\ Ids(Append(followUp, m)) = Ids(followUp) \cup {m}
        /\ Once(steering) /\ m \notin Ids(steering) => Once(Append(steering, m))
        /\ Once(followUp) /\ m \notin Ids(followUp) => Once(Append(followUp, m))
    BY Queued DEF TypeInvariant, QueueType
  <2>4. /\ m \notin Ids(steering) /\ m \notin Ids(followUp) /\ m \notin Users(pending)
        /\ m \notin given
    BY <2>1 DEF Kept, Placed
  <2>5. Placed'
    BY <2>1, <2>2, <2>3 DEF Kept, Placed
  <2>6. Apart'
    BY <2>1, <2>2, <2>3, <2>4 DEF Kept, Apart
  <2>7. OncePlaced'
    BY <2>1, <2>2, <2>3, <2>4 DEF Kept, OncePlaced
  <2> QED BY <2>5, <2>6, <2>7 DEF Kept
<1>2. CASE Delivers
  <2>1. ctx \in Context /\ pending \in Context /\ <<Assistant(0)>> \in Context
    BY AtHand DEF TypeInvariant, ContextType
  <2>2. Plain(<<Assistant(0)>>)
    BY PlainOnes, AtHand DEF Assistant
  <2>3. Users(pending') = {} /\ OnceIn(pending')
    BY <1>2, UsersNone DEF Delivers, OnceIn
  <2>4. ctx \o pending \in Context /\ Users(ctx \o pending) = Users(ctx) \cup Users(pending)
    BY <2>1, Contexts, UsersJoin
  <2>5. Users(ctx) \cap Users(pending) \cap Messages = {}
    BY DEF Kept, Placed, Apart
  <2>6. OnceIn(ctx \o pending)
    BY <2>1, <2>5, OnceJoined DEF Kept, OncePlaced
  <2>7. Users(ctx') \cap Messages = (Users(ctx) \cup Users(pending)) \cap Messages /\ OnceIn(ctx')
    BY <1>2, <2>1, <2>2, <2>4, <2>6, PlainJoined, ZenonT(40) DEF Delivers
  <2>8. given' = given \cup Users(pending) /\ UNCHANGED <<steering, followUp, queued>>
    BY <1>2 DEF Delivers
  <2>9. Placed'
    BY <2>3, <2>7, <2>8 DEF Kept, Placed
  <2>10. Apart'
    BY <2>3, <2>8 DEF Kept, Apart
  <2>11. OncePlaced'
    BY <2>3, <2>7, <2>8 DEF Kept, OncePlaced
  <2> QED BY <2>9, <2>10, <2>11 DEF Kept
<1>3. CASE Takes
  <2>1. PICK taken \in Seq(Messages) : TakesFrom(taken) /\ Gains(taken)
    BY <1>3 DEF Takes
  <2>2. /\ Users(ctx') \cap Messages \subseteq Users(ctx) /\ OnceIn(ctx')
        /\ given' = given /\ queued' = queued
    BY <1>3 DEF Takes, ContextQuiet, Kept, OncePlaced
  <2>3. /\ Users(pending') \cap Messages = (Users(pending) \cap Messages) \cup Ids(taken)
        /\ Once(taken) /\ Ids(taken) \cap Users(pending) = {} => OnceIn(pending')
    BY <2>1, Gained DEF Kept, OncePlaced
  <2>4. /\ Ids(steering) \subseteq Messages /\ Ids(followUp) \subseteq Messages
        /\ Ids(taken) \subseteq Messages /\ queued \subseteq Messages
    BY DEF TypeInvariant, QueueType, Ids
  <2>5. CASE taken = <<>> /\ UNCHANGED <<steering, followUp>>
    <3>1. Ids(taken) = {} /\ Once(taken)
      BY <2>5 DEF Ids, Once
    <3>2. Placed' /\ Apart'
      BY <2>2, <2>3, <2>4, <2>5, <3>1 DEF Kept, Placed, Apart
    <3>3. OncePlaced'
      BY <2>2, <2>3, <2>5, <3>1 DEF Kept, OncePlaced
    <3> QED BY <3>2, <3>3 DEF Kept
  <2>6. CASE Taken(steering, taken, steering') /\ followUp' = followUp
    <3>1. /\ Ids(steering) = Ids(taken) \cup Ids(steering')
          /\ Ids(taken) \cap Ids(steering') = {} /\ Once(taken) /\ Once(steering')
      BY <2>6 DEF Taken, Kept, OncePlaced
    <3>2. Placed'
      BY <2>2, <2>3, <2>4, <2>6, <3>1 DEF Kept, Placed
    <3>3. Apart'
      BY <2>2, <2>3, <2>4, <2>6, <3>1 DEF Kept, Apart
    <3>4. OncePlaced'
      BY <2>2, <2>3, <2>6, <3>1 DEF Kept, OncePlaced, Apart
    <3> QED BY <3>2, <3>3, <3>4 DEF Kept
  <2>7. CASE Taken(followUp, taken, followUp') /\ steering' = steering
    <3>1. /\ Ids(followUp) = Ids(taken) \cup Ids(followUp')
          /\ Ids(taken) \cap Ids(followUp') = {} /\ Once(taken) /\ Once(followUp')
      BY <2>7 DEF Taken, Kept, OncePlaced
    <3>2. Placed'
      BY <2>2, <2>3, <2>4, <2>7, <3>1 DEF Kept, Placed
    <3>3. Apart'
      BY <2>2, <2>3, <2>4, <2>7, <3>1 DEF Kept, Apart
    <3>4. OncePlaced'
      BY <2>2, <2>3, <2>7, <3>1 DEF Kept, OncePlaced, Apart
    <3> QED BY <3>2, <3>3, <3>4 DEF Kept
  <2> QED BY <2>1, <2>5, <2>6, <2>7 DEF TakesFrom
<1> QED BY <1>1, <1>2, <1>3, Moves

LEMMA KeptInit == Init => Kept
<1> SUFFICES ASSUME Init PROVE Kept
  OBVIOUS
<1>1. User("prompt") \in Message /\ User("prompt").role = "user" /\ User("prompt").id = "prompt"
  BY Made DEF User, Senders
<1>2. ctx = <<User("prompt")>> /\ Users(ctx) = {"prompt"} /\ OnceIn(ctx)
  <2>1. ctx = <<User("prompt")>> /\ Users(ctx) = {"prompt"}
    BY <1>1, UsersOne DEF Init
  <2>2. DOMAIN ctx = {1}
    BY <2>1
  <2> QED BY <2>1, <2>2 DEF OnceIn
<1>3. /\ steering = <<>> /\ followUp = <<>> /\ pending = <<>> /\ queued = {}
      /\ given = {"prompt"}
  BY DEF Init
<1>4. DOMAIN <<>> = {}
  OBVIOUS
<1>5. Ids(<<>>) = {} /\ Users(<<>>) = {} /\ Once(<<>>) /\ OnceIn(<<>>)
  BY <1>4, UsersNone DEF Ids, Once, OnceIn
<1>6. "prompt" \notin Messages
  BY LoopAssumption
<1> QED BY <1>2, <1>3, <1>5, <1>6 DEF Kept, Placed, Apart, OncePlaced

(* The snapshots of a pause follow.                                         *)
LEMMA PublishedInit == Init => Published
BY DEF Init, Published, PendingShown, ContextShown

LEMMA PublishedStep == TypeInvariant /\ Published /\ [Next]_vars => Published'
<1> SUFFICES ASSUME TypeInvariant, Published, [Next]_vars PROVE Published'
  OBVIOUS
<1>1. CASE Start
  <2> QED BY <1>1 DEF Published, Start, emit, snaps, PendingShown,
     ContextShown
<1>2. CASE InjectPending
  <2>1. PendingShown'
    BY <1>2 DEF Published, InjectPending, NoAnswer,
       sync_loop_context_snapshot, Ends, PendingShown
  <2>2. ContextShown'
    <3>1. ctx \in Context /\ pending \in Context /\ ctx \o pending \in Context
      BY Contexts DEF TypeInvariant, ContextType
    <3>2. /\ snapCtx' = ctx \o pending
          /\ ctx' \in {ctx \o pending, (ctx \o pending) \o <<Assistant(0)>>}
      BY <1>2 DEF InjectPending, sync_loop_context_snapshot
    <3>3. <<Assistant(0)>> \in Context /\ Users(<<Assistant(0)>>) = {}
      BY AtHand, UsersOne DEF Assistant
    <3>4. Users((ctx \o pending) \o <<Assistant(0)>>) = Users(ctx \o pending)
      BY <3>1, <3>3, UsersJoin
    <3> QED BY <3>2, <3>4 DEF ContextShown
  <2> QED BY <1>2, <2>1, <2>2 DEF Published
<1>3. CASE Transform
  <2>1. ContextShown'
    BY <1>3 DEF Published, Transform, sync_loop_context_snapshot, ContextShown
  <2> QED BY <1>3, <2>1 DEF Published, Transform, PendingShown
<1>4. CASE PreTurnContinue
  <2> QED BY <1>4 DEF Published, PreTurnContinue, snaps, PendingShown,
     ContextShown
<1>5. CASE PreTurnStop
  <2> QED BY <1>5 DEF Published, PreTurnStop, Ends, snaps, PendingShown,
     ContextShown
<1>6. CASE PreTurnInject
  <2>1. ContextShown'
    BY <1>6 DEF Published, PreTurnInject, sync_loop_context_snapshot,
       ContextShown
  <2> QED BY <1>6, <2>1 DEF Published, PreTurnInject, PendingShown
<1>7. CASE TurnStart
  <2> QED BY <1>7 DEF Published, TurnStart, emit, snaps, PendingShown,
     ContextShown
<1>8. CASE BeforeLlmCall
  <2> QED BY <1>8 DEF Published, BeforeLlmCall, snaps, PendingShown,
     ContextShown
<1>9. CASE CallModel
  <2> QED BY <1>9 DEF Published, CallModel, emit, snaps, PendingShown,
     ContextShown
<1>10. ASSUME NEW a \in Answers, StreamAnswers(a) PROVE Published'
  <2> QED BY <1>10 DEF Published, StreamAnswers, emit, snaps, PendingShown,
     ContextShown
<1>11. CASE StreamFails
  <2> QED BY <1>11 DEF Published, StreamFails, emit, emit_unchecked, snaps,
     PendingShown, ContextShown
<1>12. CASE StreamAborts
  <2> QED BY <1>12 DEF Published, StreamAborts, emit, snaps, PendingShown,
     ContextShown
<1>13. CASE StreamOverflows
  <2> QED BY <1>13 DEF Published, StreamOverflows, snaps, PendingShown,
     ContextShown
<1>14. CASE attempt_overflow_recovery
  <2>1. ContextShown'
    <3>1. PICK new \in run_context_transformers :
            /\ snapCtx' = new
            /\ ctx' \in {new, Append(new, Assistant(0))}
      BY <1>14 DEF attempt_overflow_recovery, sync_loop_context_snapshot,
         any_compacted
    <3>2. new \in Context /\ Assistant(0) \in Message /\ Assistant(0).role # "user"
      BY AtHand, Compacted DEF TypeInvariant, ContextType, Assistant
    <3>3. Users(Append(new, Assistant(0))) = Users(new)
      BY <3>2, UsersAppend
    <3> QED BY <3>1, <3>3 DEF ContextShown
  <2> QED BY <1>14, <2>1 DEF Published, attempt_overflow_recovery, Ends,
     PendingShown
<1>15. CASE overflow_error
  <2> QED BY <1>15 DEF Published, overflow_error, emit_unchecked, snaps,
     PendingShown, ContextShown
<1>16. CASE handle_error_stop
  <2>1. PendingShown'
    BY <1>16 DEF Published, handle_error_stop, EndFailed,
       run_post_turn_policy_check, ExitFailed, Ends, PendingShown
  <2>2. ContextShown'
    <3>1. ctx' = Append(ctx, Assistant(0)) /\ snapCtx' = snapCtx
      BY <1>16 DEF handle_error_stop, EndFailed
    <3>2. ctx \in Context /\ Assistant(0) \in Message /\ Assistant(0).role # "user"
      BY AtHand DEF TypeInvariant, ContextType, Assistant
    <3>3. Users(Append(ctx, Assistant(0))) = Users(ctx)
      BY <3>2, UsersAppend
    <3> QED BY <3>1, <3>3 DEF Published, ContextShown
  <2> QED BY <1>16, <2>1, <2>2 DEF Published
<1>17. CASE handle_stream_abort
  <2>1. PendingShown'
    BY <1>17 DEF Published, handle_stream_abort, EndFailed,
       run_post_turn_policy_check, ExitFailed, Ends, PendingShown
  <2>2. ContextShown'
    <3>1. ctx' = Append(ctx, Assistant(0)) /\ snapCtx' = snapCtx
      BY <1>17 DEF handle_stream_abort, EndFailed
    <3>2. ctx \in Context /\ Assistant(0) \in Message /\ Assistant(0).role # "user"
      BY AtHand DEF TypeInvariant, ContextType, Assistant
    <3>3. Users(Append(ctx, Assistant(0))) = Users(ctx)
      BY <3>2, UsersAppend
    <3> QED BY <3>1, <3>3 DEF Published, ContextShown
  <2> QED BY <1>17, <2>1, <2>2 DEF Published
<1>18. CASE CommitText
  <2>1. PendingShown'
    BY <1>18 DEF Published, CommitText, sync_loop_context_snapshot,
       run_post_turn_policy_check, emit, PendingShown
  <2>2. ContextShown'
    BY <1>18 DEF Published, CommitText, sync_loop_context_snapshot,
       run_post_turn_policy_check, emit, ContextShown
  <2> QED BY <1>18, <2>1, <2>2 DEF Published
<1>19. CASE AfterText
  <2>1. PendingShown'
    BY <1>19 DEF Published, AfterText, StopHonoured, Ends, BreakInner,
       PendingShown
  <2> QED BY <1>19, <2>1 DEF Published, AfterText, Ends, ContextShown
<1>20. CASE CommitCalls
  <2>1. ContextShown'
    <3> DEFINE call == Assistant(answer.calls)
               errors == ResultsOf(Whole + 1, answer.incomplete)
    <3>1. /\ ctx \in Context /\ call \in Message /\ call.role # "user"
          /\ errors \in Seq(ResultMessages) /\ errors \in Context
      BY AtHand, Contexts DEF TypeInvariant, ContextType, Assistant
    <3> HIDE DEF call, errors
    <3>2. Append(ctx, call) \in Context /\ Users(Append(ctx, call)) = Users(ctx)
      BY <3>1, UsersAppend, Contexts
    <3>3. Users(errors) = {}
      BY <3>1, UsersNone
    <3>4. Users(Append(ctx, call) \o errors) = Users(ctx)
      <4>1. Users(Append(ctx, call) \o errors) = Users(Append(ctx, call)) \cup Users(errors)
        BY <3>1, <3>2, UsersJoin
      <4> QED BY <3>2, <3>3, <4>1
    <3>5. ctx' = Append(ctx, call) \o errors
      BY <1>20 DEF CommitCalls, call, errors
    <3>6. snapCtx' = snapCtx
      BY <1>20 DEF CommitCalls, snaps
    <3> QED BY <3>4, <3>5, <3>6 DEF Published, ContextShown
  <2> QED BY <1>20, <2>1 DEF Published, CommitCalls, snaps, PendingShown
<1>21. CASE ToolsComplete
  <2>1. PendingShown'
    BY <1>21 DEF Published, ToolsComplete, BatchEnds, BatchResults,
       PendingShown
  <2> QED BY <1>21, <2>1 DEF Published, ToolsComplete, BatchEnds, ContextShown
<1>22. CASE ToolsStopped
  <2>1. PendingShown'
    BY <1>22 DEF Published, ToolsStopped, BatchEnds, BatchResults,
       PendingShown
  <2> QED BY <1>22, <2>1 DEF Published, ToolsStopped, BatchEnds, ContextShown
<1>23. CASE ToolsInterrupted
  <2>1. PendingShown'
    BY <1>23 DEF Published, ToolsInterrupted, BatchEnds, BatchResults,
       PendingShown
  <2> QED BY <1>23, <2>1 DEF Published, ToolsInterrupted, BatchEnds,
     ContextShown
<1>24. CASE ToolsAborted
  <2>1. PendingShown'
    BY <1>24 DEF Published, ToolsAborted, BatchEnds, BatchResults,
       PendingShown
  <2> QED BY <1>24, <2>1 DEF Published, ToolsAborted, BatchEnds, ContextShown
<1>25. CASE ToolsUndelivered
  <2> QED BY <1>25 DEF Published, ToolsUndelivered, snaps, PendingShown,
     ContextShown
<1>26. CASE CommitCancelled
  <2>1. PendingShown'
    BY <1>26 DEF Published, CommitCancelled, run_post_turn_policy_check, Ends,
       PendingShown
  <2>2. ContextShown'
    <3>1. ctx' = ctx \o results /\ snapCtx' = snapCtx
      BY <1>26 DEF CommitCancelled
    <3>2. ctx \in Context /\ results \in Context /\ Users(results) = {}
      BY AtHand, UsersNone DEF TypeInvariant, ContextType
    <3>3. Users(ctx \o results) = Users(ctx)
      BY <3>2, UsersJoin
    <3> QED BY <3>1, <3>3 DEF Published, ContextShown
  <2> QED BY <1>26, <2>1, <2>2 DEF Published
<1>27. CASE CommitResults
  <2>1. PendingShown'
    BY <1>27 DEF Published, CommitResults, sync_loop_context_snapshot,
       run_post_turn_policy_check, Ends, emit, PendingShown
  <2>2. ContextShown'
    BY <1>27 DEF Published, CommitResults, sync_loop_context_snapshot,
       run_post_turn_policy_check, Ends, emit, ContextShown
  <2> QED BY <1>27, <2>1, <2>2 DEF Published
<1>28. CASE AfterTools
  <2>1. PendingShown'
    BY <1>28 DEF Published, AfterTools, StopHonoured, Ends, PendingShown
  <2> QED BY <1>28, <2>1 DEF Published, AfterTools, Ends, ContextShown
<1>29. CASE PostLoopContinue
  <2> QED BY <1>29 DEF Published, PostLoopContinue, snaps, PendingShown,
     ContextShown
<1>30. CASE PostLoopStop
  <2> QED BY <1>30 DEF Published, PostLoopStop, Ends, snaps, PendingShown,
     ContextShown
<1>31. CASE PostLoopInject
  <2>1. PendingShown'
    BY <1>31 DEF Published, PostLoopInject, PendingShown
  <2> QED BY <1>31, <2>1 DEF Published, PostLoopInject, ContextShown
<1>32. CASE PollFollowUp
  <2>1. PendingShown'
    BY <1>32 DEF Published, PollFollowUp, Ends, PendingShown
  <2> QED BY <1>32, <2>1 DEF Published, PollFollowUp, Ends, ContextShown
<1>33. CASE Ending
  <2> QED BY <1>33 DEF Published, Ending, emit, snaps, PendingShown,
     ContextShown
<1>34. CASE Queue
  <2> QED BY <1>34 DEF Published, Queue, snaps, PendingShown, ContextShown
<1>35. CASE Cancel
  <2> QED BY <1>35 DEF Published, Cancel, snaps, PendingShown, ContextShown
<1>36. CASE DropStream
  <2> QED BY <1>36 DEF Published, DropStream, snaps, PendingShown,
     ContextShown
<1>37. CASE Done
  <2> QED BY <1>37 DEF Published, Done, vars, snaps, PendingShown,
     ContextShown
<1>38. CASE UNCHANGED vars
  BY <1>38 DEF vars, snaps, queues, turnVars, stream, env, history, Published,
     PendingShown, ContextShown
<1> QED BY <1>1, <1>2, <1>3, <1>4, <1>5, <1>6, <1>7, <1>8, <1>9, <1>10, <1>11,
   <1>12, <1>13, <1>14, <1>15, <1>16, <1>17, <1>18, <1>19, <1>20, <1>21,
   <1>22, <1>23, <1>24, <1>25, <1>26, <1>27, <1>28, <1>29, <1>30, <1>31,
   <1>32, <1>33, <1>34, <1>35, <1>36, <1>37, <1>38 DEF Next, Loop, Turn,
   Model, Text, Tools, Outer, Env

-----------------------------------------------------------------------------
(* What is pending comes from users.                                       *)
LEMMA OnlyUsersJoined ==
  ASSUME NEW s \in Context, NEW t \in Context, OnlyUsers(s), OnlyUsers(t)
  PROVE  OnlyUsers(s \o t)
<1>1. /\ DOMAIN (s \o t) = 1..(Len(s) + Len(t)) /\ DOMAIN s = 1..Len(s) /\ DOMAIN t = 1..Len(t)
      /\ Len(s) \in Nat /\ Len(t) \in Nat
      /\ \A i \in DOMAIN (s \o t) :
           (s \o t)[i] = IF i \in DOMAIN s THEN s[i] ELSE t[i - Len(s)]
  BY DEF Context
<1>2. \A i \in DOMAIN (s \o t) : i \in DOMAIN s \/ i - Len(s) \in DOMAIN t
  BY <1>1
<1> QED BY <1>1, <1>2 DEF OnlyUsers

LEMMA UsersOnly ==
  /\ OnlyUsers(<<>>) /\ \A extra \in Extras : OnlyUsers(extra)
  /\ \A q \in Seq(Messages) : OnlyUsers(UserMessages(q))
<1>1. \A m : User(m).role = "user"
  BY DEF User
<1>2. DOMAIN <<>> = {} /\ \A x : DOMAIN <<x>> = {1} /\ <<x>>[1] = x
  OBVIOUS
<1>3. OnlyUsers(<<>>)
  BY <1>2 DEF OnlyUsers
<1>4. OnlyUsers(<<User("nudge")>>) /\ OnlyUsers(<<User("injected")>>)
  BY <1>1, <1>2 DEF OnlyUsers
<1>5. \A k \in 0..1 : OnlyUsers(Injected(k))
  BY <1>1 DEF OnlyUsers, Injected
<1>6. \A q \in Seq(Messages) : OnlyUsers(UserMessages(q))
  BY <1>1 DEF OnlyUsers, UserMessages
<1> QED BY <1>3, <1>4, <1>5, <1>6 DEF Extras

LEMMA FromUsersStep == TypeInvariant /\ FromUsers /\ [Next]_vars => FromUsers'
<1> SUFFICES ASSUME TypeInvariant, FromUsers, [Next]_vars PROVE FromUsers'
  OBVIOUS
<1>1. CASE Delivers
  BY <1>1, UsersOnly DEF Delivers, FromUsers
<1>2. CASE Takes
  <2>1. PICK taken \in Seq(Messages), extra \in Extras :
          pending' = (pending \o extra) \o UserMessages(taken)
    BY <1>2 DEF Takes, Gains
  <2>2. pending \in Context /\ extra \in Context /\ UserMessages(taken) \in Context
    BY ExtrasPlain, Polled DEF TypeInvariant, ContextType
  <2>3. pending \o extra \in Context /\ OnlyUsers(pending \o extra)
    BY <2>2, OnlyUsersJoined, UsersOnly, Contexts DEF FromUsers
  <2>4. OnlyUsers((pending \o extra) \o UserMessages(taken))
    BY <2>2, <2>3, OnlyUsersJoined, UsersOnly
  <2> QED BY <2>1, <2>4 DEF FromUsers
<1>3. CASE Queue
  BY <1>3 DEF Queue, FromUsers
<1> QED BY <1>1, <1>2, <1>3, Moves

(* How contexts with calls grow.                                           *)
LEMMA Joined ==
  ASSUME NEW s \in Context, NEW t \in Context
  PROVE  /\ DOMAIN s = 1..Len(s) /\ DOMAIN t = 1..Len(t)
         /\ Len(s) \in Nat /\ Len(t) \in Nat /\ Len(s \o t) = Len(s) + Len(t)
         /\ DOMAIN (s \o t) = 1..(Len(s) + Len(t))
         /\ \A i \in 1..Len(s) : (s \o t)[i] = s[i] /\ i \in DOMAIN (s \o t)
         /\ \A i \in 1..Len(t) : (s \o t)[Len(s) + i] = t[i] /\ Len(s) + i \in DOMAIN (s \o t)
         /\ \A i \in DOMAIN (s \o t) :
              i \in 1..Len(s) \/ (i - Len(s) \in 1..Len(t) /\ (s \o t)[i] = t[i - Len(s)])
BY DEF Context

LEMMA ResultKept ==
  ASSUME NEW s \in Context, NEW t \in Context, NEW k \in DOMAIN s, NEW c, HasResult(s, k, c)
  PROVE  HasResult(s \o t, k, c)
<1>1. PICK j \in DOMAIN s :
        /\ j > k /\ s[j].role = "result" /\ s[j].turn = s[k].turn /\ s[j].call = c
        /\ \A i \in (k + 1)..(j - 1) : s[i].role # "assistant"
  BY DEF HasResult
<1>2. j \in 1..Len(s) /\ k \in 1..Len(s)
  BY <1>1, Joined
<1>3. /\ j \in DOMAIN (s \o t) /\ (s \o t)[j] = s[j] /\ (s \o t)[k] = s[k]
  BY <1>2, Joined
<1>4. ASSUME NEW i \in (k + 1)..(j - 1) PROVE (s \o t)[i].role # "assistant"
  <2>1. Len(s) \in Nat
    BY Joined
  <2>2. i \in 1..Len(s)
    BY <1>2, <2>1
  <2> QED BY <1>1, <2>2, Joined
<1> QED BY <1>1, <1>3, <1>4 DEF HasResult

LEMMA SettledJoined ==
  ASSUME NEW s \in Context, NEW t \in Context, Settled(s),
         \A i \in 1..Len(t) : t[i].role = "assistant" => t[i].calls = 0
  PROVE  Settled(s \o t)
<1> SUFFICES ASSUME NEW k \in DOMAIN (s \o t), (s \o t)[k].role = "assistant",
                    NEW c \in 1..(s \o t)[k].calls
             PROVE  HasResult(s \o t, k, c)
  BY DEF Settled
<1>1. CASE k \in 1..Len(s)
  <2>1. k \in DOMAIN s /\ (s \o t)[k] = s[k]
    BY <1>1, Joined
  <2>2. HasResult(s, k, c)
    BY <2>1 DEF Settled
  <2> QED BY <2>1, <2>2, ResultKept
<1>2. CASE k - Len(s) \in 1..Len(t) /\ (s \o t)[k] = t[k - Len(s)]
  <2>1. (s \o t)[k].calls = 0
    BY <1>2
  <2> QED BY <2>1
<1> QED BY <1>1, <1>2, Joined

LEMMA OwesMore ==
  ASSUME NEW s, NEW now, NEW owed, NEW more, owed \subseteq more, Owes(s, now, owed)
  PROVE  Owes(s, now, more)
BY DEF Owes

(* The results of the calls settle what was owed.                          *)
LEMMA OwedSettled ==
  ASSUME NEW s \in Context, NEW t \in Seq(ResultMessages), NEW now,
         Owes(s, now, CallsIn(t)), \A i \in DOMAIN t : t[i].turn = now
  PROVE  Settled(s \o t)
<1>1. t \in Context
  BY Contexts
<1>2. \A i \in 1..Len(t) : t[i].role = "result"
  <2>1. \A i \in 1..Len(t) : t[i] \in ResultMessages
    OBVIOUS
  <2> QED BY <2>1 DEF ResultMessages
<1> SUFFICES ASSUME NEW k \in DOMAIN (s \o t), (s \o t)[k].role = "assistant",
                    NEW c \in 1..(s \o t)[k].calls
             PROVE  HasResult(s \o t, k, c)
  BY DEF Settled
<1>3. k \in 1..Len(s) /\ k \in DOMAIN s /\ (s \o t)[k] = s[k]
  <2>1. CASE k \in 1..Len(s)
    BY <1>1, <2>1, Joined
  <2>2. CASE k - Len(s) \in 1..Len(t) /\ (s \o t)[k] = t[k - Len(s)]
    BY <1>2, <2>2
  <2> QED BY <1>1, <2>1, <2>2, Joined
<1>4. CASE HasResult(s, k, c)
  BY <1>1, <1>3, <1>4, ResultKept
<1>5. CASE /\ c \in CallsIn(t) /\ s[k].turn = now
           /\ \A i \in (k + 1)..Len(s) : s[i].role # "assistant"
  <2>1. PICK n \in DOMAIN t : t[n].call = c
    BY <1>5 DEF CallsIn
  <2>2. n \in 1..Len(t) /\ Len(s) \in Nat /\ Len(t) \in Nat
    BY <1>1, Joined
  <2> DEFINE j == Len(s) + n
  <2>3. j \in DOMAIN (s \o t) /\ (s \o t)[j] = t[n]
    BY <1>1, <2>2, Joined
  <2>4. j > k /\ (s \o t)[j].role = "result" /\ (s \o t)[j].turn = (s \o t)[k].turn
    BY <1>2, <1>3, <1>5, <2>2, <2>3
  <2>5. ASSUME NEW i \in (k + 1)..(j - 1) PROVE (s \o t)[i].role # "assistant"
    <3>1. i \in 1..Len(s) \/ i - Len(s) \in 1..Len(t)
      BY <1>3, <2>2, SMTT(40)
    <3>2. CASE i \in 1..Len(s)
      <4>1. i \in (k + 1)..Len(s) /\ (s \o t)[i] = s[i]
        BY <1>1, <1>3, <3>2, Joined
      <4> QED BY <1>5, <4>1
    <3>3. CASE i - Len(s) \in 1..Len(t)
      <4>1. (s \o t)[Len(s) + (i - Len(s))] = t[i - Len(s)]
        BY <1>1, <3>3, Joined
      <4>2. Len(s) + (i - Len(s)) = i
        BY <2>2
      <4> QED BY <1>2, <3>3, <4>1, <4>2
    <3> QED BY <3>1, <3>2, <3>3
  <2> QED BY <2>1, <2>3, <2>4, <2>5 DEF HasResult
<1> QED BY <1>3, <1>4, <1>5 DEF Owes

(* A compacted context is settled if the context was.                      *)
LEMMA SettledSuffix ==
  ASSUME ctx \in Context, NEW new \in run_context_transformers, Settled(ctx)
  PROVE  Settled(new)
<1>1. PICK d \in Nat : Len(new) = Len(ctx) - d /\ \A i \in 1..Len(new) : new[i] = ctx[i + d]
  BY Compacted
<1>2. /\ new \in Context /\ DOMAIN new = 1..Len(new) /\ DOMAIN ctx = 1..Len(ctx)
      /\ Len(ctx) \in Nat /\ Len(new) \in Nat
  BY Compacted DEF Context
<1> SUFFICES ASSUME NEW k \in DOMAIN new, new[k].role = "assistant",
                    NEW c \in 1..new[k].calls
             PROVE  HasResult(new, k, c)
  BY DEF Settled
<1>3. k \in 1..Len(new) /\ k \in Nat /\ Len(new) + d = Len(ctx)
  BY <1>1, <1>2
<1>4. k + d \in DOMAIN ctx /\ ctx[k + d] = new[k]
  <2>1. k + d \in 1..Len(ctx)
    BY <1>2, <1>3
  <2> QED BY <1>1, <1>2, <1>3, <2>1
<1>5. HasResult(ctx, k + d, c)
  BY <1>4 DEF Settled
<1>6. PICK j \in DOMAIN ctx :
        /\ j > k + d /\ ctx[j].role = "result" /\ ctx[j].turn = ctx[k + d].turn
        /\ ctx[j].call = c
        /\ \A i \in ((k + d) + 1)..(j - 1) : ctx[i].role # "assistant"
  BY <1>5 DEF HasResult
<1>7. j - d \in 1..Len(new) /\ j - d > k /\ (j - d) + d = j
  BY <1>2, <1>3, <1>6
<1>8. new[j - d] = ctx[j]
  BY <1>1, <1>7
<1>9. ASSUME NEW i \in (k + 1)..((j - d) - 1) PROVE new[i].role # "assistant"
  <2>1. i \in 1..Len(new) /\ i + d \in ((k + d) + 1)..(j - 1)
    BY <1>2, <1>3, <1>7, SMTT(40)
  <2> QED BY <1>1, <1>6, <2>1
<1> QED BY <1>2, <1>4, <1>6, <1>7, <1>8, <1>9 DEF HasResult

(* The assistant message of this turn, with the errors of calls cut short. *)
LEMMA CallsCommitted ==
  ASSUME TypeInvariant, Settled(ctx)
  PROVE  Owes(Append(ctx, Assistant(answer.calls)) \o ResultsOf(Whole + 1, answer.incomplete),
              turn_index, 1..Whole)
<1> DEFINE call == Assistant(answer.calls)
           errors == ResultsOf(Whole + 1, answer.incomplete)
           first == Append(ctx, call)
           s == first \o errors
<1>1. /\ ctx \in Context /\ call \in Message /\ errors \in Context /\ first \in Context
      /\ errors \in Seq(ResultMessages)
  BY AtHand, Contexts DEF TypeInvariant, ContextType
<1>2. call.role = "assistant" /\ call.turn = turn_index /\ call.calls = answer.calls
  BY DEF Assistant
<1>3. /\ Whole \in Nat /\ answer.incomplete \in 0..1 /\ Whole + answer.incomplete = answer.calls
      /\ Whole <= MaxCalls /\ MaxCalls \in Nat
  BY AtHand, LoopAssumption
<1>4. /\ Len(errors) = answer.incomplete
      /\ \A i \in 1..answer.incomplete : errors[i] = Result(Whole + 1 + i - 1)
  <2>1. /\ turn_index \in Nat /\ Whole + 1 \in Nat \ {0} /\ answer.incomplete \in Nat
        /\ Whole + 1 + answer.incomplete - 1 <= MaxCalls
    BY <1>3 DEF TypeInvariant, PlaceType, TurnType
  <2> QED BY <2>1, ResultsMade
<1>5. \A i \in 1..Len(errors) : errors[i].role = "result" /\ errors[i].turn = turn_index
  <2>1. \A x : Result(x).role = "result" /\ Result(x).turn = turn_index
    BY DEF Result
  <2> QED BY <1>4, <2>1
<1>6. /\ Len(ctx) \in Nat /\ Len(first) = Len(ctx) + 1 /\ first[Len(ctx) + 1] = call
      /\ DOMAIN ctx = 1..Len(ctx) /\ first = ctx \o <<call>>
  <2>1. \A x \in Message : /\ Len(Append(ctx, x)) = Len(ctx) + 1
                           /\ Append(ctx, x)[Len(ctx) + 1] = x
                           /\ Append(ctx, x) = ctx \o <<x>>
    BY <1>1 DEF Context
  <2> QED BY <1>1, <2>1 DEF Context
<1>7. <<call>> \in Context
  BY <1>1, Contexts
<1> HIDE DEF call, errors, first
<1> SUFFICES ASSUME NEW k \in DOMAIN s, s[k].role = "assistant", NEW c \in 1..s[k].calls
             PROVE  \/ HasResult(s, k, c)
                    \/ /\ c \in 1..Whole /\ s[k].turn = turn_index
                       /\ \A i \in (k + 1)..Len(s) : s[i].role # "assistant"
  BY DEF Owes, call, errors, first
<1>8. k \in 1..Len(first) /\ s[k] = first[k]
  <2>1. CASE k \in 1..Len(first)
    BY <1>1, <2>1, Joined
  <2>2. CASE k - Len(first) \in 1..Len(errors) /\ s[k] = errors[k - Len(first)]
    BY <1>5, <2>2
  <2> QED BY <1>1, <2>1, <2>2, Joined
<1>9. CASE k \in 1..Len(ctx)
  <2>1. first[k] = ctx[k] /\ k \in DOMAIN ctx /\ k \in DOMAIN first
    BY <1>1, <1>6, <1>7, <1>9, Joined
  <2>2. HasResult(ctx, k, c)
    BY <1>8, <2>1 DEF Settled
  <2>3. HasResult(first, k, c)
    BY <1>1, <1>6, <1>7, <2>1, <2>2, ResultKept
  <2> QED BY <1>1, <2>1, <2>3, ResultKept
<1>10. CASE k = Len(ctx) + 1
  <2>1. s[k] = call /\ c \in 1..answer.calls
    BY <1>2, <1>6, <1>8, <1>10
  <2>2. Len(first) = k /\ Len(s) = k + Len(errors) /\ Len(errors) \in Nat /\ k \in Nat
    BY <1>1, <1>6, <1>10, Joined
  <2>3. ASSUME NEW i \in (k + 1)..Len(s) PROVE s[i].role # "assistant"
    <3>1. i - k \in 1..Len(errors) /\ k + (i - k) = i
      BY <2>2
    <3>2. s[Len(first) + (i - k)] = errors[i - k]
      BY <1>1, <3>1, Joined
    <3>3. s[i] = errors[i - k]
      BY <2>2, <3>1, <3>2
    <3> QED BY <1>5, <3>1, <3>3
  <2>4. CASE c \in 1..Whole
    BY <1>2, <2>1, <2>3, <2>4
  <2>5. CASE c \notin 1..Whole
    <3>1. c = Whole + 1 /\ answer.incomplete = 1 /\ 1 \in 1..answer.incomplete
      BY <1>3, <2>1, <2>5
    <3>2. Len(errors) = 1 /\ errors[1] = Result(Whole + 1 + 1 - 1)
      BY <1>4, <3>1
    <3>3. Whole + 1 + 1 - 1 = c
      BY <1>3, <3>1
    <3>4. errors[1].role = "result" /\ errors[1].turn = turn_index /\ errors[1].call = c
      BY <3>2, <3>3 DEF Result
    <3>5. k + 1 \in DOMAIN s /\ s[k + 1] = errors[1]
      <4>1. 1 \in 1..Len(errors)
        BY <3>2
      <4> QED BY <1>1, <2>2, <4>1, Joined, SMTT(40)
    <3>6. \A i \in (k + 1)..((k + 1) - 1) : s[i].role # "assistant"
      BY <2>2
    <3>7. k + 1 > k
      BY <2>2
    <3> QED BY <1>2, <2>1, <3>4, <3>5, <3>6, <3>7 DEF HasResult
  <2> QED BY <2>4, <2>5
<1> QED BY <1>6, <1>8, <1>9, <1>10

LEMMA SettledOne ==
  ASSUME ctx \in Context, Settled(ctx), NEW x \in Message,
         x.role # "assistant" \/ x.calls = 0
  PROVE  Settled(Append(ctx, x))
<1>1. Append(ctx, x) = ctx \o <<x>> /\ Len(<<x>>) = 1 /\ <<x>>[1] = x
  BY DEF Context
<1>2. <<x>> \in Context
  BY Contexts
<1>3. \A i \in 1..Len(<<x>>) : <<x>>[i].role = "assistant" => <<x>>[i].calls = 0
  BY <1>1
<1> QED BY <1>1, <1>2, <1>3, SettledJoined

LEMMA BatchOfTurn ==
  ASSUME TypeInvariant
  PROVE  LET all == results \o ResultsOf(1, Whole)
         IN  /\ 1..Whole \subseteq CallsIn(all)
             /\ (\A i \in DOMAIN results : results[i].turn = turn_index)
                  => \A i \in DOMAIN all : all[i].turn = turn_index
<1> DEFINE batch == ResultsOf(1, Whole)
           all == results \o batch
<1>1. results \in Context /\ batch \in Context /\ Whole \in Nat /\ turn_index \in Nat
  BY AtHand, Contexts DEF TypeInvariant, PlaceType
<1>2. \A x : Result(x).turn = turn_index /\ Result(x).call = x
  BY DEF Result
<1>3. Len(batch) = Whole /\ \A i \in 1..Whole : batch[i] = Result(1 + i - 1)
  <2>1. 1 \in Nat \ {0} /\ 1 + Whole - 1 <= MaxCalls
    BY AtHand
  <2> QED BY <1>1, <2>1, ResultsMade
<1>4. \A i \in 1..Whole : batch[i].turn = turn_index /\ batch[i].call = i
  <2>1. \A i \in 1..Whole : 1 + i - 1 = i
    BY <1>1
  <2> QED BY <1>2, <1>3, <2>1
<1> HIDE DEF batch
<1>5. ASSUME NEW c \in 1..Whole PROVE c \in CallsIn(all)
  <2>1. Len(results) + c \in DOMAIN all /\ all[Len(results) + c] = batch[c]
    BY <1>1, <1>3, Joined
  <2> QED BY <1>4, <2>1 DEF CallsIn
<1>6. ASSUME \A i \in DOMAIN results : results[i].turn = turn_index, NEW i \in DOMAIN all
      PROVE  all[i].turn = turn_index
  <2>1. CASE i \in 1..Len(results)
    BY <1>1, <1>6, <2>1, Joined
  <2>2. CASE i - Len(results) \in 1..Len(batch) /\ all[i] = batch[i - Len(results)]
    BY <1>3, <1>4, <2>2
  <2> QED BY <1>1, <2>1, <2>2, Joined
<1> QED BY <1>5, <1>6 DEF batch

(* Every call is followed by its result.                                     *)
LEMMA CallsFollowedInit == Init => CallsFollowed
<1> SUFFICES ASSUME Init PROVE CallsFollowed
  OBVIOUS
<1>1. User("prompt").role = "user" /\ ctx = <<User("prompt")>>
  BY DEF User, Init
<1>2. DOMAIN ctx = {1} /\ ctx[1].role = "user"
  BY <1>1
<1>3. Settled(ctx)
  BY <1>2 DEF Settled
<1>4. pc = "start"
  BY DEF Init
<1> QED BY <1>3, <1>4 DEF CallsFollowed, OfThisTurn, CallsOpen, CallsCovered,
   CallsSettled

LEMMA CallsFollowedStep == TypeInvariant /\ FromUsers /\ CallsFollowed /\ [Next]_vars => CallsFollowed'
<1> SUFFICES ASSUME TypeInvariant, FromUsers, CallsFollowed, [Next]_vars PROVE CallsFollowed'
  OBVIOUS
<1>1. CASE Start
  <2>1. OfThisTurn'
    BY <1>1 DEF CallsFollowed, Start, emit, turnVars, OfThisTurn
  <2>2. CallsOpen'
    BY <1>1 DEF CallsFollowed, Start, emit, CallsOpen, Whole
  <2>3. CallsCovered'
    BY <1>1 DEF CallsFollowed, Start, emit, turnVars, CallsCovered
  <2>4. CallsSettled'
    BY <1>1 DEF CallsFollowed, Start, emit, CallsSettled
  <2> QED BY <1>1, <2>1, <2>2, <2>3, <2>4 DEF CallsFollowed
<1>2. CASE InjectPending
  <2>1. OfThisTurn'
    BY <1>2 DEF CallsFollowed, InjectPending, NoAnswer,
       sync_loop_context_snapshot, Ends, OfThisTurn
  <2>2. CallsOpen'
    BY <1>2 DEF CallsFollowed, InjectPending, NoAnswer,
       sync_loop_context_snapshot, Ends, CallsOpen, Whole
  <2>3. CallsCovered'
    BY <1>2 DEF CallsFollowed, InjectPending, NoAnswer,
       sync_loop_context_snapshot, Ends, CallsCovered
  <2>4. CallsSettled'
    <3>1. CASE cancelled
      BY <1>2, <3>1 DEF InjectPending, Ends, CallsSettled
    <3>2. CASE ~cancelled
      <4>1. Settled(ctx) /\ ctx \in Context /\ pending \in Context
        BY <1>2 DEF InjectPending, CallsFollowed, CallsSettled, TypeInvariant,
           ContextType
      <4>2. \A i \in 1..Len(pending) : pending[i].role = "user"
        BY <4>1 DEF FromUsers, OnlyUsers, Context
      <4>3. Settled(ctx \o pending)
        BY <4>1, <4>2, SettledJoined
      <4>4. ctx' = ctx \o pending
        BY <1>2, <3>2 DEF InjectPending
      <4> QED BY <4>3, <4>4 DEF CallsSettled
    <3> QED BY <3>1, <3>2
  <2> QED BY <1>2, <2>1, <2>2, <2>3, <2>4 DEF CallsFollowed
<1>3. CASE Transform
  <2>1. OfThisTurn'
    BY <1>3 DEF CallsFollowed, Transform, sync_loop_context_snapshot,
       turnVars, OfThisTurn
  <2>2. CallsOpen'
    BY <1>3 DEF CallsFollowed, Transform, sync_loop_context_snapshot,
       CallsOpen, Whole
  <2>3. CallsCovered'
    BY <1>3 DEF CallsFollowed, Transform, sync_loop_context_snapshot,
       turnVars, CallsCovered
  <2>4. CallsSettled'
    <3>1. Settled(ctx) /\ ctx \in Context
      BY <1>3 DEF Transform, CallsFollowed, CallsSettled, TypeInvariant, ContextType
    <3>2. ctx' \in run_context_transformers
      BY <1>3 DEF Transform
    <3>3. Settled(ctx')
      BY <3>1, <3>2, SettledSuffix
    <3> QED BY <3>3 DEF CallsSettled
  <2> QED BY <1>3, <2>1, <2>2, <2>3, <2>4 DEF CallsFollowed
<1>4. CASE PreTurnContinue
  <2>1. OfThisTurn'
    BY <1>4 DEF CallsFollowed, PreTurnContinue, turnVars, OfThisTurn
  <2>2. CallsOpen'
    BY <1>4 DEF CallsFollowed, PreTurnContinue, CallsOpen, Whole
  <2>3. CallsCovered'
    BY <1>4 DEF CallsFollowed, PreTurnContinue, turnVars, CallsCovered
  <2>4. CallsSettled'
    BY <1>4 DEF CallsFollowed, PreTurnContinue, CallsSettled
  <2> QED BY <1>4, <2>1, <2>2, <2>3, <2>4 DEF CallsFollowed
<1>5. CASE PreTurnStop
  <2>1. OfThisTurn'
    BY <1>5 DEF CallsFollowed, PreTurnStop, Ends, turnVars, OfThisTurn
  <2>2. CallsOpen'
    BY <1>5 DEF CallsFollowed, PreTurnStop, Ends, CallsOpen, Whole
  <2>3. CallsCovered'
    BY <1>5 DEF CallsFollowed, PreTurnStop, Ends, turnVars, CallsCovered
  <2>4. CallsSettled'
    BY <1>5 DEF CallsFollowed, PreTurnStop, Ends, CallsSettled
  <2> QED BY <1>5, <2>1, <2>2, <2>3, <2>4 DEF CallsFollowed
<1>6. CASE PreTurnInject
  <2>1. OfThisTurn'
    BY <1>6 DEF CallsFollowed, PreTurnInject, sync_loop_context_snapshot,
       turnVars, OfThisTurn
  <2>2. CallsOpen'
    BY <1>6 DEF CallsFollowed, PreTurnInject, sync_loop_context_snapshot,
       CallsOpen, Whole
  <2>3. CallsCovered'
    BY <1>6 DEF CallsFollowed, PreTurnInject, sync_loop_context_snapshot,
       turnVars, CallsCovered
  <2>4. CallsSettled'
    <3>1. Settled(ctx) /\ ctx' = Append(ctx, User("injected"))
      BY <1>6 DEF PreTurnInject, CallsFollowed, CallsSettled
    <3>2. User("injected") \in Message /\ User("injected").role # "assistant"
      BY AtHand DEF User
    <3>3. Settled(ctx')
      BY <3>1, <3>2, SettledOne DEF TypeInvariant, ContextType
    <3> QED BY <3>3 DEF CallsSettled
  <2> QED BY <1>6, <2>1, <2>2, <2>3, <2>4 DEF CallsFollowed
<1>7. CASE TurnStart
  <2>1. OfThisTurn'
    BY <1>7 DEF CallsFollowed, TurnStart, emit, turnVars, OfThisTurn
  <2>2. CallsOpen'
    BY <1>7 DEF CallsFollowed, TurnStart, emit, CallsOpen, Whole
  <2>3. CallsCovered'
    BY <1>7 DEF CallsFollowed, TurnStart, emit, turnVars, CallsCovered
  <2>4. CallsSettled'
    BY <1>7 DEF CallsFollowed, TurnStart, emit, CallsSettled
  <2> QED BY <1>7, <2>1, <2>2, <2>3, <2>4 DEF CallsFollowed
<1>8. CASE BeforeLlmCall
  <2>1. OfThisTurn'
    BY <1>8 DEF CallsFollowed, BeforeLlmCall, CallStep, turnVars, OfThisTurn
  <2>2. CallsOpen'
    BY <1>8 DEF CallsFollowed, BeforeLlmCall, CallStep, CallsOpen, Whole
  <2>3. CallsCovered'
    BY <1>8 DEF CallsFollowed, BeforeLlmCall, CallStep, turnVars, CallsCovered
  <2>4. CallsSettled'
    BY <1>8 DEF CallsFollowed, BeforeLlmCall, CallStep, CallsSettled
  <2> QED BY <1>8, <2>1, <2>2, <2>3, <2>4 DEF CallsFollowed
<1>9. CASE CallModel
  <2>1. OfThisTurn'
    BY <1>9 DEF CallsFollowed, CallModel, emit, turnVars, OfThisTurn
  <2>2. CallsOpen'
    BY <1>9 DEF CallsFollowed, CallModel, emit, CallsOpen, Whole
  <2>3. CallsCovered'
    BY <1>9 DEF CallsFollowed, CallModel, emit, turnVars, CallsCovered
  <2>4. CallsSettled'
    BY <1>9 DEF CallsFollowed, CallModel, emit, CallsSettled
  <2> QED BY <1>9, <2>1, <2>2, <2>3, <2>4 DEF CallsFollowed
<1>10. ASSUME NEW a \in Answers, StreamAnswers(a) PROVE CallsFollowed'
  <2>1. OfThisTurn'
    BY <1>10 DEF CallsFollowed, StreamAnswers, emit, OfThisTurn
  <2>2. CallsOpen'
    BY <1>10 DEF CallsFollowed, StreamAnswers, emit, CallsOpen, Whole
  <2>3. CallsCovered'
    BY <1>10 DEF CallsFollowed, StreamAnswers, emit, CallsCovered
  <2>4. CallsSettled'
    BY <1>10 DEF CallsFollowed, StreamAnswers, emit, CallsSettled
  <2> QED BY <1>10, <2>1, <2>2, <2>3, <2>4 DEF CallsFollowed
<1>11. CASE StreamFails
  <2>1. OfThisTurn'
    BY <1>11 DEF CallsFollowed, StreamFails, emit, emit_unchecked, turnVars,
       OfThisTurn
  <2>2. CallsOpen'
    BY <1>11 DEF CallsFollowed, StreamFails, emit, emit_unchecked, CallsOpen,
       Whole
  <2>3. CallsCovered'
    BY <1>11 DEF CallsFollowed, StreamFails, emit, emit_unchecked, turnVars,
       CallsCovered
  <2>4. CallsSettled'
    BY <1>11 DEF CallsFollowed, StreamFails, emit, emit_unchecked,
       CallsSettled
  <2> QED BY <1>11, <2>1, <2>2, <2>3, <2>4 DEF CallsFollowed
<1>12. CASE StreamAborts
  <2>1. OfThisTurn'
    BY <1>12 DEF CallsFollowed, StreamAborts, emit, turnVars, OfThisTurn
  <2>2. CallsOpen'
    BY <1>12 DEF CallsFollowed, StreamAborts, emit, CallsOpen, Whole
  <2>3. CallsCovered'
    BY <1>12 DEF CallsFollowed, StreamAborts, emit, turnVars, CallsCovered
  <2>4. CallsSettled'
    BY <1>12 DEF CallsFollowed, StreamAborts, emit, CallsSettled
  <2> QED BY <1>12, <2>1, <2>2, <2>3, <2>4 DEF CallsFollowed
<1>13. CASE StreamOverflows
  <2>1. OfThisTurn'
    BY <1>13 DEF CallsFollowed, StreamOverflows, turnVars, OfThisTurn
  <2>2. CallsOpen'
    BY <1>13 DEF CallsFollowed, StreamOverflows, CallsOpen, Whole
  <2>3. CallsCovered'
    BY <1>13 DEF CallsFollowed, StreamOverflows, turnVars, CallsCovered
  <2>4. CallsSettled'
    BY <1>13 DEF CallsFollowed, StreamOverflows, CallsSettled
  <2> QED BY <1>13, <2>1, <2>2, <2>3, <2>4 DEF CallsFollowed
<1>14. CASE attempt_overflow_recovery
  <2>1. OfThisTurn'
    BY <1>14 DEF CallsFollowed, attempt_overflow_recovery,
       sync_loop_context_snapshot, any_compacted, Ends, turnVars, OfThisTurn
  <2>2. CallsOpen'
    BY <1>14 DEF CallsFollowed, attempt_overflow_recovery,
       sync_loop_context_snapshot, any_compacted, Ends, CallsOpen, Whole
  <2>3. CallsCovered'
    BY <1>14 DEF CallsFollowed, attempt_overflow_recovery,
       sync_loop_context_snapshot, any_compacted, Ends, turnVars, CallsCovered
  <2>4. CallsSettled'
    <3>1. Settled(ctx) /\ ctx \in Context
      BY <1>14 DEF attempt_overflow_recovery, CallsFollowed, CallsSettled,
         TypeInvariant, ContextType
    <3>2. CASE pc' = "ending"
      BY <3>2 DEF CallsSettled
    <3>3. CASE pc' # "ending"
      <4>1. \E new \in run_context_transformers : ctx' \in {ctx, new}
        BY <1>14, <3>3 DEF attempt_overflow_recovery, Ends
      <4>2. Settled(ctx')
        BY <3>1, <4>1, SettledSuffix
      <4> QED BY <4>2 DEF CallsSettled
    <3> QED BY <3>2, <3>3
  <2> QED BY <1>14, <2>1, <2>2, <2>3, <2>4 DEF CallsFollowed
<1>15. CASE overflow_error
  <2>1. OfThisTurn'
    BY <1>15 DEF CallsFollowed, overflow_error, emit_unchecked, turnVars,
       OfThisTurn
  <2>2. CallsOpen'
    BY <1>15 DEF CallsFollowed, overflow_error, emit_unchecked, CallsOpen,
       Whole
  <2>3. CallsCovered'
    BY <1>15 DEF CallsFollowed, overflow_error, emit_unchecked, turnVars,
       CallsCovered
  <2>4. CallsSettled'
    BY <1>15 DEF CallsFollowed, overflow_error, emit_unchecked, CallsSettled
  <2> QED BY <1>15, <2>1, <2>2, <2>3, <2>4 DEF CallsFollowed
<1>16. CASE handle_error_stop
  <2>1. OfThisTurn'
    BY <1>16 DEF CallsFollowed, handle_error_stop, EndFailed,
       run_post_turn_policy_check, ExitFailed, Ends, turnVars, OfThisTurn
  <2>2. CallsOpen'
    BY <1>16 DEF CallsFollowed, handle_error_stop, EndFailed,
       run_post_turn_policy_check, ExitFailed, Ends, CallsOpen, Whole
  <2>3. CallsCovered'
    BY <1>16 DEF CallsFollowed, handle_error_stop, EndFailed,
       run_post_turn_policy_check, ExitFailed, Ends, turnVars, CallsCovered
  <2>4. CallsSettled'
    BY <1>16 DEF CallsFollowed, handle_error_stop, EndFailed,
       run_post_turn_policy_check, ExitFailed, Ends, CallsSettled
  <2> QED BY <1>16, <2>1, <2>2, <2>3, <2>4 DEF CallsFollowed
<1>17. CASE handle_stream_abort
  <2>1. OfThisTurn'
    BY <1>17 DEF CallsFollowed, handle_stream_abort, EndFailed,
       run_post_turn_policy_check, ExitFailed, Ends, turnVars, OfThisTurn
  <2>2. CallsOpen'
    BY <1>17 DEF CallsFollowed, handle_stream_abort, EndFailed,
       run_post_turn_policy_check, ExitFailed, Ends, CallsOpen, Whole
  <2>3. CallsCovered'
    BY <1>17 DEF CallsFollowed, handle_stream_abort, EndFailed,
       run_post_turn_policy_check, ExitFailed, Ends, turnVars, CallsCovered
  <2>4. CallsSettled'
    BY <1>17 DEF CallsFollowed, handle_stream_abort, EndFailed,
       run_post_turn_policy_check, ExitFailed, Ends, CallsSettled
  <2> QED BY <1>17, <2>1, <2>2, <2>3, <2>4 DEF CallsFollowed
<1>18. CASE CommitText
  <2>1. OfThisTurn'
    BY <1>18 DEF CallsFollowed, CommitText, sync_loop_context_snapshot,
       run_post_turn_policy_check, emit, OfThisTurn
  <2>2. CallsOpen'
    BY <1>18 DEF CallsFollowed, CommitText, sync_loop_context_snapshot,
       run_post_turn_policy_check, emit, CallsOpen, Whole
  <2>3. CallsCovered'
    BY <1>18 DEF CallsFollowed, CommitText, sync_loop_context_snapshot,
       run_post_turn_policy_check, emit, CallsCovered
  <2>4. CallsSettled'
    <3>1. Settled(ctx) /\ ctx' = Append(ctx, Assistant(0))
      BY <1>18 DEF CommitText, CallsFollowed, CallsSettled
    <3>2. Assistant(0) \in Message /\ Assistant(0).calls = 0
      BY AtHand DEF Assistant
    <3>3. Settled(ctx')
      BY <3>1, <3>2, SettledOne DEF TypeInvariant, ContextType
    <3> QED BY <3>3 DEF CallsSettled
  <2> QED BY <1>18, <2>1, <2>2, <2>3, <2>4 DEF CallsFollowed
<1>19. CASE AfterText
  <2>1. OfThisTurn'
    BY <1>19 DEF CallsFollowed, AfterText, StopHonoured, Ends, BreakInner,
       turnVars, OfThisTurn
  <2>2. CallsOpen'
    BY <1>19 DEF CallsFollowed, AfterText, StopHonoured, Ends, BreakInner,
       CallsOpen, Whole
  <2>3. CallsCovered'
    BY <1>19 DEF CallsFollowed, AfterText, StopHonoured, Ends, BreakInner,
       turnVars, CallsCovered
  <2>4. CallsSettled'
    BY <1>19 DEF CallsFollowed, AfterText, StopHonoured, Ends, BreakInner,
       CallsSettled
  <2> QED BY <1>19, <2>1, <2>2, <2>3, <2>4 DEF CallsFollowed
<1>20. CASE CommitCalls
  <2>1. OfThisTurn'
    <3>1. results' = ResultsOf(Whole + 1, answer.incomplete) /\ turn_index' = turn_index
      BY <1>20 DEF CommitCalls
    <3>2. \A x : Result(x).turn = turn_index
      BY DEF Result
    <3>3. \A i \in DOMAIN results' : results'[i].turn = turn_index
      BY <3>1, <3>2 DEF ResultsOf
    <3> QED BY <3>1, <3>3 DEF OfThisTurn
  <2>2. CallsOpen'
    <3>1. pc = "calls" /\ turn_index' = turn_index /\ answer' = answer
      BY <1>20 DEF CommitCalls
    <3>2. Settled(ctx)
      BY <3>1 DEF CallsFollowed, CallsSettled
    <3>3. ctx' = Append(ctx, Assistant(answer.calls)) \o ResultsOf(Whole + 1, answer.incomplete)
      BY <1>20 DEF CommitCalls
    <3>4. Owes(ctx', turn_index, 1..Whole)
      BY <3>2, <3>3, CallsCommitted
    <3>5. Whole' = Whole
      BY <3>1 DEF Whole
    <3> QED BY <3>1, <3>4, <3>5 DEF CallsOpen
  <2>3. CallsCovered'
    <3> SUFFICES ASSUME pc' = "commit" PROVE Owes(ctx, turn_index, CallsIn(results))'
      BY <1>20 DEF CommitCalls, CallsCovered
    <3>1. pc = "calls" /\ turn_index' = turn_index /\ Whole = 0
      BY <1>20 DEF CommitCalls
    <3>2. Settled(ctx)
      BY <3>1 DEF CallsFollowed, CallsSettled
    <3>3. ctx' = Append(ctx, Assistant(answer.calls)) \o ResultsOf(Whole + 1, answer.incomplete)
      BY <1>20 DEF CommitCalls
    <3>4. Owes(ctx', turn_index, 1..Whole)
      BY <3>2, <3>3, CallsCommitted
    <3>5. 1..Whole \subseteq CallsIn(results')
      BY <3>1
    <3> QED BY <3>1, <3>4, <3>5, OwesMore
  <2>4. CallsSettled'
    BY <1>20 DEF CallsFollowed, CommitCalls, CallsSettled
  <2> QED BY <1>20, <2>1, <2>2, <2>3, <2>4 DEF CallsFollowed
<1>21. CASE ToolsComplete
  <2>1. OfThisTurn'
    <3>1. PICK next : BatchEnds(<<>>, next)
      BY <1>21 DEF ToolsComplete
    <3>2. <<>> \in Context
      BY Contexts, AtHand
    <3>3. results' = results \o ResultsOf(1, Whole)
      BY <3>1, <3>2, BatchAdds
    <3>4. pc = "tools" /\ turn_index' = turn_index /\ ctx' = ctx
      BY <3>1 DEF BatchEnds
    <3>5. \A i \in DOMAIN results : results[i].turn = turn_index
      BY <3>4 DEF CallsFollowed, OfThisTurn
    <3>6. \A i \in DOMAIN results' : results'[i].turn = turn_index
      BY <3>3, <3>5, BatchOfTurn
    <3> QED BY <3>4, <3>6 DEF OfThisTurn
  <2>2. CallsOpen'
    BY <1>21 DEF CallsFollowed, ToolsComplete, BatchEnds, BatchResults,
       CallsOpen, Whole
  <2>3. CallsCovered'
    <3>1. PICK next : BatchEnds(<<>>, next)
      BY <1>21 DEF ToolsComplete
    <3>2. <<>> \in Context
      BY Contexts, AtHand
    <3>3. results' = results \o ResultsOf(1, Whole)
      BY <3>1, <3>2, BatchAdds
    <3>4. pc = "tools" /\ turn_index' = turn_index /\ ctx' = ctx
      BY <3>1 DEF BatchEnds
    <3>5. Owes(ctx, turn_index, 1..Whole)
      BY <3>4 DEF CallsFollowed, CallsOpen
    <3>6. 1..Whole \subseteq CallsIn(results')
      BY <3>3, BatchOfTurn
    <3>7. Owes(ctx, turn_index, CallsIn(results'))
      BY <3>5, <3>6, OwesMore
    <3> QED BY <3>4, <3>7 DEF CallsCovered
  <2>4. CallsSettled'
    BY <1>21 DEF CallsFollowed, ToolsComplete, BatchEnds, BatchResults,
       CallsSettled
  <2> QED BY <1>21, <2>1, <2>2, <2>3, <2>4 DEF CallsFollowed
<1>22. CASE ToolsStopped
  <2>1. OfThisTurn'
    <3>1. PICK next : BatchEnds(<<>>, next)
      BY <1>22 DEF ToolsStopped
    <3>2. <<>> \in Context
      BY Contexts, AtHand
    <3>3. results' = results \o ResultsOf(1, Whole)
      BY <3>1, <3>2, BatchAdds
    <3>4. pc = "tools" /\ turn_index' = turn_index /\ ctx' = ctx
      BY <3>1 DEF BatchEnds
    <3>5. \A i \in DOMAIN results : results[i].turn = turn_index
      BY <3>4 DEF CallsFollowed, OfThisTurn
    <3>6. \A i \in DOMAIN results' : results'[i].turn = turn_index
      BY <3>3, <3>5, BatchOfTurn
    <3> QED BY <3>4, <3>6 DEF OfThisTurn
  <2>2. CallsOpen'
    BY <1>22 DEF CallsFollowed, ToolsStopped, BatchEnds, BatchResults,
       CallsOpen, Whole
  <2>3. CallsCovered'
    <3>1. PICK next : BatchEnds(<<>>, next)
      BY <1>22 DEF ToolsStopped
    <3>2. <<>> \in Context
      BY Contexts, AtHand
    <3>3. results' = results \o ResultsOf(1, Whole)
      BY <3>1, <3>2, BatchAdds
    <3>4. pc = "tools" /\ turn_index' = turn_index /\ ctx' = ctx
      BY <3>1 DEF BatchEnds
    <3>5. Owes(ctx, turn_index, 1..Whole)
      BY <3>4 DEF CallsFollowed, CallsOpen
    <3>6. 1..Whole \subseteq CallsIn(results')
      BY <3>3, BatchOfTurn
    <3>7. Owes(ctx, turn_index, CallsIn(results'))
      BY <3>5, <3>6, OwesMore
    <3> QED BY <3>4, <3>7 DEF CallsCovered
  <2>4. CallsSettled'
    BY <1>22 DEF CallsFollowed, ToolsStopped, BatchEnds, BatchResults,
       CallsSettled
  <2> QED BY <1>22, <2>1, <2>2, <2>3, <2>4 DEF CallsFollowed
<1>23. CASE ToolsInterrupted
  <2>1. OfThisTurn'
    <3>1. PICK next : BatchEnds(UserMessages(Drained(steering, SteeringMode)), next)
      BY <1>23 DEF ToolsInterrupted
    <3>2. UserMessages(Drained(steering, SteeringMode)) \in Context
      BY Contexts, AtHand
    <3>3. results' = results \o ResultsOf(1, Whole)
      BY <3>1, <3>2, BatchAdds
    <3>4. pc = "tools" /\ turn_index' = turn_index /\ ctx' = ctx
      BY <3>1 DEF BatchEnds
    <3>5. \A i \in DOMAIN results : results[i].turn = turn_index
      BY <3>4 DEF CallsFollowed, OfThisTurn
    <3>6. \A i \in DOMAIN results' : results'[i].turn = turn_index
      BY <3>3, <3>5, BatchOfTurn
    <3> QED BY <3>4, <3>6 DEF OfThisTurn
  <2>2. CallsOpen'
    BY <1>23 DEF CallsFollowed, ToolsInterrupted, BatchEnds, BatchResults,
       CallsOpen, Whole
  <2>3. CallsCovered'
    <3>1. PICK next : BatchEnds(UserMessages(Drained(steering, SteeringMode)), next)
      BY <1>23 DEF ToolsInterrupted
    <3>2. UserMessages(Drained(steering, SteeringMode)) \in Context
      BY Contexts, AtHand
    <3>3. results' = results \o ResultsOf(1, Whole)
      BY <3>1, <3>2, BatchAdds
    <3>4. pc = "tools" /\ turn_index' = turn_index /\ ctx' = ctx
      BY <3>1 DEF BatchEnds
    <3>5. Owes(ctx, turn_index, 1..Whole)
      BY <3>4 DEF CallsFollowed, CallsOpen
    <3>6. 1..Whole \subseteq CallsIn(results')
      BY <3>3, BatchOfTurn
    <3>7. Owes(ctx, turn_index, CallsIn(results'))
      BY <3>5, <3>6, OwesMore
    <3> QED BY <3>4, <3>7 DEF CallsCovered
  <2>4. CallsSettled'
    BY <1>23 DEF CallsFollowed, ToolsInterrupted, BatchEnds, BatchResults,
       CallsSettled
  <2> QED BY <1>23, <2>1, <2>2, <2>3, <2>4 DEF CallsFollowed
<1>24. CASE ToolsAborted
  <2>1. OfThisTurn'
    <3>1. PICK next : BatchEnds(<<>>, next)
      BY <1>24 DEF ToolsAborted
    <3>2. <<>> \in Context
      BY Contexts, AtHand
    <3>3. results' = results \o ResultsOf(1, Whole)
      BY <3>1, <3>2, BatchAdds
    <3>4. pc = "tools" /\ turn_index' = turn_index /\ ctx' = ctx
      BY <3>1 DEF BatchEnds
    <3>5. \A i \in DOMAIN results : results[i].turn = turn_index
      BY <3>4 DEF CallsFollowed, OfThisTurn
    <3>6. \A i \in DOMAIN results' : results'[i].turn = turn_index
      BY <3>3, <3>5, BatchOfTurn
    <3> QED BY <3>4, <3>6 DEF OfThisTurn
  <2>2. CallsOpen'
    BY <1>24 DEF CallsFollowed, ToolsAborted, BatchEnds, BatchResults,
       CallsOpen, Whole
  <2>3. CallsCovered'
    <3>1. PICK next : BatchEnds(<<>>, next)
      BY <1>24 DEF ToolsAborted
    <3>2. <<>> \in Context
      BY Contexts, AtHand
    <3>3. results' = results \o ResultsOf(1, Whole)
      BY <3>1, <3>2, BatchAdds
    <3>4. pc = "tools" /\ turn_index' = turn_index /\ ctx' = ctx
      BY <3>1 DEF BatchEnds
    <3>5. Owes(ctx, turn_index, 1..Whole)
      BY <3>4 DEF CallsFollowed, CallsOpen
    <3>6. 1..Whole \subseteq CallsIn(results')
      BY <3>3, BatchOfTurn
    <3>7. Owes(ctx, turn_index, CallsIn(results'))
      BY <3>5, <3>6, OwesMore
    <3> QED BY <3>4, <3>7 DEF CallsCovered
  <2>4. CallsSettled'
    BY <1>24 DEF CallsFollowed, ToolsAborted, BatchEnds, BatchResults,
       CallsSettled
  <2> QED BY <1>24, <2>1, <2>2, <2>3, <2>4 DEF CallsFollowed
<1>25. CASE ToolsUndelivered
  <2>1. OfThisTurn'
    BY <1>25 DEF CallsFollowed, ToolsUndelivered, turnVars, OfThisTurn
  <2>2. CallsOpen'
    BY <1>25 DEF CallsFollowed, ToolsUndelivered, CallsOpen, Whole
  <2>3. CallsCovered'
    BY <1>25 DEF CallsFollowed, ToolsUndelivered, turnVars, CallsCovered
  <2>4. CallsSettled'
    BY <1>25 DEF CallsFollowed, ToolsUndelivered, CallsSettled
  <2> QED BY <1>25, <2>1, <2>2, <2>3, <2>4 DEF CallsFollowed
<1>26. CASE CommitCancelled
  <2>1. OfThisTurn'
    BY <1>26 DEF CallsFollowed, CommitCancelled, run_post_turn_policy_check,
       Ends, turnVars, OfThisTurn
  <2>2. CallsOpen'
    BY <1>26 DEF CallsFollowed, CommitCancelled, run_post_turn_policy_check,
       Ends, CallsOpen, Whole
  <2>3. CallsCovered'
    BY <1>26 DEF CallsFollowed, CommitCancelled, run_post_turn_policy_check,
       Ends, turnVars, CallsCovered
  <2>4. CallsSettled'
    BY <1>26 DEF CallsFollowed, CommitCancelled, run_post_turn_policy_check,
       Ends, CallsSettled
  <2> QED BY <1>26, <2>1, <2>2, <2>3, <2>4 DEF CallsFollowed
<1>27. CASE CommitResults
  <2>1. OfThisTurn'
    BY <1>27 DEF CallsFollowed, CommitResults, sync_loop_context_snapshot,
       run_post_turn_policy_check, Ends, emit, OfThisTurn
  <2>2. CallsOpen'
    BY <1>27 DEF CallsFollowed, CommitResults, sync_loop_context_snapshot,
       run_post_turn_policy_check, Ends, emit, CallsOpen, Whole
  <2>3. CallsCovered'
    BY <1>27 DEF CallsFollowed, CommitResults, sync_loop_context_snapshot,
       run_post_turn_policy_check, Ends, emit, CallsCovered
  <2>4. CallsSettled'
    <3>1. ctx' = ctx \o results /\ pc \in {"commit", "transfer"}
      BY <1>27 DEF CommitResults
    <3>2. Owes(ctx, turn_index, CallsIn(results)) /\ \A i \in DOMAIN results : results[i].turn = turn_index
      BY <3>1 DEF CallsFollowed, CallsCovered, OfThisTurn
    <3>3. ctx \in Context /\ results \in Seq(ResultMessages)
      BY DEF TypeInvariant, ContextType, TurnType
    <3>4. Settled(ctx')
      BY <3>1, <3>2, <3>3, OwedSettled
    <3> QED BY <3>4 DEF CallsSettled
  <2> QED BY <1>27, <2>1, <2>2, <2>3, <2>4 DEF CallsFollowed
<1>28. CASE AfterTools
  <2>1. OfThisTurn'
    BY <1>28 DEF CallsFollowed, AfterTools, StopHonoured, Ends, turnVars,
       OfThisTurn
  <2>2. CallsOpen'
    BY <1>28 DEF CallsFollowed, AfterTools, StopHonoured, Ends, CallsOpen,
       Whole
  <2>3. CallsCovered'
    BY <1>28 DEF CallsFollowed, AfterTools, StopHonoured, Ends, turnVars,
       CallsCovered
  <2>4. CallsSettled'
    BY <1>28 DEF CallsFollowed, AfterTools, StopHonoured, Ends, CallsSettled
  <2> QED BY <1>28, <2>1, <2>2, <2>3, <2>4 DEF CallsFollowed
<1>29. CASE PostLoopContinue
  <2>1. OfThisTurn'
    BY <1>29 DEF CallsFollowed, PostLoopContinue, turnVars, OfThisTurn
  <2>2. CallsOpen'
    BY <1>29 DEF CallsFollowed, PostLoopContinue, CallsOpen, Whole
  <2>3. CallsCovered'
    BY <1>29 DEF CallsFollowed, PostLoopContinue, turnVars, CallsCovered
  <2>4. CallsSettled'
    BY <1>29 DEF CallsFollowed, PostLoopContinue, CallsSettled
  <2> QED BY <1>29, <2>1, <2>2, <2>3, <2>4 DEF CallsFollowed
<1>30. CASE PostLoopStop
  <2>1. OfThisTurn'
    BY <1>30 DEF CallsFollowed, PostLoopStop, Ends, turnVars, OfThisTurn
  <2>2. CallsOpen'
    BY <1>30 DEF CallsFollowed, PostLoopStop, Ends, CallsOpen, Whole
  <2>3. CallsCovered'
    BY <1>30 DEF CallsFollowed, PostLoopStop, Ends, turnVars, CallsCovered
  <2>4. CallsSettled'
    BY <1>30 DEF CallsFollowed, PostLoopStop, Ends, CallsSettled
  <2> QED BY <1>30, <2>1, <2>2, <2>3, <2>4 DEF CallsFollowed
<1>31. CASE PostLoopInject
  <2>1. OfThisTurn'
    BY <1>31 DEF CallsFollowed, PostLoopInject, turnVars, OfThisTurn
  <2>2. CallsOpen'
    BY <1>31 DEF CallsFollowed, PostLoopInject, CallsOpen, Whole
  <2>3. CallsCovered'
    BY <1>31 DEF CallsFollowed, PostLoopInject, turnVars, CallsCovered
  <2>4. CallsSettled'
    BY <1>31 DEF CallsFollowed, PostLoopInject, CallsSettled
  <2> QED BY <1>31, <2>1, <2>2, <2>3, <2>4 DEF CallsFollowed
<1>32. CASE PollFollowUp
  <2>1. OfThisTurn'
    BY <1>32 DEF CallsFollowed, PollFollowUp, Ends, turnVars, OfThisTurn
  <2>2. CallsOpen'
    BY <1>32 DEF CallsFollowed, PollFollowUp, Ends, CallsOpen, Whole
  <2>3. CallsCovered'
    BY <1>32 DEF CallsFollowed, PollFollowUp, Ends, turnVars, CallsCovered
  <2>4. CallsSettled'
    BY <1>32 DEF CallsFollowed, PollFollowUp, Ends, CallsSettled
  <2> QED BY <1>32, <2>1, <2>2, <2>3, <2>4 DEF CallsFollowed
<1>33. CASE Ending
  <2>1. OfThisTurn'
    BY <1>33 DEF CallsFollowed, Ending, emit, turnVars, OfThisTurn
  <2>2. CallsOpen'
    BY <1>33 DEF CallsFollowed, Ending, emit, CallsOpen, Whole
  <2>3. CallsCovered'
    BY <1>33 DEF CallsFollowed, Ending, emit, turnVars, CallsCovered
  <2>4. CallsSettled'
    BY <1>33 DEF CallsFollowed, Ending, emit, CallsSettled
  <2> QED BY <1>33, <2>1, <2>2, <2>3, <2>4 DEF CallsFollowed
<1>34. CASE Queue
  <2> QED BY <1>34 DEF CallsFollowed, Queue, turnVars, OfThisTurn, Whole, CallsOpen,
     CallsCovered, CallsSettled
<1>35. CASE Cancel
  <2> QED BY <1>35 DEF CallsFollowed, Cancel, turnVars, OfThisTurn, Whole,
     CallsOpen, CallsCovered, CallsSettled
<1>36. CASE DropStream
  <2> QED BY <1>36 DEF CallsFollowed, DropStream, turnVars, OfThisTurn, Whole,
     CallsOpen, CallsCovered, CallsSettled
<1>37. CASE Done
  <2> QED BY <1>37 DEF CallsFollowed, Done, vars, turnVars, OfThisTurn, Whole,
     CallsOpen, CallsCovered, CallsSettled
<1>38. CASE UNCHANGED vars
  BY <1>38 DEF vars, snaps, queues, turnVars, stream, env, history,
     CallsFollowed, OfThisTurn, Whole, CallsOpen, CallsCovered,
     CallsSettled
<1> QED BY <1>1, <1>2, <1>3, <1>4, <1>5, <1>6, <1>7, <1>8, <1>9, <1>10, <1>11,
   <1>12, <1>13, <1>14, <1>15, <1>16, <1>17, <1>18, <1>19, <1>20, <1>21,
   <1>22, <1>23, <1>24, <1>25, <1>26, <1>27, <1>28, <1>29, <1>30, <1>31,
   <1>32, <1>33, <1>34, <1>35, <1>36, <1>37, <1>38 DEF Next, Loop, Turn,
   Model, Text, Tools, Outer, Env

-----------------------------------------------------------------------------
(* A message the host queued is in exactly one place, and whoever pauses   *)
(* the agent between two steps finds every message that left the queues.   *)
THEOREM MessagesStay == Spec => []MessagesKept
<1>1. TypeInvariant /\ Kept => Conserved
  <2> SUFFICES ASSUME TypeInvariant, Kept PROVE Conserved
    OBVIOUS
  <2> DEFINE places == <<Ids(steering), Ids(followUp), Users(pending), given>>
  <2>1. /\ DOMAIN places = 1..4
        /\ places[1] = Ids(steering) /\ places[2] = Ids(followUp)
        /\ places[3] = Users(pending) /\ places[4] = given
    OBVIOUS
  <2> HIDE DEF places
  <2>2. queued \subseteq Messages
    BY DEF TypeInvariant, QueueType
  <2>3. \A m \in queued : \E p \in DOMAIN places : m \in places[p]
    BY <2>1 DEF Kept, Placed
  <2>4. ASSUME NEW m \in queued, NEW p \in DOMAIN places, NEW r \in DOMAIN places,
               m \in places[p], m \in places[r]
        PROVE  p = r
    BY <2>1, <2>2, <2>4 DEF Kept, Apart
  <2>5. /\ Once(steering) /\ Once(followUp)
        /\ \A i, j \in DOMAIN ctx :
             ctx[i].role = "user" /\ ctx[i].id \in Messages /\ ctx[i] = ctx[j] => i = j
    BY DEF Kept, OncePlaced, OnceIn
  <2> QED BY <2>3, <2>4, <2>5 DEF Conserved, places
<1>2. Published => PauseSees
  BY DEF Published, PendingShown, ContextShown, PauseSees
<1> QED BY <1>1, <1>2, LoopTypeCorrect, KeptInit, KeptStep, PublishedInit,
   PublishedStep, PTL DEF Spec, MessagesKept

(* Issue #619: whenever the model is asked, each tool call has its result; *)
(* and a run that ends by itself has sent every message it took.           *)
THEOREM NothingStaysOwed == Spec => []NothingOwed
<1>1. CallsFollowed => CallsAnswered
  <2> SUFFICES ASSUME CallsFollowed, pc = "call", NEW k \in DOMAIN ctx,
                      ctx[k].role = "assistant", NEW c \in 1..ctx[k].calls
               PROVE  Answering(k, c) # {}
    BY DEF CallsAnswered
  <2>1. HasResult(ctx, k, c)
    BY DEF CallsFollowed, CallsSettled, Settled
  <2> QED BY <2>1 DEF HasResult, Answering
<1>2. LeavesNothing => NothingLeftPending
  BY DEF LeavesNothing, EndedEmpty, NothingKept, NothingLeftPending
<1>3. Init => FromUsers
  BY UsersOnly DEF Init, FromUsers
<1> QED BY <1>1, <1>2, <1>3, LoopTypeCorrect, OrderedInit, OrderedStep,
   LeavesNothingInit, LeavesNothingStep, FromUsersStep, CallsFollowedInit,
   CallsFollowedStep, PTL DEF Spec, NothingOwed

=============================================================================
