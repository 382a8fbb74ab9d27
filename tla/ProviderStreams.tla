-------------------------- MODULE ProviderStreams --------------------------
(***************************************************************************)
(* A model call as the provider adapters deliver it: the wire events of a  *)
(* provider go through the adapter's state machine and its                 *)
(* BlockAccumulator, and the events that come out are what the loop        *)
(* collects for accumulate_message (src/stream.rs).  One behaviour is one  *)
(* call of one provider; the stream may be cut or cancelled anywhere.      *)
(*                                                                         *)
(* Operators thread the record `feed`: adapter state and, in              *)
(* feed.message, what accumulate_message has made of the events so far.    *)
(* Arguments of a tool call are counted in halves of a JSON object: 2 is   *)
(* a whole one, 1 and anything above 2 do not parse, 0 stands for {}.      *)
(***************************************************************************)
EXTENDS Integers, Sequences, FiniteSets, SequencesExt

CONSTANTS Providers,  \* the adapters to choose from
          Keys,       \* the provider's names for blocks and calls
          MaxBlocks   \* bound on blocks per message

ASSUME StreamsAssumption ==
  /\ Providers \subseteq {"openai", "anthropic", "google", "ollama", "bedrock", "responses",
                          "proxy", "local"}
  /\ Keys \subseteq Nat /\ MaxBlocks \in Nat

VARIABLES provider,   \* the adapter in use
          feed,       \* its state, see below
          sent,       \* what the provider has sent: per key, kind and arguments
          over        \* the stream has ended

streamVars == <<provider, feed, sent, over>>

Absent == 0             \* no content index; the indices count from 1
Plain == {"text", "thinking"}

StreamsInit ==
  /\ provider \in Providers
  /\ feed = [next |-> 1, open |-> [k \in Plain |-> Absent], tools |-> {}, calls |-> << >>,
             stop |-> "none", sawTool |-> FALSE, ended |-> FALSE,
             message |-> [blocks |-> << >>, started |-> FALSE, end |-> "none",
                          stop |-> "none", fault |-> FALSE]]
  /\ sent = << >> /\ over = FALSE

-----------------------------------------------------------------------------
(* accumulate_message, one event at a time.  A stream with an Error event  *)
(* never gets there: the loop goes by the error alone.                     *)
Collect(f, fits, message) ==
  IF f.message.end = "Error" THEN f
  ELSE [f EXCEPT !.message = IF fits THEN message ELSE [@ EXCEPT !.fault = TRUE]]

Running(m) == m.started /\ m.end = "none"
IsOpen(m, at, kind) ==
  Running(m) /\ at \in DOMAIN m.blocks /\ m.blocks[at].open /\ m.blocks[at].kind = kind

StartEvent(f) ==
  Collect(f, ~f.message.started /\ f.message.end = "none", [f.message EXCEPT !.started = TRUE])

BlockStart(f, at, kind, id) ==
  Collect(f, Running(f.message) /\ at = Len(f.message.blocks) + 1,
          [f.message EXCEPT !.blocks =
             Append(@, [kind |-> kind, open |-> TRUE, json |-> 0, id |-> id])])

BlockDelta(f, at, kind, json) ==
  Collect(f, IsOpen(f.message, at, kind), [f.message EXCEPT !.blocks[at].json = @ + json])

BlockEnd(f, at, kind) ==
  Collect(f, IsOpen(f.message, at, kind), [f.message EXCEPT !.blocks[at].open = FALSE])

Done(f, stop) ==
  Collect(f, /\ f.message.end = "none"
             /\ \A i \in DOMAIN f.message.blocks :
                  f.message.blocks[i].open =>
                    f.message.started /\ stop = "Length" /\ f.message.blocks[i].kind = "tool",
          [f.message EXCEPT !.end = "Done", !.stop = stop])

Error(f) == Collect(f, TRUE, [f.message EXCEPT !.end = "Error"])

(* ToolCallEnd rejects arguments that do not parse unless the stream was   *)
(* cut by its token limit.                                                 *)
Rejected(m) ==
  \/ m.fault \/ ~m.started \/ m.end = "none"
  \/ /\ m.stop # "Length"
     /\ \E i \in DOMAIN m.blocks : m.blocks[i].kind = "tool" /\ m.blocks[i].json \notin {0, 2}

-----------------------------------------------------------------------------
(* BlockAccumulator *)
ensure_open(f, kind) ==
  IF f.open[kind] # Absent THEN f
  ELSE BlockStart([f EXCEPT !.open[kind] = f.next, !.next = @ + 1], f.next, kind, Absent)

close(f, kind) ==
  IF f.open[kind] = Absent THEN f
  ELSE BlockEnd([f EXCEPT !.open[kind] = Absent], f.open[kind], kind)

delta(f, kind) == IF f.open[kind] = Absent THEN f ELSE BlockDelta(f, f.open[kind], kind, 0)

(* The key of the call in the adapter's own table comes with it. *)
open_tool_call(f, k) ==
  BlockStart([f EXCEPT !.tools = @ \cup {f.next}, !.next = @ + 1], f.next, "tool", k)

close_tool_call(f, at) ==
  IF at \notin f.tools THEN f ELSE BlockEnd([f EXCEPT !.tools = @ \ {at}], at, "tool")

tool_call_delta(f, at, args) == IF args = 0 THEN f ELSE BlockDelta(f, at, "tool", args)

OpenBlocks(f) == f.tools \cup ({f.open[k] : k \in Plain} \ {Absent})
KindAt(f, at) == IF at \in f.tools THEN "tool" ELSE CHOOSE k \in Plain : f.open[k] = at

(* Every adapter forgets its table of calls with the blocks. *)
finalize_blocks(f) ==
  LET ended == FoldLeft(LAMBDA g, at : BlockEnd(g, at, KindAt(f, at)), f,
                        SetToSortSeq(OpenBlocks(f), <))
  IN  [ended EXCEPT !.tools = {}, !.open = [k \in Plain |-> Absent], !.calls = << >>]

Extend(t, k, v) == [j \in DOMAIN t \cup {k} |-> IF j = k THEN v ELSE t[j]]
Without(t, k) == [j \in DOMAIN t \ {k} |-> t[j]]

Think(f) == delta(ensure_open(f, "thinking"), "thinking")
Say(f) == delta(ensure_open(close(f, "thinking"), "text"), "text")
ClosePlain(f) == close(close(f, "thinking"), "text")
Fails(f) == Error(finalize_blocks(f))
Finishes(f, stop) == Done(finalize_blocks(f), stop)

-----------------------------------------------------------------------------
(* A step of the stream; an adapter ends it with the terminal event.       *)
Emits(f) ==
  /\ ~over
  /\ feed' = f /\ over' = (f.message.end # "none")
  /\ UNCHANGED provider

(* Providers send no content after their finish reason. *)
Streams(p) == provider = p /\ feed.message.started
Talks(p) == Streams(p) /\ feed.stop = "none" /\ feed.next <= MaxBlocks

Sent(k) == IF k \in DOMAIN sent THEN sent[k].args ELSE 0
Sends(k, kind, args) == sent' = Extend(sent, k, [kind |-> kind, args |-> args])
Fresh == Keys \ DOMAIN sent
(* Arguments come in pieces that make up one object or a part of it. *)
Pieces(k) == 0 .. (2 - Sent(k))

(* Start comes first; Bedrock and a proxy wait for the provider's own.  A  *)
(* request that fails or is cancelled yields Start and the error.          *)
Begins ==
  /\ ~feed.message.started
  /\ \/ provider \notin {"bedrock", "proxy"} /\ Emits(StartEvent(feed))
     \/ Emits(Error(StartEvent(feed)))
  /\ UNCHANGED sent

-----------------------------------------------------------------------------
(* OpenAI-compatible chunks.  A call is opened once its name is known; the *)
(* arguments that came before are kept until then.                         *)
NewEntry == [named |-> FALSE, args |-> 0, at |-> Absent]

\* mutant: the arguments sent before the name are dropped
oai_tool_call_delta_unbuffered(f, k, named, args) ==
  LET old == IF k \in DOMAIN f.calls THEN f.calls[k] ELSE NewEntry
      e == [old EXCEPT !.named = @ \/ named]
  IN  IF e.at # Absent THEN tool_call_delta(f, e.at, args)
      ELSE IF ~e.named THEN [f EXCEPT !.calls = Extend(@, k, e)]
      ELSE tool_call_delta([open_tool_call(f, k) EXCEPT
                              !.calls = Extend(@, k, [e EXCEPT !.at = f.next])], f.next, args)

process_oai_tool_call_delta(f, k, named, args) ==
  LET old == IF k \in DOMAIN f.calls THEN f.calls[k] ELSE NewEntry
      e == [old EXCEPT !.named = @ \/ named, !.args = @ + args]
  IN  IF e.at # Absent
      THEN tool_call_delta([f EXCEPT !.calls = Extend(@, k, e)], e.at, args)
      ELSE IF ~e.named THEN [f EXCEPT !.calls = Extend(@, k, e)]
      ELSE tool_call_delta([open_tool_call(f, k) EXCEPT
                              !.calls = Extend(@, k, [e EXCEPT !.at = f.next])], f.next, e.args)

(* What is still pending has no name: a named call is open. *)
flush_pending_fails(f) == \E k \in DOMAIN f.calls : f.calls[k].at = Absent

oai_finish(f, reason) ==
  CASE reason = "none" -> f
    [] reason \in {"content_filter", "error"} -> Fails(f)
    [] OTHER -> IF flush_pending_fails(f) THEN Fails(f)
                ELSE [finalize_blocks(f) EXCEPT !.stop = reason]

OaiReasons == {"none", "Stop", "ToolUse", "Length", "content_filter", "error"}

process_oai_chunk ==
  /\ Talks("openai")
  /\ \E reasoning, content \in BOOLEAN, reason \in OaiReasons :
       LET thought == IF reasoning THEN Think(feed) ELSE feed
           said == IF content THEN Say(thought) ELSE thought
       IN  \/ Emits(oai_finish(said, reason)) /\ UNCHANGED sent
           \/ Emits(oai_finish(ClosePlain(said), reason)) /\ UNCHANGED sent
           \/ \E k \in Keys, named \in BOOLEAN : \E args \in Pieces(k) :
                /\ Emits(oai_finish(process_oai_tool_call_delta(ClosePlain(said), k, named, args),
                                    reason))
                /\ Sends(k, IF named \/ (k \in DOMAIN sent /\ sent[k].kind = "tool")
                            THEN "tool" ELSE "nameless", Sent(k) + args)

emit_done_from_done_sentinel ==
  /\ Streams("openai")
  /\ Emits(IF flush_pending_fails(feed) THEN Fails(feed)
           ELSE Finishes(feed, IF feed.stop = "none" THEN "Stop" ELSE feed.stop))
  /\ UNCHANGED sent

-----------------------------------------------------------------------------
(* Anthropic: blocks one after the other, numbered by the provider; deltas *)
(* go to the index the block was given when it started.                    *)
content_block_start(k, kind) ==
  /\ Talks("anthropic") /\ DOMAIN feed.calls = {} /\ k \in Fresh
  /\ \/ /\ kind \in Plain
        /\ LET f == ensure_open(feed, kind)
           IN  Emits([f EXCEPT !.calls = Extend(@, k, [kind |-> kind, at |-> f.open[kind]])])
     \/ /\ kind = "tool"
        /\ \/ Emits([open_tool_call(feed, k) EXCEPT
                       !.calls = Extend(@, k, [kind |-> "tool", at |-> feed.next])])
           \/ Emits(Fails(feed))    \* no id or no name
     \/ kind = "other" /\ Emits(feed)
  /\ Sends(k, kind, 0)

content_block_delta(k, args) ==
  /\ Talks("anthropic") /\ k \in DOMAIN sent
  /\ args = 0 \/ (sent[k].kind = "tool" /\ k \in DOMAIN feed.calls)
  /\ Emits(IF k \in DOMAIN feed.calls
           THEN BlockDelta(feed, feed.calls[k].at, feed.calls[k].kind, args) ELSE feed)
  /\ Sends(k, sent[k].kind, Sent(k) + args)

content_block_stop(k) ==
  /\ Talks("anthropic") /\ k \in DOMAIN feed.calls
  /\ LET e == feed.calls[k]
         f == [feed EXCEPT !.calls = Without(@, k)]
     IN  Emits(IF e.kind = "tool" THEN close_tool_call(f, e.at) ELSE close(f, e.kind))
  /\ UNCHANGED sent

message_delta ==
  /\ Talks("anthropic")
  /\ \E reason \in {"Stop", "ToolUse", "Length"} : Emits([feed EXCEPT !.stop = reason])
  /\ UNCHANGED sent

message_stop ==
  /\ Streams("anthropic")
  /\ Emits(Finishes(feed, IF feed.stop = "none" THEN "Stop" ELSE feed.stop))
  /\ UNCHANGED sent

-----------------------------------------------------------------------------
(* Bedrock: the same blocks in frames; Start is the provider's, the stop   *)
(* reason waits for the metadata frame, which ends the stream.             *)
messageStart ==
  /\ provider = "bedrock" /\ ~feed.message.started
  /\ Emits(StartEvent(feed)) /\ UNCHANGED sent

contentBlockStart(k, kind) ==
  /\ Talks("bedrock") /\ DOMAIN feed.calls = {} /\ k \in Fresh
  /\ \/ /\ kind = "text"
        /\ LET f == ensure_open(feed, "text")
           IN  Emits([f EXCEPT !.calls = Extend(@, k, [kind |-> "text", at |-> f.open["text"]])])
     \/ /\ kind = "tool"
        /\ Emits([open_tool_call(feed, k) EXCEPT
                    !.calls = Extend(@, k, [kind |-> "tool", at |-> feed.next])])
  /\ Sends(k, kind, 0)

contentBlockDelta(k, args) ==
  /\ Talks("bedrock") /\ k \in DOMAIN feed.calls
  /\ \/ feed.calls[k].kind = "text" /\ args = 0 /\ Emits(delta(feed, "text"))
     \/ feed.calls[k].kind = "tool" /\ Emits(tool_call_delta(feed, feed.calls[k].at, args))
  /\ Sends(k, sent[k].kind, Sent(k) + args)

contentBlockStop(k) ==
  /\ Talks("bedrock") /\ k \in DOMAIN feed.calls
  /\ LET e == feed.calls[k]
         f == [feed EXCEPT !.calls = Without(@, k)]
     IN  Emits(IF e.kind = "tool" THEN close_tool_call(f, e.at) ELSE close(f, "text"))
  /\ UNCHANGED sent

messageStop ==
  /\ Talks("bedrock")
  /\ \E reason \in {"Stop", "ToolUse", "Length", "guardrail_intervened"} :
       Emits([feed EXCEPT !.stop = reason])
  /\ UNCHANGED sent

parse_metadata_frame ==
  /\ Streams("bedrock")
  /\ Emits(CASE feed.stop = "guardrail_intervened" -> Fails(feed)
             [] feed.stop = "none" -> Finishes(feed, "Stop")
             [] OTHER -> Finishes(feed, feed.stop))
  /\ UNCHANGED sent

-----------------------------------------------------------------------------
(* Gemini: every chunk carries whole snapshots of the arguments, which may *)
(* be rewritten; the last one is sent when the stream ends.                *)
process_chunk_text ==
  /\ Talks("google")
  /\ Emits(Think(close(feed, "text"))) \/ Emits(Say(feed))
  /\ UNCHANGED sent

process_function_call(k, args) ==
  /\ Talks("google")
  /\ LET f == ClosePlain(feed)
         known == k \in DOMAIN f.calls
         g == IF known THEN f ELSE [open_tool_call(f, k) EXCEPT !.sawTool = TRUE]
     IN  Emits([g EXCEPT !.calls =
                  Extend(@, k, [args |-> args, at |-> IF known THEN f.calls[k].at ELSE f.next])])
  /\ Sends(k, "tool", args)

emit_final_tool_deltas(f) ==
  FoldLeft(LAMBDA g, k : tool_call_delta(g, f.calls[k].at, f.calls[k].args), f,
           SetToSortSeq(DOMAIN f.calls, LAMBDA j, k : f.calls[j].at < f.calls[k].at))

google_fails(f) == Fails(emit_final_tool_deltas(f))

(* A call without a name, or a finish reason that stands for an error. *)
google_terminal_error ==
  /\ Talks("google")
  /\ Emits(google_fails(feed)) \/ Emits(google_fails(ClosePlain(feed)))
  /\ UNCHANGED sent

google_finish_reason ==
  /\ Talks("google")
  /\ \E length \in BOOLEAN :
       Emits([feed EXCEPT !.stop = IF length THEN "Length"
                                   ELSE IF feed.sawTool THEN "ToolUse" ELSE "Stop"])
  /\ UNCHANGED sent

(* [DONE] ends the stream as it is; at its plain end a finish reason must  *)
(* have been seen.                                                         *)
google_ends ==
  /\ Streams("google")
  /\ LET stop == IF feed.stop # "none" THEN feed.stop
                 ELSE IF feed.sawTool THEN "ToolUse" ELSE "Stop"
     IN  Emits(Finishes(emit_final_tool_deltas(feed), stop))
  /\ UNCHANGED sent

-----------------------------------------------------------------------------
(* Ollama: whole calls, each opened and closed at once, with ids of the    *)
(* adapter's own; done is a flag of the last chunk.                        *)
emit_tool_call(f, k, args) ==
  close_tool_call(tool_call_delta(open_tool_call(f, k), f.next, args), f.next)

ollama_chunk ==
  /\ Talks("ollama")
  /\ \E thinking, content \in BOOLEAN, reason \in {"none", "Stop", "ToolUse", "Length"} :
       LET thought == IF thinking THEN Think(feed) ELSE feed
           said == IF content THEN Say(thought) ELSE thought
           End(f) == IF reason = "none" THEN f ELSE Finishes(f, reason)
       IN  \/ Emits(End(said)) /\ UNCHANGED sent
           \/ \E k \in Fresh : Emits(End(emit_tool_call(close(said, "text"), k, 2)))
                               /\ Sends(k, "tool", 2)

-----------------------------------------------------------------------------
(* Responses: items that are added, filled and done.  A server streams a   *)
(* call's arguments or sends them whole in arguments.done; a call may also *)
(* come in output_item.done alone.                                         *)
responses_open(f, k) ==
  [open_tool_call(ClosePlain(f), k) EXCEPT
     !.calls = Extend(@, k, [at |-> f.next, streamed |-> 0]), !.sawTool = TRUE]

responses_delta(f, k, args) ==
  tool_call_delta([f EXCEPT !.calls[k].streamed = @ + args], f.calls[k].at, args)

output_item_added(k) ==
  /\ Talks("responses") /\ k \in Fresh
  /\ Emits(responses_open(feed, k)) \/ Emits(Fails(feed))    \* without a name
  /\ Sends(k, "tool", 0)

output_text_delta ==
  /\ Talks("responses")
  /\ Emits(Say(feed)) \/ Emits(Think(feed))
  /\ UNCHANGED sent

function_call_arguments_delta(k, args) ==
  /\ Talks("responses") /\ k \in DOMAIN feed.calls
  /\ Emits(responses_delta(feed, k, args)) /\ Sends(k, "tool", Sent(k) + args)

function_call_arguments_done(k) ==
  /\ Talks("responses") /\ k \in DOMAIN feed.calls /\ Sent(k) \in {0, 2}
  /\ Emits(IF feed.calls[k].streamed = 0 THEN responses_delta(feed, k, 2) ELSE feed)
  /\ Sends(k, "tool", 2)

output_item_done ==
  /\ Talks("responses")
  /\ \/ \E k \in DOMAIN feed.calls :
          /\ Emits(close_tool_call([feed EXCEPT !.calls = Without(@, k)], feed.calls[k].at))
          /\ UNCHANGED sent
     \/ \E k \in Fresh :
          /\ \E args \in {0, 2} :
               LET f == responses_delta(responses_open(feed, k), k, args)
               IN  /\ Emits(close_tool_call([f EXCEPT !.calls = Without(@, k)], f.calls[k].at))
                   /\ Sends(k, "tool", args)
     \/ \E kind \in Plain : Emits(close(feed, kind)) /\ UNCHANGED sent

response_ends ==
  /\ Streams("responses")
  /\ \/ Emits(Finishes(feed, IF feed.sawTool THEN "ToolUse" ELSE "Stop"))
     \/ Emits(Finishes(feed, "Length"))
  /\ UNCHANGED sent

-----------------------------------------------------------------------------
(* A proxy passes on the events of another agent's stream, one to one, and *)
(* closes what is open before a terminal event.                            *)
proxy_event ==
  /\ provider = "proxy"
  /\ \/ ~feed.message.started /\ Emits(StartEvent(feed)) /\ UNCHANGED sent
     \/ /\ Talks("proxy")
        /\ \/ \E kind \in Plain :
                /\ \/ Emits(ensure_open(feed, kind)) \/ Emits(delta(feed, kind))
                   \/ Emits(close(feed, kind))
                /\ UNCHANGED sent
           \/ \E k \in Fresh :
                /\ Emits([open_tool_call(feed, k) EXCEPT !.calls = Extend(@, k, feed.next)])
                /\ Sends(k, "tool", 0)
           \/ \E k \in DOMAIN feed.calls : \E args \in Pieces(k) :
                /\ Emits(tool_call_delta(feed, feed.calls[k], args))
                /\ Sends(k, "tool", Sent(k) + args)
           \/ \E k \in DOMAIN feed.calls :
                /\ Emits(close_tool_call([feed EXCEPT !.calls = Without(@, k)], feed.calls[k]))
                /\ UNCHANGED sent
     \/ /\ Streams("proxy")
        /\ \E reason \in {"Stop", "ToolUse", "Length"} : Emits(Finishes(feed, reason))
        /\ UNCHANGED sent

-----------------------------------------------------------------------------
(* Local models: what the tag parsers make of a token, thinking before     *)
(* calls before text.  A call stays open until the stream ends; one cut by *)
(* the token limit is kept, with the arguments it has.                     *)
local_call(f, k, args) == tool_call_delta(open_tool_call(ClosePlain(f), k), f.next, args)

process_token ==
  /\ Talks("local")
  /\ \E think, text \in BOOLEAN :
       LET thought == IF think THEN Think(feed) ELSE feed
           End(f) == IF text THEN Say(f) ELSE f
       IN  \/ Emits(End(thought)) /\ UNCHANGED sent
           \/ \E k \in Fresh : /\ Emits([End(local_call(thought, k, 2)) EXCEPT !.sawTool = TRUE])
                               /\ Sends(k, "tool", 2)

(* finalize, after flush_pending_parsers *)
local_done ==
  /\ Streams("local")
  /\ \E think, text \in BOOLEAN :
       LET thought == IF think THEN Think(feed) ELSE feed
           said == IF text THEN Say(thought) ELSE thought
       IN  \/ /\ \/ Emits(Finishes(said, "Length"))
                 \/ Emits(Finishes(said, IF feed.sawTool THEN "ToolUse" ELSE "Stop"))
              /\ UNCHANGED sent
           \/ \E k \in Fresh : /\ Emits(Finishes(local_call(said, k, 1), "Length"))
                               /\ Sends(k, "tool", 1)

-----------------------------------------------------------------------------
(* The stream ends early, does not parse, reports an error of the provider *)
(* or is cancelled: what is open is closed and an error ends the stream.   *)
Breaks ==
  /\ feed.message.started
  /\ Emits(IF provider = "google" THEN google_fails(feed) ELSE Fails(feed))
  /\ UNCHANGED sent

StreamsNext ==
  \/ Begins \/ Breaks
  \/ process_oai_chunk \/ emit_done_from_done_sentinel
  \/ \E k \in Keys : \/ \E kind \in Plain \cup {"tool", "other"} : content_block_start(k, kind)
                     \/ \E args \in Pieces(k) : content_block_delta(k, args)
                     \/ content_block_stop(k)
  \/ message_delta \/ message_stop
  \/ messageStart \/ messageStop \/ parse_metadata_frame
  \/ \E k \in Keys : \/ \E kind \in {"text", "tool"} : contentBlockStart(k, kind)
                     \/ \E args \in Pieces(k) : contentBlockDelta(k, args)
                     \/ contentBlockStop(k)
  \/ process_chunk_text \/ google_terminal_error \/ google_finish_reason \/ google_ends
  \/ \E k \in Keys, args \in {0, 2} : process_function_call(k, args)
  \/ ollama_chunk
  \/ output_text_delta \/ output_item_done \/ response_ends
  \/ \E k \in Keys : \/ output_item_added(k) \/ function_call_arguments_done(k)
                     \/ \E args \in Pieces(k) : function_call_arguments_delta(k, args)
  \/ proxy_event
  \/ process_token \/ local_done

StreamsSpec == StreamsInit /\ [][StreamsNext]_streamVars

-----------------------------------------------------------------------------
AllClosed(m) == \A i \in DOMAIN m.blocks : ~m.blocks[i].open
WholeArguments == \A k \in DOMAIN sent : sent[k].args \in {0, 2}

(* Whatever a provider interleaves and wherever the stream is cut, the     *)
(* core takes every event an adapter emits, in its order: no block is      *)
(* started out of turn, grown after its end or left open at the terminal   *)
(* event, and a stream that ends in Done becomes a message unless the      *)
(* provider itself has cut a call's arguments short (finalize_blocks in    *)
(* every adapter, accumulate_message).                                     *)
StreamAccepted ==
  /\ ~feed.message.fault
  /\ over => AllClosed(feed.message)
  /\ over /\ feed.message.end = "Done" /\ WholeArguments => ~Rejected(feed.message)

ToolBlocks(m) == {i \in DOMAIN m.blocks : m.blocks[i].kind = "tool"}

(* The message has each of the provider's calls once, with exactly the     *)
(* arguments the provider sent for it: pieces that came before the name,   *)
(* rewritten snapshots, arguments sent twice (streamed and whole), calls   *)
(* interleaved or cut by the token limit (process_oai_tool_call_delta,     *)
(* emit_final_tool_deltas, on_event, flush_pending_parsers).               *)
CallsComplete ==
  feed.message.end = "Done" =>
    /\ {feed.message.blocks[i].id : i \in ToolBlocks(feed.message)}
         = {k \in DOMAIN sent : sent[k].kind = "tool"}
    /\ \A i, j \in ToolBlocks(feed.message) :
         feed.message.blocks[i].id = feed.message.blocks[j].id => i = j
    /\ \A i \in ToolBlocks(feed.message) :
         feed.message.blocks[i].json = sent[feed.message.blocks[i].id].args
=============================================================================
