----------------------------- MODULE StreamRetry -----------------------------
(***************************************************************************)
(* One logical model call of the agent loop, src/src/loop_/stream.rs:      *)
(* stream_with_retry tries the primary model and then the fallback models, *)
(* stream_with_retry_single retries one model under the retry strategy,    *)
(* stream_single_attempt collects one provider stream.                     *)
(*                                                                         *)
(* Actors: the loop task, which runs all three; the provider, which sends  *)
(* deltas and errors and may hang; the environment, which may cancel the   *)
(* run or drop the event receiver at any moment.                           *)
(*                                                                         *)
(* The text of an error matters to the code, which looks for keywords in   *)
(* it: a text is here the first keyword class it matches.                  *)
(***************************************************************************)
EXTENDS Integers, Sequences

CONSTANTS
  Fallbacks,    \* number of fallback models
  MaxAttempts,  \* DefaultRetryStrategy::max_attempts
  Retried,      \* the errors the retry strategy retries
  Errors,       \* the error events a provider may send
  MaxDeltas,    \* bound: deltas of one attempt
  Caching,      \* whether the configuration has a cache_config
  Disturbances  \* what the environment may do to the call

(* Keyword classes, in the order classify_stream_error looks for them.     *)
Order == [overflow |-> 1, throttle |-> 2, cache |-> 3, filter |-> 4,
          retired |-> 5, auth |-> 6, plain |-> 7]
Kinds == {"None", "Throttled", "ContextWindowExceeded", "Auth", "Network",
          "ContentFiltered", "ModelRetired"}
Classes == {"ContextWindowOverflow", "ModelThrottled", "CacheMiss",
            "ContentFiltered", "ModelRetired", "Auth", "Aborted", "NetworkError",
            "StreamError"}

ASSUME CallAssumption ==
  /\ Fallbacks \in Nat /\ MaxAttempts \in Nat /\ MaxDeltas \in Nat
  /\ Retried \subseteq Classes
  /\ Errors \subseteq [kind : Kinds, text : DOMAIN Order,
                       stop : {"Error", "Aborted"}]
  /\ Caching \in BOOLEAN
  /\ Disturbances \subseteq {"Cancel", "DropReceiver"}

Models == 0..Fallbacks   \* 0 is the primary model
NoError == [kind |-> "none", text |-> "plain", stop |-> "none"]
NoMessage == [class |-> "none", model |-> 0, text |-> "plain"]

VARIABLES
  emitStart,  \* emit_message_start: FALSE for the retry after an overflow
  pc,         \* where the call is
  model,      \* the model being tried
  attempt,    \* the attempt at it
  buf,        \* deltas collected in this attempt
  err,        \* had_error of this attempt
  replayed,   \* deltas of this attempt handed on so far
  final,      \* what the call does once the deltas are handed on
  sent,       \* the cache hint the turn put on the messages
  hint,       \* the hint on attempt_llm_messages
  cache,      \* CacheState: turns_since_write and cached_prefix_len
  missed,     \* models that reported a cache miss
  cancelled, closed,
  result,     \* the StreamResult
  ev          \* the events delivered, in order

vars == <<emitStart, pc, model, attempt, buf, err, replayed, final,
          sent, hint, cache, missed, cancelled, closed, result, ev>>
attemptVars == <<model, attempt, buf, err>>
cacheVars   == <<sent, hint, cache, missed>>
envVars     == <<cancelled, closed>>
-----------------------------------------------------------------------------
(* Errors.                                                                 *)

OfKind == [Throttled |-> "ModelThrottled", Auth |-> "Auth",
           ContextWindowExceeded |-> "ContextWindowOverflow",
           Network |-> "NetworkError", ContentFiltered |-> "ContentFiltered",
           ModelRetired |-> "ModelRetired"]
OfText == [overflow |-> "ContextWindowOverflow", throttle |-> "ModelThrottled",
           cache |-> "CacheMiss", filter |-> "ContentFiltered",
           retired |-> "ModelRetired", auth |-> "Auth"]

(* The structural kind has priority, then the keywords, then the stop      *)
(* reason.                                                                 *)
classify_stream_error(e) ==
  IF e.kind # "None" THEN OfKind[e.kind]
  ELSE IF e.text # "plain" THEN OfText[e.text]
  ELSE IF e.stop = "Aborted" THEN "Aborted" ELSE "StreamError"

(* The keyword class of the text an AgentError is formatted to: its own    *)
(* wording, and for the variants that carry the provider's text that text, *)
(* whichever class comes first.                                            *)
Wording == [ContextWindowOverflow |-> "overflow", ModelThrottled |-> "throttle",
            CacheMiss |-> "cache", ContentFiltered |-> "filter",
            ModelRetired |-> "plain", Auth |-> "auth", Aborted |-> "plain",
            NetworkError |-> "plain", StreamError |-> "plain"]
Carries == {"NetworkError", "StreamError", "Auth", "ModelRetired"}

format_error_with_sources(class, text) ==
  IF class \in Carries /\ Order[text] < Order[Wording[class]]
  THEN text ELSE Wording[class]

(* build_error_message() keeps the text and drops the kind; a message is   *)
(* known by the class of its error and the class its text would have.      *)
build_error_message(e) ==
  [class |-> classify_stream_error(e), model |-> model,
   text |-> format_error_with_sources(classify_stream_error(e), e.text)]
build_abort_message == [class |-> "Aborted", model |-> model, text |-> "plain"]
Answer    == [class |-> "ok", model |-> model, text |-> "plain"]
Malformed == [class |-> "StreamError", model |-> model, text |-> "plain"]

is_retryable(class) == class \in {"ModelThrottled", "NetworkError"}

(* Eligibility is decided on the message: it is classified once more.      *)
is_fallback_eligible_error(msg) ==
  /\ msg.class \notin {"ok", "Aborted"}
  /\ is_retryable(classify_stream_error([kind |-> "None", text |-> msg.text,
                                         stop |-> "Error"]))

(* defer_fallback_eligible_fatal_errors: another model is still to come.   *)
defer_fallback_eligible_fatal_errors == model < Fallbacks

should_retry(class) == attempt < MaxAttempts /\ class \in Retried
-----------------------------------------------------------------------------
emit(evs, e) == IF closed THEN evs ELSE Append(evs, e)

Return(kind, msg) ==
  /\ pc' = "done"
  /\ result' = [kind |-> kind, msg |-> msg]

(* Hand on the deltas of the attempt, then emit MessageEnd and return.     *)
Replay(kind, msg) ==
  /\ pc' = "replay"
  /\ replayed' = 0
  /\ final' = [kind |-> kind, msg |-> msg]
  /\ UNCHANGED <<attemptVars, result, ev>>

(* The start of an attempt: cancellation is looked at before each one, the *)
(* start event is sent on the first of the primary model.                  *)
StartDue == emitStart /\ attempt = 0 /\ model = 0

AttemptCancelled ==
  /\ pc = "attempt" /\ cancelled
  /\ Return("Aborted", NoMessage)
  /\ UNCHANGED <<emitStart, attemptVars, replayed, final,
                 envVars, ev, cacheVars>>

AttemptUndelivered ==
  /\ pc = "attempt" /\ ~cancelled /\ StartDue /\ closed
  /\ Return("ChannelClosed", NoMessage)
  /\ UNCHANGED <<emitStart, attemptVars, replayed, final,
                 envVars, ev, cacheVars>>

AttemptUncounted ==
  /\ pc = "attempt" /\ ~cancelled /\ (StartDue => ~closed)
  /\ pc' = "stream" /\ attempt' = 1 /\ buf' = 0 /\ err' = NoError
  /\ ev' = IF StartDue THEN emit(ev, <<"Start">>) ELSE ev
  /\ UNCHANGED <<emitStart, model, replayed, final, envVars, result, cacheVars>>
Attempt ==
  /\ pc = "attempt" /\ ~cancelled /\ (StartDue => ~closed)
  /\ pc' = "stream"
  /\ attempt' = attempt + 1
  /\ buf' = 0 /\ err' = NoError
  /\ ev' = IF StartDue THEN emit(ev, <<"Start">>) ELSE ev
  /\ UNCHANGED <<emitStart, model, replayed, final, envVars, result, cacheVars>>
-----------------------------------------------------------------------------
(* stream_single_attempt()                                                 *)

(* The select is not biased, but a received event is followed by a check.  *)
StreamDelta ==
  /\ pc = "stream" /\ ~cancelled
  /\ buf < MaxDeltas
  /\ buf' = buf + 1
  /\ UNCHANGED <<emitStart, pc, model, attempt, err, replayed, final, envVars, result, ev, cacheVars>>

(* An error event; the last one counts.                                    *)
StreamError ==
  /\ pc = "stream" /\ ~cancelled
  /\ \E e \in Errors : e # err /\ err' = e
  /\ UNCHANGED <<emitStart, pc, model, attempt, buf, replayed, final, envVars, result, ev, cacheVars>>

StreamCancelled ==
  /\ pc = "stream" /\ cancelled
  /\ Replay("Aborted", build_abort_message)
  /\ UNCHANGED <<emitStart, envVars, cacheVars>>

(* The stream ends without an error: the events make a message, or are     *)
(* malformed and make an error message.                                    *)
StreamDone ==
  /\ pc = "stream" /\ err = NoError
  /\ \E msg \in {Answer, Malformed} : Replay("Message", msg)
  /\ UNCHANGED <<emitStart, envVars, cacheVars>>

(* CacheState::reset(), and for a retry prepare_cache_miss_retry(): hints  *)
(* become Write, and a prefix that was cached stays the recorded one.      *)
ResetCache == cache' = [turns |-> 0, prefix |-> 0] /\ UNCHANGED hint
prepare_without_rewrite ==
  /\ cache' = [turns |-> 1, prefix |-> cache.prefix] /\ UNCHANGED hint
prepare_cache_miss_retry ==
  IF hint = "None" /\ (cache.prefix = 0 \/ ~Caching)
  THEN ResetCache
  ELSE /\ hint' = (IF hint = "None" THEN "None" ELSE "Write")
       /\ cache' = [turns |-> 1, prefix |-> cache.prefix]

(* handle_stream_error(): what becomes of an attempt that saw an error.    *)
StreamOverflow ==
  /\ pc = "stream" /\ err # NoError
  /\ classify_stream_error(err) = "ContextWindowOverflow"
  /\ Return("ContextOverflow", NoMessage)
  /\ UNCHANGED <<emitStart, attemptVars, replayed, final, cacheVars,
                 envVars, ev>>

StreamAborted ==
  /\ pc = "stream" /\ err # NoError
  /\ classify_stream_error(err) = "Aborted"
  /\ Replay("Aborted", build_abort_message)
  /\ UNCHANGED <<emitStart, cacheVars, envVars>>

(* Retry, give the error to the loop, or keep it back for a fallback.      *)
StreamFailed ==
  /\ pc = "stream" /\ err # NoError
  /\ LET class == classify_stream_error(err)
         miss  == class = "CacheMiss"
         msg   == build_error_message(err)
         hold  == /\ defer_fallback_eligible_fatal_errors
                  /\ is_fallback_eligible_error(msg)
     IN  /\ class \notin {"ContextWindowOverflow", "Aborted"}
         /\ missed' = IF miss THEN missed \union {model} ELSE missed
         /\ IF should_retry(class)
            THEN /\ pc' = "backoff"
                 /\ IF miss THEN prepare_cache_miss_retry
                            ELSE UNCHANGED <<hint, cache>>
                 /\ UNCHANGED <<attemptVars, replayed, final, result, ev>>
            ELSE /\ IF miss THEN ResetCache ELSE UNCHANGED <<hint, cache>>
                 /\ IF hold
                    THEN /\ pc' = "fallback"
                         /\ UNCHANGED <<attemptVars, replayed, final, result, ev>>
                    ELSE Replay("Message", msg)
  /\ UNCHANGED <<emitStart, sent, envVars>>

(* The sleep is not raced with cancellation.                               *)
BackoffOver ==
  /\ pc = "backoff"
  /\ pc' = "attempt"
  /\ UNCHANGED <<emitStart, attemptVars, replayed, final,
                 envVars, result, ev, cacheVars>>
-----------------------------------------------------------------------------
(* emit_attempt_deltas(), one event at a time.                             *)
ReplayDelta ==
  /\ pc = "replay" /\ replayed < buf
  /\ IF closed THEN Return("ChannelClosed", NoMessage) /\ UNCHANGED <<replayed, ev>>
     ELSE /\ replayed' = replayed + 1
          /\ ev' = emit(ev, <<"Update", model, attempt>>)
          /\ UNCHANGED <<pc, result>>
  /\ UNCHANGED <<emitStart, attemptVars, final, envVars, cacheVars>>

(* MessageEnd and the result.  finalize_stream_message() does not look     *)
(* whether the end event of a malformed stream was delivered.              *)
ReplayNoEnd == pc = "replay" /\ replayed = buf /\ Return(final.kind, final.msg) /\ UNCHANGED
  <<emitStart, attemptVars, replayed, final, envVars, ev, cacheVars>>
ReplayEnd ==
  /\ pc = "replay" /\ replayed = buf
  /\ IF closed /\ ~(err = NoError /\ final.msg = Malformed)
     THEN Return("ChannelClosed", NoMessage)
     ELSE Return(final.kind, final.msg)
  /\ ev' = emit(ev, <<"End", final.msg>>)
  /\ UNCHANGED <<emitStart, attemptVars, replayed, final, envVars, cacheVars>>

(* stream_with_retry(): the next model, announced by ModelFallback.        *)
Fallback ==
  /\ pc = "fallback"
  /\ IF closed
     THEN Return("ChannelClosed", NoMessage) /\ UNCHANGED attemptVars
     ELSE /\ pc' = "attempt"
          /\ model' = model + 1 /\ attempt' = 0
          /\ UNCHANGED <<buf, err, result>>
  /\ ev' = emit(ev, <<"Fallback", model + 1>>)
  /\ hint' = sent     \* each model starts from the messages of the turn
  /\ UNCHANGED <<emitStart, replayed, final, sent, cache,
                 missed, envVars>>
-----------------------------------------------------------------------------
Cancel ==
  /\ "Cancel" \in Disturbances /\ pc # "done"
  /\ ~cancelled /\ cancelled' = TRUE
  /\ UNCHANGED <<emitStart, pc, attemptVars, replayed, final,
                 closed, result, ev, cacheVars>>

DropReceiver ==
  /\ "DropReceiver" \in Disturbances /\ pc # "done"
  /\ ~closed /\ closed' = TRUE
  /\ UNCHANGED <<emitStart, pc, attemptVars, replayed, final,
                 cancelled, result, ev, cacheVars>>

Init ==
  /\ emitStart \in BOOLEAN
  /\ pc = "attempt" /\ model = 0 /\ attempt = 0
  /\ buf = 0 /\ err = NoError /\ replayed = 0
  /\ final = [kind |-> "none", msg |-> NoMessage]
  /\ cache \in [turns : 0..2, prefix : 0..1]
  /\ sent \in {"None"} \union (IF Caching /\ cache.prefix = 1 /\ cache.turns > 0
                              THEN {"Read", "Write"} ELSE {})
  /\ ~Caching => cache = [turns |-> 0, prefix |-> 0]
  /\ hint = sent /\ missed = {}
  /\ cancelled = FALSE /\ closed = FALSE
  /\ result = [kind |-> "none", msg |-> NoMessage]
  /\ ev = <<>>

Loop == \/ AttemptCancelled \/ AttemptUndelivered \/ Attempt
        \/ StreamCancelled \/ BackoffOver \/ ReplayDelta \/ ReplayEnd \/ Fallback
StreamEnds == StreamDone \/ StreamOverflow \/ StreamAborted \/ StreamFailed
Provider == StreamDelta \/ StreamError \/ StreamEnds

Next == Loop \/ Provider \/ Cancel \/ DropReceiver

Spec == Init /\ [][Next]_vars

(* The runtime polls the loop task and timers fire; a provider may hang.   *)
FairSpec == Spec /\ WF_vars(Loop)
StreamsEnd == WF_vars(StreamEnds)
-----------------------------------------------------------------------------
(* Properties.                                                             *)

(* Every variable of the call stays in the set of values the code's types  *)
(* and the retry strategy's bound allow.                                   *)
Messages == [class : Classes \union {"ok", "none"}, model : Models,
             text : DOMAIN Order]
Results  == {"none", "Message", "ContextOverflow", "Aborted", "ChannelClosed"}
EventSet == {<<"Start">>} \union ({"Update"} \X Models \X Nat)
              \union ({"Fallback"} \X Models) \union ({"End"} \X Messages)
PlaceType ==
  /\ emitStart \in BOOLEAN /\ cancelled \in BOOLEAN /\ closed \in BOOLEAN
  /\ pc \in {"attempt", "stream", "replay", "backoff", "fallback", "done"}
  /\ model \in Models /\ attempt \in 0..(MaxAttempts + 1)
  /\ buf \in 0..MaxDeltas /\ replayed \in 0..MaxDeltas
  /\ err \in Errors \union {NoError}
ResultType ==
  /\ final \in [kind : Results, msg : Messages]
  /\ result \in [kind : Results, msg : Messages]
EventType == ev \in Seq(EventSet)
CacheType ==
  /\ {sent, hint} \subseteq {"None", "Read", "Write"} /\ missed \subseteq Models
  /\ cache \in [turns : Nat, prefix : 0..1]
TypeInvariant == PlaceType /\ ResultType /\ EventType /\ CacheType

(* What the subscriber of a call that answered has seen, however many      *)
(* attempts and models it took: one MessageStart, first, if this call was  *)
(* to send it, and one MessageEnd, last, with the message the loop goes on *)
(* with.  Deltas come from the terminal attempt only: no partial text of   *)
(* one that was retried, or of a model that was given up.  A context       *)
(* overflow that is still to be recovered leaks neither an end nor a delta.*)
LifecycleClosed ==
  /\ \A n \in DOMAIN ev : ev[n][1] = "Update" => ev[n] = <<"Update", model, attempt>>
  /\ pc = "done" /\ ~closed =>
    /\ result.kind = "Message" =>
         /\ ev # <<>> /\ ev[Len(ev)] = <<"End", result.msg>>
         /\ \A n \in DOMAIN ev : ev[n][1] = "End" => n = Len(ev)
         /\ emitStart => ev[1] = <<"Start">>
         /\ \A n \in DOMAIN ev : ev[n][1] = "Start" => emitStart /\ n = 1
    /\ result.kind = "ContextOverflow" =>
         \A n \in DOMAIN ev : ev[n][1] \notin {"End", "Update"}

(* After a model reported a cache miss, no attempt at it asks to read the  *)
(* cache again: hinted messages go out as writes, and the recorded prefix  *)
(* is the one they write; a miss that is not retried leaves no prefix.     *)
MissRewrites ==
  model \in missed =>
    /\ pc \in {"backoff", "attempt", "stream"} => hint # "Read"
    /\ hint = "Write" /\ pc = "backoff" => cache.prefix = 1 /\ cache.turns = 1
    /\ pc = "replay" /\ final.msg.class = "CacheMiss" => cache.prefix = 0

(* A call ends when every provider stream does, as retries and fallbacks   *)
(* do not go on for ever, and once it is cancelled, even if the provider   *)
(* never answers.                                                          *)
CallEnds == (cancelled ~> (pc = "done")) /\ (StreamsEnd => <>(pc = "done"))
=============================================================================
