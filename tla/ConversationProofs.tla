------------------------ MODULE ConversationProofs ------------------------
(***************************************************************************)
(* Proofs about the two ends of a conversation: one logical model call,    *)
(* for any retry policy, any chain of fallback models, any provider errors *)
(* and any number of deltas; one RPC connection, for any number of turns,  *)
(* events and approvals and any capacity of its channels, which may break  *)
(* between any two steps; and the specification that runs compose of them. *)
(***************************************************************************)
EXTENDS MCConversation, FiniteSetTheorems, TLAPS

(* Between two attempts the retry policy still has one to give, and a      *)
(* model is given up only if another one follows; elsewhere one is going.  *)
Limits ==
  /\ pc \in {"attempt", "backoff"} => attempt <= MaxAttempts
  /\ pc = "fallback" => model < Fallbacks
  /\ pc \notin {"attempt", "done"} => attempt > 0

(* The strengthening for MissRewrites.  While a model may be asked again,  *)
(* hinted messages belong to a recorded prefix ...                         *)
MayAsk == {"attempt", "stream", "backoff", "fallback"}
HintRecorded ==
  /\ hint = "None" <=> sent = "None"
  /\ pc \in MayAsk /\ hint # "None" => cache.prefix = 1
(* ... which a miss makes the prefix now being written ...                 *)
MissWritten ==
  /\ \A m \in missed : m <= model
  /\ model \in missed /\ pc \in MayAsk => hint # "Read"
  /\ model \in missed /\ pc \in MayAsk /\ hint = "Write" => cache.turns = 1
(* ... or, when it is the final answer, leaves nothing recorded.           *)
MissForgotten == pc = "replay" /\ final.msg.class = "CacheMiss" => cache.prefix = 0
CacheSafe == HintRecorded /\ MissWritten /\ MissForgotten

(* The strengthening for LifecycleClosed.  MessageStart is the first event *)
(* of a call that sends one, and delivered before the first attempt ...    *)
StartFirst ==
  /\ \A n \in DOMAIN ev : ev[n][1] = "Start" => emitStart /\ n = 1
  /\ emitStart /\ pc # "done" =>
       IF model = 0 /\ attempt = 0 THEN ev = <<>>
       ELSE ev # <<>> /\ ev[1] = <<"Start">>
(* ... deltas are those of the attempt that is handed on ...               *)
DeltasOfLast ==
  \A n \in DOMAIN ev :
    ev[n][1] = "Update" =>
      pc \in {"replay", "done"} /\ ev[n] = <<"Update", model, attempt>>
(* ... and only a call that has returned has sent MessageEnd, as its last. *)
EndLast ==
  \A n \in DOMAIN ev : ev[n][1] = "End" => pc = "done" /\ n = Len(ev)
(* What a call that returned has left behind.                              *)
AnswerDelivered ==
  pc = "done" /\ ~closed =>
    /\ result.kind = "Message" =>
         /\ ev # <<>> /\ ev[Len(ev)] = <<"End", result.msg>>
         /\ emitStart => ev[1] = <<"Start">>
    /\ result.kind = "ContextOverflow" =>
         \A n \in DOMAIN ev : ev[n][1] \notin {"End", "Update"}
(* An attempt that is handed on does not end in an overflow.               *)
FinalKind == pc = "replay" => final.kind \in {"Message", "Aborted"}
Delivery == /\ StartFirst /\ DeltasOfLast /\ EndLast /\ AnswerDelivered /\ FinalKind

-----------------------------------------------------------------------------
(* What classification and formatting return.                              *)
LEMMA Keywords ==
  DOMAIN Order = {"overflow", "throttle", "cache", "filter", "retired", "auth", "plain"}
  BY DEF Order

LEMMA Classified ==
  ASSUME NEW e \in Errors PROVE classify_stream_error(e) \in Classes
<1>1. e.kind \in Kinds /\ e.text \in DOMAIN Order /\ e.stop \in {"Error", "Aborted"}
  BY CallAssumption
<1>2. CASE e.kind # "None"
  BY <1>1, <1>2 DEF classify_stream_error, OfKind, Kinds, Classes
<1>3. CASE e.kind = "None" /\ e.text # "plain"
  BY <1>1, <1>3, Keywords DEF classify_stream_error, OfText, Classes
<1>4. CASE e.kind = "None" /\ e.text = "plain"
  BY <1>1, <1>4 DEF classify_stream_error, Classes
<1> QED BY <1>2, <1>3, <1>4

LEMMA Formatted ==
  ASSUME NEW c \in Classes, NEW t \in DOMAIN Order
  PROVE  format_error_with_sources(c, t) \in DOMAIN Order
<1>1. Wording[c] \in DOMAIN Order
  BY Keywords DEF Wording, Classes
<1> QED BY <1>1 DEF format_error_with_sources

LEMMA Built ==
  ASSUME NEW e \in Errors, model \in Models
  PROVE  /\ build_error_message(e) \in Messages
         /\ build_error_message(e).class = classify_stream_error(e)
<1>1. e.text \in DOMAIN Order
  BY CallAssumption
<1>2. classify_stream_error(e) \in Classes
  BY Classified
<1>3. format_error_with_sources(classify_stream_error(e), e.text) \in DOMAIN Order
  BY <1>1, <1>2, Formatted
<1> QED BY <1>2, <1>3 DEF build_error_message, Messages

LEMMA Known ==
  ASSUME PlaceType
  PROVE  /\ NoMessage \in Messages /\ build_abort_message \in Messages
         /\ Answer \in Messages /\ Malformed \in Messages
         /\ \A e \in Errors : build_error_message(e) \in Messages
<1>1. model \in Models /\ 0 \in Models
  BY CallAssumption DEF PlaceType, Models
<1>2. \A e \in Errors : build_error_message(e) \in Messages
  BY <1>1, Built
<1> QED BY <1>1, <1>2, Keywords DEF NoMessage, build_abort_message, Answer,
   Malformed, Messages, Classes

(* A cache miss is never kept back for a fallback model.                   *)
LEMMA MissNotHeld ==
  ASSUME NEW e \in Errors, classify_stream_error(e) = "CacheMiss"
  PROVE  ~is_fallback_eligible_error(build_error_message(e))
<1>1. build_error_message(e).text = "cache"
  BY DEF build_error_message, format_error_with_sources, Carries, Wording
<1> QED BY <1>1 DEF is_fallback_eligible_error, is_retryable,
   classify_stream_error, OfText

(* The type invariant, with the limits it rests on.                        *)
CallTyped == PlaceType /\ ResultType /\ EventType /\ CacheType /\ Limits

(* The types, the attempts within the retry policy and the models within   *)
(* the chain are kept by every step.                                       *)
LEMMA CallInvariant == Spec => []CallTyped
<1>1. Init => CallTyped
  <2> SUFFICES ASSUME Init PROVE CallTyped
    OBVIOUS
  <2>1. PlaceType /\ Limits
    <3>1. emitStart \in BOOLEAN /\ cancelled \in BOOLEAN /\ closed \in BOOLEAN
      BY ZenonT(30) DEF Init
    <3>2. /\ pc = "attempt" /\ model = 0 /\ attempt = 0
          /\ buf = 0 /\ err = NoError /\ replayed = 0
      BY DEF Init
    <3> QED BY <3>1, <3>2, CallAssumption DEF PlaceType, Limits, Models
  <2>2. CacheType
    <3>1. hint = sent /\ missed = {} /\ sent \in {"None", "Read", "Write"}
      BY DEF Init
    <3>2. cache \in [turns : 0..2, prefix : 0..1]
      BY DEF Init
    <3> QED BY <3>1, <3>2 DEF CacheType
  <2>3. ResultType /\ EventType
    BY <2>1, Known DEF Init, ResultType, Results, EventType
  <2> QED BY <2>1, <2>2, <2>3 DEF CallTyped
<1>2. CallTyped /\ [Next]_vars => CallTyped'
  <2> SUFFICES ASSUME CallTyped, [Next]_vars PROVE CallTyped'
    OBVIOUS
  <2>1. CASE AttemptCancelled
    <3>1. PlaceType'
      BY <2>1, CallAssumption DEF CallTyped, AttemptCancelled, Return,
         attemptVars, envVars, PlaceType, Models, NoError, ResultType,
         CacheType, Limits
    <3>2. ResultType'
      BY <2>1, CallAssumption, Known DEF CallTyped, AttemptCancelled, Return,
         attemptVars, cacheVars, ResultType, PlaceType, CacheType, Limits,
         Models, Results
    <3>3. Limits'
      BY <2>1, CallAssumption DEF CallTyped, AttemptCancelled, Return,
         attemptVars, Limits, PlaceType, ResultType, CacheType, Models
    <3> QED BY <2>1, <3>1, <3>2, <3>3 DEF CallTyped, AttemptCancelled,
       attemptVars, cacheVars, EventType, CacheType
  <2>2. CASE AttemptUndelivered
    <3>1. PlaceType'
      BY <2>2, CallAssumption DEF CallTyped, AttemptUndelivered, StartDue,
         Return, attemptVars, envVars, PlaceType, Models, NoError, ResultType,
         CacheType, Limits
    <3>2. ResultType'
      BY <2>2, CallAssumption, Known DEF CallTyped, AttemptUndelivered,
         StartDue, Return, attemptVars, cacheVars, ResultType, PlaceType,
         CacheType, Limits, Models, Results
    <3>3. Limits'
      BY <2>2, CallAssumption DEF CallTyped, AttemptUndelivered, StartDue,
         Return, attemptVars, Limits, PlaceType, ResultType, CacheType, Models
    <3> QED BY <2>2, <3>1, <3>2, <3>3 DEF CallTyped, AttemptUndelivered,
       attemptVars, cacheVars, EventType, CacheType
  <2>3. CASE Attempt
    <3>1. PlaceType'
      BY <2>3, CallAssumption DEF CallTyped, Attempt, StartDue, NoError, emit,
         envVars, PlaceType, Models, ResultType, CacheType, Limits
    <3>2. EventType'
      BY <2>3, CallAssumption DEF CallTyped, Attempt, StartDue, NoError, emit,
         cacheVars, EventType, PlaceType, ResultType, CacheType, Limits,
         Models, EventSet
    <3>3. Limits'
      BY <2>3, CallAssumption DEF CallTyped, Attempt, StartDue, NoError, emit,
         Limits, PlaceType, ResultType, CacheType, Models
    <3> QED BY <2>3, <3>1, <3>2, <3>3 DEF CallTyped, Attempt, cacheVars,
       ResultType, CacheType
  <2>4. CASE StreamCancelled
    <3>1. PlaceType'
      BY <2>4, CallAssumption DEF CallTyped, StreamCancelled, Replay,
         attemptVars, envVars, PlaceType, Models, NoError, ResultType,
         CacheType, Limits
    <3>2. ResultType'
      BY <2>4, CallAssumption, Known DEF CallTyped, StreamCancelled, Replay,
         attemptVars, cacheVars, ResultType, PlaceType, CacheType, Limits,
         Models, Results
    <3>3. Limits'
      BY <2>4, CallAssumption DEF CallTyped, StreamCancelled, Replay,
         attemptVars, Limits, PlaceType, ResultType, CacheType, Models
    <3> QED BY <2>4, <3>1, <3>2, <3>3 DEF CallTyped, StreamCancelled, Replay,
       attemptVars, cacheVars, EventType, CacheType
  <2>5. CASE BackoffOver
    <3>1. PlaceType'
      BY <2>5, CallAssumption DEF CallTyped, BackoffOver, attemptVars,
         envVars, PlaceType, Models, NoError, ResultType, CacheType, Limits
    <3>2. Limits'
      BY <2>5, CallAssumption DEF CallTyped, BackoffOver, attemptVars, Limits,
         PlaceType, ResultType, CacheType, Models
    <3> QED BY <2>5, <3>1, <3>2 DEF CallTyped, BackoffOver, attemptVars,
       cacheVars, ResultType, EventType, CacheType
  <2>6. CASE ReplayDelta
    <3>1. PlaceType'
      BY <2>6, CallAssumption DEF CallTyped, ReplayDelta, Return, emit,
         attemptVars, envVars, PlaceType, Models, NoError, ResultType,
         CacheType, Limits
    <3>2. ResultType'
      BY <2>6, CallAssumption, Known DEF CallTyped, ReplayDelta, Return, emit,
         attemptVars, cacheVars, ResultType, PlaceType, CacheType, Limits,
         Models, Results
    <3>3. EventType'
      <4>1. <<"Update", model, attempt>> \in EventSet
        BY CallAssumption DEF CallTyped, PlaceType, EventSet
      <4>2. ev' = ev \/ ev' = Append(ev, <<"Update", model, attempt>>)
        BY <2>6 DEF ReplayDelta, emit
      <4> QED BY <4>1, <4>2, SMTT(40) DEF CallTyped, EventType
    <3>4. Limits'
      BY <2>6, CallAssumption DEF CallTyped, ReplayDelta, Return, emit,
         attemptVars, Limits, PlaceType, ResultType, CacheType, Models
    <3> QED BY <2>6, <3>1, <3>2, <3>3, <3>4 DEF CallTyped, ReplayDelta,
       cacheVars, CacheType
  <2>7. CASE ReplayEnd
    <3>1. PlaceType'
      BY <2>7, CallAssumption DEF CallTyped, ReplayEnd, NoError, Return, emit,
         attemptVars, envVars, PlaceType, Models, ResultType, CacheType,
         Limits
    <3>2. ResultType'
      BY <2>7, CallAssumption, Known DEF CallTyped, ReplayEnd, NoError,
         Return, emit, attemptVars, cacheVars, ResultType, PlaceType,
         CacheType, Limits, Models, Results
    <3>3. EventType'
      BY <2>7, CallAssumption DEF CallTyped, ReplayEnd, NoError, Return, emit,
         attemptVars, cacheVars, EventType, PlaceType, ResultType, CacheType,
         Limits, Models, EventSet
    <3>4. Limits'
      BY <2>7, CallAssumption DEF CallTyped, ReplayEnd, NoError, Return, emit,
         attemptVars, Limits, PlaceType, ResultType, CacheType, Models
    <3> QED BY <2>7, <3>1, <3>2, <3>3, <3>4 DEF CallTyped, ReplayEnd,
       cacheVars, CacheType
  <2>8. CASE Fallback
    <3>1. PlaceType'
      BY <2>8, CallAssumption, SMTT(40) DEF CallTyped, Fallback, Return,
         attemptVars, emit, envVars, PlaceType, Models, NoError, ResultType,
         CacheType, Limits
    <3>2. ResultType'
      BY <2>8, CallAssumption, Known DEF CallTyped, Fallback, Return,
         attemptVars, emit, ResultType, PlaceType, CacheType, Limits, Models,
         Results
    <3>3. EventType'
      <4>1. <<"Fallback", model + 1>> \in EventSet
        BY <2>8, CallAssumption DEF Fallback, CallTyped, PlaceType, Limits,
           Models, EventSet
      <4>2. ev' = ev \/ ev' = Append(ev, <<"Fallback", model + 1>>)
        BY <2>8 DEF Fallback, emit
      <4> QED BY <4>1, <4>2, SMTT(40) DEF CallTyped, EventType
    <3>4. CacheType'
      BY <2>8, CallAssumption DEF CallTyped, Fallback, Return, emit,
         CacheType, Models, PlaceType, ResultType, Limits
    <3>5. Limits'
      BY <2>8, CallAssumption DEF CallTyped, Fallback, Return, attemptVars,
         emit, Limits, PlaceType, ResultType, CacheType, Models
    <3> QED BY <2>8, <3>1, <3>2, <3>3, <3>4, <3>5 DEF CallTyped
  <2>9. CASE StreamDone
    <3>1. PlaceType'
      BY <2>9, CallAssumption DEF CallTyped, StreamDone, NoError, Replay,
         attemptVars, envVars, PlaceType, Models, ResultType, CacheType,
         Limits
    <3>2. ResultType'
      BY <2>9, CallAssumption, Known DEF CallTyped, StreamDone, NoError,
         Replay, attemptVars, cacheVars, ResultType, PlaceType, CacheType,
         Limits, Models, Results
    <3>3. Limits'
      BY <2>9, CallAssumption DEF CallTyped, StreamDone, NoError, Replay,
         attemptVars, Limits, PlaceType, ResultType, CacheType, Models
    <3> QED BY <2>9, <3>1, <3>2, <3>3 DEF CallTyped, StreamDone, Replay,
       attemptVars, cacheVars, EventType, CacheType
  <2>10. CASE StreamOverflow
    <3>1. PlaceType'
      BY <2>10, CallAssumption DEF CallTyped, StreamOverflow, NoError, Return,
         attemptVars, envVars, PlaceType, Models, ResultType, CacheType,
         Limits
    <3>2. ResultType'
      BY <2>10, CallAssumption, Known DEF CallTyped, StreamOverflow, NoError,
         Return, attemptVars, cacheVars, ResultType, PlaceType, CacheType,
         Limits, Models, Results
    <3>3. Limits'
      BY <2>10, CallAssumption DEF CallTyped, StreamOverflow, NoError, Return,
         attemptVars, Limits, PlaceType, ResultType, CacheType, Models
    <3> QED BY <2>10, <3>1, <3>2, <3>3 DEF CallTyped, StreamOverflow,
       attemptVars, cacheVars, EventType, CacheType
  <2>11. CASE StreamAborted
    <3>1. PlaceType'
      BY <2>11, CallAssumption DEF CallTyped, StreamAborted, NoError, Replay,
         attemptVars, envVars, PlaceType, Models, ResultType, CacheType,
         Limits
    <3>2. ResultType'
      BY <2>11, CallAssumption, Known DEF CallTyped, StreamAborted, NoError,
         Replay, attemptVars, cacheVars, ResultType, PlaceType, CacheType,
         Limits, Models, Results
    <3>3. Limits'
      BY <2>11, CallAssumption DEF CallTyped, StreamAborted, NoError, Replay,
         attemptVars, Limits, PlaceType, ResultType, CacheType, Models
    <3> QED BY <2>11, <3>1, <3>2, <3>3 DEF CallTyped, StreamAborted, Replay,
       attemptVars, cacheVars, EventType, CacheType
  <2>12. CASE StreamFailed
    <3>1. PlaceType'
      BY <2>12, CallAssumption DEF CallTyped, StreamFailed, NoError,
         defer_fallback_eligible_fatal_errors, should_retry,
         prepare_cache_miss_retry, ResetCache, attemptVars, Replay, envVars,
         PlaceType, Models, ResultType, CacheType, Limits
    <3>2. ResultType'
      <4>1. err \in Errors
        BY <2>12 DEF StreamFailed, CallTyped, PlaceType
      <4>2. build_error_message(err) \in Messages
        BY <4>1, Known DEF CallTyped
      <4>3. \/ UNCHANGED final
            \/ final' = [kind |-> "Message", msg |-> build_error_message(err)]
        BY <2>12 DEF StreamFailed, Replay
      <4>4. UNCHANGED result
        BY <2>12 DEF StreamFailed, Replay
      <4> QED BY <4>2, <4>3, <4>4 DEF CallTyped, ResultType, Results
    <3>3. EventType'
      BY <2>12, CallAssumption DEF CallTyped, StreamFailed, NoError,
         defer_fallback_eligible_fatal_errors, should_retry,
         prepare_cache_miss_retry, ResetCache, attemptVars, Replay, EventType,
         PlaceType, ResultType, CacheType, Limits, Models, EventSet
    <3>4. CacheType'
      <4>1. missed' \subseteq Models /\ sent' = sent
        BY <2>12 DEF StreamFailed, CallTyped, PlaceType, CacheType
      <4>2. hint' \in {hint, "None", "Write"}
        BY <2>12 DEF StreamFailed, prepare_cache_miss_retry, ResetCache
      <4>3. \/ cache' = cache \/ cache' = [turns |-> 0, prefix |-> 0]
            \/ cache' = [turns |-> 1, prefix |-> cache.prefix]
        BY <2>12 DEF StreamFailed, prepare_cache_miss_retry, ResetCache
      <4>4. cache' \in [turns : Nat, prefix : 0..1]
        BY <4>3 DEF CallTyped, CacheType
      <4> QED BY <4>1, <4>2, <4>4 DEF CallTyped, CacheType
    <3>5. Limits'
      BY <2>12, CallAssumption DEF CallTyped, StreamFailed, NoError,
         defer_fallback_eligible_fatal_errors, should_retry,
         prepare_cache_miss_retry, ResetCache, attemptVars, Replay, Limits,
         PlaceType, ResultType, CacheType, Models
    <3> QED BY <2>12, <3>1, <3>2, <3>3, <3>4, <3>5 DEF CallTyped
  <2>13. CASE StreamDelta
    <3>1. PlaceType'
      BY <2>13, CallAssumption DEF CallTyped, StreamDelta, envVars, PlaceType,
         Models, NoError, ResultType, CacheType, Limits
    <3> QED BY <2>13, <3>1 DEF CallTyped, StreamDelta, cacheVars, ResultType,
       EventType, CacheType, Limits
  <2>14. CASE StreamError
    <3>1. PlaceType'
      BY <2>14, CallAssumption DEF CallTyped, StreamError, envVars, PlaceType,
         Models, NoError, ResultType, CacheType, Limits
    <3> QED BY <2>14, <3>1 DEF CallTyped, StreamError, cacheVars, ResultType,
       EventType, CacheType, Limits
  <2>15. CASE Cancel
    <3>1. PlaceType'
      BY <2>15, CallAssumption DEF CallTyped, Cancel, attemptVars, PlaceType,
         Models, NoError, ResultType, CacheType, Limits
    <3> QED BY <2>15, <3>1 DEF CallTyped, Cancel, attemptVars, cacheVars,
       ResultType, EventType, CacheType, Limits
  <2>16. CASE DropReceiver
    <3>1. PlaceType'
      BY <2>16, CallAssumption DEF CallTyped, DropReceiver, attemptVars,
         PlaceType, Models, NoError, ResultType, CacheType, Limits
    <3> QED BY <2>16, <3>1 DEF CallTyped, DropReceiver, attemptVars,
       cacheVars, ResultType, EventType, CacheType, Limits
  <2>17. CASE UNCHANGED vars
    BY <2>17 DEF vars, CallTyped, PlaceType, ResultType, EventType, CacheType,
       Limits
  <2> QED BY <2>1, <2>2, <2>3, <2>4, <2>5, <2>6, <2>7, <2>8, <2>9, <2>10,
     <2>11, <2>12, <2>13, <2>14, <2>15, <2>16, <2>17 DEF Next, Loop, Provider,
     StreamEnds
<1> QED BY <1>1, <1>2, PTL DEF Spec

(* Every variable of the call keeps to its type.                           *)
THEOREM CallTypeCorrect == Spec => []TypeInvariant
<1>1. CallTyped => TypeInvariant
  BY DEF CallTyped, TypeInvariant
<1> QED BY <1>1, CallInvariant, PTL

(* However retries, fallbacks and misses follow each other, the hints and  *)
(* the recorded prefix agree.                                              *)
THEOREM MissesRewritten == Spec => []MissRewrites
<1>1. Init => CacheSafe
  <2> SUFFICES ASSUME Init PROVE CacheSafe
    OBVIOUS
  <2>1. hint # "None" => cache.prefix = 1
    BY DEF Init
  <2> QED BY <2>1 DEF Init, CacheSafe, HintRecorded, MissWritten, MissForgotten,
     NoMessage
<1>2. CallTyped /\ CacheSafe /\ [Next]_vars => CacheSafe'
  <2> SUFFICES ASSUME CallTyped, CacheSafe, [Next]_vars PROVE CacheSafe'
    OBVIOUS
  <2>1. CASE AttemptCancelled
    <3>1. HintRecorded'
      BY <2>1 DEF CacheSafe, AttemptCancelled, Return, cacheVars,
         HintRecorded, MayAsk, CallTyped, PlaceType, CacheType, MissWritten,
         Models
    <3>2. MissWritten'
      BY <2>1 DEF CacheSafe, AttemptCancelled, Return, attemptVars, cacheVars,
         MissWritten, MayAsk, CallTyped, PlaceType, CacheType, HintRecorded,
         Models
    <3>3. MissForgotten'
      BY <2>1 DEF CacheSafe, AttemptCancelled, Return, cacheVars,
         MissForgotten, CallTyped, PlaceType, CacheType, HintRecorded,
         MissWritten, Models
    <3> QED BY <2>1, <3>1, <3>2, <3>3 DEF CacheSafe
  <2>2. CASE AttemptUndelivered
    <3>1. HintRecorded'
      BY <2>2 DEF CacheSafe, AttemptUndelivered, StartDue, Return, cacheVars,
         HintRecorded, MayAsk, CallTyped, PlaceType, CacheType, MissWritten,
         Models
    <3>2. MissWritten'
      BY <2>2 DEF CacheSafe, AttemptUndelivered, StartDue, Return,
         attemptVars, cacheVars, MissWritten, MayAsk, CallTyped, PlaceType,
         CacheType, HintRecorded, Models
    <3>3. MissForgotten'
      BY <2>2 DEF CacheSafe, AttemptUndelivered, StartDue, Return, cacheVars,
         MissForgotten, CallTyped, PlaceType, CacheType, HintRecorded,
         MissWritten, Models
    <3> QED BY <2>2, <3>1, <3>2, <3>3 DEF CacheSafe
  <2>3. CASE Attempt
    <3>1. HintRecorded'
      BY <2>3 DEF CacheSafe, Attempt, StartDue, NoError, emit, cacheVars,
         HintRecorded, MayAsk, CallTyped, PlaceType, CacheType, MissWritten,
         Models
    <3>2. MissWritten'
      BY <2>3 DEF CacheSafe, Attempt, StartDue, NoError, emit, cacheVars,
         MissWritten, MayAsk, CallTyped, PlaceType, CacheType, HintRecorded,
         Models
    <3>3. MissForgotten'
      BY <2>3 DEF CacheSafe, Attempt, StartDue, NoError, emit, cacheVars,
         MissForgotten, CallTyped, PlaceType, CacheType, HintRecorded,
         MissWritten, Models
    <3> QED BY <2>3, <3>1, <3>2, <3>3 DEF CacheSafe
  <2>4. CASE StreamCancelled
    <3>1. HintRecorded'
      BY <2>4 DEF CacheSafe, StreamCancelled, Replay, cacheVars, HintRecorded,
         MayAsk, CallTyped, PlaceType, CacheType, MissWritten, Models,
         build_abort_message
    <3>2. MissWritten'
      BY <2>4 DEF CacheSafe, StreamCancelled, Replay, attemptVars, cacheVars,
         MissWritten, MayAsk, CallTyped, PlaceType, CacheType, HintRecorded,
         Models, build_abort_message
    <3>3. MissForgotten'
      BY <2>4 DEF CacheSafe, StreamCancelled, Replay, cacheVars,
         MissForgotten, CallTyped, PlaceType, CacheType, HintRecorded,
         MissWritten, Models, build_abort_message
    <3> QED BY <2>4, <3>1, <3>2, <3>3 DEF CacheSafe
  <2>5. CASE BackoffOver
    <3>1. HintRecorded'
      BY <2>5 DEF CacheSafe, BackoffOver, cacheVars, HintRecorded, MayAsk,
         CallTyped, PlaceType, CacheType, MissWritten, Models
    <3>2. MissWritten'
      BY <2>5 DEF CacheSafe, BackoffOver, attemptVars, cacheVars, MissWritten,
         MayAsk, CallTyped, PlaceType, CacheType, HintRecorded, Models
    <3>3. MissForgotten'
      BY <2>5 DEF CacheSafe, BackoffOver, cacheVars, MissForgotten, CallTyped,
         PlaceType, CacheType, HintRecorded, MissWritten, Models
    <3> QED BY <2>5, <3>1, <3>2, <3>3 DEF CacheSafe
  <2>6. CASE ReplayDelta
    <3>1. HintRecorded'
      BY <2>6 DEF CacheSafe, ReplayDelta, Return, emit, cacheVars,
         HintRecorded, MayAsk, CallTyped, PlaceType, CacheType, MissWritten,
         Models
    <3>2. MissWritten'
      BY <2>6 DEF CacheSafe, ReplayDelta, Return, emit, attemptVars,
         cacheVars, MissWritten, MayAsk, CallTyped, PlaceType, CacheType,
         HintRecorded, Models
    <3>3. MissForgotten'
      BY <2>6 DEF CacheSafe, ReplayDelta, Return, emit, cacheVars,
         MissForgotten, CallTyped, PlaceType, CacheType, HintRecorded,
         MissWritten, Models
    <3> QED BY <2>6, <3>1, <3>2, <3>3 DEF CacheSafe
  <2>7. CASE ReplayEnd
    <3>1. HintRecorded'
      BY <2>7 DEF CacheSafe, ReplayEnd, NoError, Return, emit, cacheVars,
         HintRecorded, MayAsk, CallTyped, PlaceType, CacheType, MissWritten,
         Models
    <3>2. MissWritten'
      BY <2>7 DEF CacheSafe, ReplayEnd, NoError, Return, emit, attemptVars,
         cacheVars, MissWritten, MayAsk, CallTyped, PlaceType, CacheType,
         HintRecorded, Models
    <3>3. MissForgotten'
      BY <2>7 DEF CacheSafe, ReplayEnd, NoError, Return, emit, cacheVars,
         MissForgotten, CallTyped, PlaceType, CacheType, HintRecorded,
         MissWritten, Models
    <3> QED BY <2>7, <3>1, <3>2, <3>3 DEF CacheSafe
  <2>8. CASE Fallback
    <3>1. HintRecorded'
      BY <2>8 DEF CacheSafe, Fallback, Return, emit, HintRecorded, MayAsk,
         CallTyped, PlaceType, CacheType, MissWritten, Models
    <3>2. MissWritten'
      BY <2>8 DEF CacheSafe, Fallback, Return, attemptVars, emit, MissWritten,
         MayAsk, CallTyped, PlaceType, CacheType, HintRecorded, Models
    <3>3. MissForgotten'
      BY <2>8 DEF CacheSafe, Fallback, Return, emit, MissForgotten, CallTyped,
         PlaceType, CacheType, HintRecorded, MissWritten, Models
    <3> QED BY <2>8, <3>1, <3>2, <3>3 DEF CacheSafe
  <2>9. CASE StreamDone
    <3>1. HintRecorded'
      BY <2>9 DEF CacheSafe, StreamDone, NoError, Replay, cacheVars,
         HintRecorded, MayAsk, CallTyped, PlaceType, CacheType, MissWritten,
         Models, Answer, Malformed
    <3>2. MissWritten'
      BY <2>9 DEF CacheSafe, StreamDone, NoError, Replay, attemptVars,
         cacheVars, MissWritten, MayAsk, CallTyped, PlaceType, CacheType,
         HintRecorded, Models, Answer, Malformed
    <3>3. MissForgotten'
      BY <2>9 DEF CacheSafe, StreamDone, NoError, Replay, cacheVars,
         MissForgotten, CallTyped, PlaceType, CacheType, HintRecorded,
         MissWritten, Models, Answer, Malformed
    <3> QED BY <2>9, <3>1, <3>2, <3>3 DEF CacheSafe
  <2>10. CASE StreamOverflow
    <3>1. HintRecorded'
      BY <2>10 DEF CacheSafe, StreamOverflow, NoError, Return, cacheVars,
         HintRecorded, MayAsk, CallTyped, PlaceType, CacheType, MissWritten,
         Models
    <3>2. MissWritten'
      BY <2>10 DEF CacheSafe, StreamOverflow, NoError, Return, attemptVars,
         cacheVars, MissWritten, MayAsk, CallTyped, PlaceType, CacheType,
         HintRecorded, Models
    <3>3. MissForgotten'
      BY <2>10 DEF CacheSafe, StreamOverflow, NoError, Return, cacheVars,
         MissForgotten, CallTyped, PlaceType, CacheType, HintRecorded,
         MissWritten, Models
    <3> QED BY <2>10, <3>1, <3>2, <3>3 DEF CacheSafe
  <2>11. CASE StreamAborted
    <3>1. HintRecorded'
      BY <2>11 DEF CacheSafe, StreamAborted, NoError, Replay, cacheVars,
         HintRecorded, MayAsk, CallTyped, PlaceType, CacheType, MissWritten,
         Models, build_abort_message
    <3>2. MissWritten'
      BY <2>11 DEF CacheSafe, StreamAborted, NoError, Replay, attemptVars,
         cacheVars, MissWritten, MayAsk, CallTyped, PlaceType, CacheType,
         HintRecorded, Models, build_abort_message
    <3>3. MissForgotten'
      BY <2>11 DEF CacheSafe, StreamAborted, NoError, Replay, cacheVars,
         MissForgotten, CallTyped, PlaceType, CacheType, HintRecorded,
         MissWritten, Models, build_abort_message
    <3> QED BY <2>11, <3>1, <3>2, <3>3 DEF CacheSafe
  <2>12. CASE StreamFailed
    <3>1. err \in Errors
      BY <2>12 DEF StreamFailed, CallTyped, PlaceType
    <3>2. CASE classify_stream_error(err) = "CacheMiss"
      <4>1. ~is_fallback_eligible_error(build_error_message(err))
        BY <3>1, <3>2, MissNotHeld
      <4>2. CASE should_retry("CacheMiss")
        <5>1. /\ pc' = "backoff" /\ prepare_cache_miss_retry
              /\ UNCHANGED <<sent, model, final>>
          BY <2>12, <3>2, <4>2 DEF StreamFailed, attemptVars
        <5>2. missed' = missed \cup {model}
          BY <2>12, <3>2 DEF StreamFailed
        <5> QED BY <2>12, <5>1, <5>2 DEF StreamFailed, prepare_cache_miss_retry,
           ResetCache, CacheSafe, HintRecorded, MissWritten, MissForgotten,
           MayAsk, CallTyped, PlaceType, CacheType, Models
      <4>3. CASE ~should_retry("CacheMiss")
        <5>1. pc' = "replay" /\ ResetCache /\ UNCHANGED <<sent, model>>
          BY <2>12, <3>2, <4>1, <4>3 DEF StreamFailed, Replay, attemptVars
        <5>2. missed' = missed \cup {model}
          BY <2>12, <3>2 DEF StreamFailed
        <5> QED BY <5>1, <5>2 DEF ResetCache, CacheSafe, HintRecorded, MissWritten,
                MissForgotten, MayAsk, CallTyped, PlaceType, CacheType, Models
      <4> QED BY <4>2, <4>3
    <3>3. CASE classify_stream_error(err) # "CacheMiss"
      <4>1. UNCHANGED <<sent, hint, cache, missed, model>>
        BY <2>12, <3>3 DEF StreamFailed, Replay, attemptVars
      <4>2. pc = "stream" /\ pc' \in {"backoff", "fallback", "replay"}
        BY <2>12 DEF StreamFailed, Replay
      <4>3. pc' = "replay" => final'.msg.class # "CacheMiss"
        <5>1. build_error_message(err).class # "CacheMiss"
          BY <3>1, <3>3, Built DEF CallTyped, PlaceType
        <5>2. pc' = "replay" => final'.msg = build_error_message(err)
          BY <2>12 DEF StreamFailed, Replay
        <5> QED BY <5>1, <5>2
      <4> QED BY <4>1, <4>2, <4>3 DEF CacheSafe, HintRecorded, MissWritten,
              MissForgotten, MayAsk
    <3> QED BY <3>2, <3>3
  <2>13. CASE StreamDelta
    <3> QED BY <2>13 DEF CacheSafe, StreamDelta, cacheVars, HintRecorded,
       MissWritten, MissForgotten
  <2>14. CASE StreamError
    <3> QED BY <2>14 DEF CacheSafe, StreamError, cacheVars, HintRecorded,
       MissWritten, MissForgotten
  <2>15. CASE Cancel
    <3> QED BY <2>15 DEF CacheSafe, Cancel, attemptVars, cacheVars,
       HintRecorded, MissWritten, MissForgotten
  <2>16. CASE DropReceiver
    <3> QED BY <2>16 DEF CacheSafe, DropReceiver, attemptVars, cacheVars,
       HintRecorded, MissWritten, MissForgotten
  <2>17. CASE UNCHANGED vars
    BY <2>17 DEF vars, CacheSafe, HintRecorded, MissWritten, MissForgotten
  <2> QED BY <2>1, <2>2, <2>3, <2>4, <2>5, <2>6, <2>7, <2>8, <2>9, <2>10,
     <2>11, <2>12, <2>13, <2>14, <2>15, <2>16, <2>17 DEF Next, Loop, Provider,
     StreamEnds
<1>3. CallTyped /\ CacheSafe => MissRewrites
  BY DEF CallTyped, CacheType, CacheSafe, HintRecorded, MissWritten,
     MissForgotten, MayAsk, MissRewrites
<1> QED BY <1>1, <1>2, <1>3, CallInvariant, PTL DEF Spec

(* The subscriber of a call sees one message: started once, made of the    *)
(* deltas of one attempt, ended once.                                      *)
THEOREM LifecycleIsClosed == Spec => []LifecycleClosed
<1>1. Init => Delivery
  BY DEF Init, Delivery, StartFirst, DeltasOfLast, EndLast, AnswerDelivered,
     FinalKind
<1>2. CallTyped /\ Delivery /\ [Next]_vars => Delivery'
  <2> SUFFICES ASSUME CallTyped, Delivery, [Next]_vars PROVE Delivery'
    OBVIOUS
  <2>1. CASE AttemptCancelled
    <3>1. StartFirst'
      BY <2>1 DEF Delivery, AttemptCancelled, Return, attemptVars, StartFirst,
         CallTyped, PlaceType, Limits, Models, EventType
    <3>2. DeltasOfLast'
      BY <2>1 DEF Delivery, AttemptCancelled, Return, attemptVars,
         DeltasOfLast, CallTyped, PlaceType, Limits, Models, EventType
    <3>3. EndLast'
      BY <2>1 DEF Delivery, AttemptCancelled, Return, EndLast, CallTyped,
         PlaceType, Limits, Models, EventType
    <3>4. AnswerDelivered'
      BY <2>1 DEF Delivery, AttemptCancelled, Return, envVars,
         AnswerDelivered, CallTyped, PlaceType, Limits, Models, EventType
    <3>5. FinalKind'
      BY <2>1 DEF Delivery, AttemptCancelled, Return, FinalKind, CallTyped,
         PlaceType, Limits, Models, EventType
    <3> QED BY <2>1, <3>1, <3>2, <3>3, <3>4, <3>5 DEF Delivery
  <2>2. CASE AttemptUndelivered
    <3>1. StartFirst'
      BY <2>2 DEF Delivery, AttemptUndelivered, StartDue, Return, attemptVars,
         StartFirst, CallTyped, PlaceType, Limits, Models, EventType
    <3>2. DeltasOfLast'
      BY <2>2 DEF Delivery, AttemptUndelivered, StartDue, Return, attemptVars,
         DeltasOfLast, CallTyped, PlaceType, Limits, Models, EventType
    <3>3. EndLast'
      BY <2>2 DEF Delivery, AttemptUndelivered, StartDue, Return, EndLast,
         CallTyped, PlaceType, Limits, Models, EventType
    <3>4. AnswerDelivered'
      BY <2>2 DEF Delivery, AttemptUndelivered, StartDue, Return, envVars,
         AnswerDelivered, CallTyped, PlaceType, Limits, Models, EventType
    <3>5. FinalKind'
      BY <2>2 DEF Delivery, AttemptUndelivered, StartDue, Return, FinalKind,
         CallTyped, PlaceType, Limits, Models, EventType
    <3> QED BY <2>2, <3>1, <3>2, <3>3, <3>4, <3>5 DEF Delivery
  <2>3. CASE Attempt
    <3>1. StartFirst'
      BY <2>3 DEF Delivery, Attempt, StartDue, NoError, emit, StartFirst,
         CallTyped, PlaceType, Limits, Models, EventType
    <3>2. DeltasOfLast'
      BY <2>3 DEF Delivery, Attempt, StartDue, NoError, emit, DeltasOfLast,
         CallTyped, PlaceType, Limits, Models, EventType
    <3>3. EndLast'
      BY <2>3 DEF Delivery, Attempt, StartDue, NoError, emit, EndLast,
         CallTyped, PlaceType, Limits, Models, EventType
    <3>4. AnswerDelivered'
      BY <2>3 DEF Delivery, Attempt, StartDue, NoError, emit, envVars,
         AnswerDelivered, CallTyped, PlaceType, Limits, Models, EventType
    <3>5. FinalKind'
      BY <2>3 DEF Delivery, Attempt, StartDue, NoError, emit, FinalKind,
         CallTyped, PlaceType, Limits, Models, EventType
    <3> QED BY <2>3, <3>1, <3>2, <3>3, <3>4, <3>5 DEF Delivery
  <2>4. CASE StreamCancelled
    <3>1. StartFirst'
      BY <2>4 DEF Delivery, StreamCancelled, Replay, attemptVars, StartFirst,
         CallTyped, PlaceType, Limits, Models, EventType
    <3>2. DeltasOfLast'
      BY <2>4 DEF Delivery, StreamCancelled, Replay, attemptVars,
         DeltasOfLast, CallTyped, PlaceType, Limits, Models, EventType
    <3>3. EndLast'
      BY <2>4 DEF Delivery, StreamCancelled, Replay, EndLast, CallTyped,
         PlaceType, Limits, Models, EventType
    <3>4. AnswerDelivered'
      BY <2>4 DEF Delivery, StreamCancelled, Replay, envVars, AnswerDelivered,
         CallTyped, PlaceType, Limits, Models, EventType
    <3>5. FinalKind'
      BY <2>4 DEF Delivery, StreamCancelled, Replay, FinalKind, CallTyped,
         PlaceType, Limits, Models, EventType
    <3> QED BY <2>4, <3>1, <3>2, <3>3, <3>4, <3>5 DEF Delivery
  <2>5. CASE BackoffOver
    <3>1. StartFirst'
      BY <2>5 DEF Delivery, BackoffOver, attemptVars, StartFirst, CallTyped,
         PlaceType, Limits, Models, EventType
    <3>2. DeltasOfLast'
      BY <2>5 DEF Delivery, BackoffOver, attemptVars, DeltasOfLast, CallTyped,
         PlaceType, Limits, Models, EventType
    <3>3. EndLast'
      BY <2>5 DEF Delivery, BackoffOver, EndLast, CallTyped, PlaceType,
         Limits, Models, EventType
    <3>4. AnswerDelivered'
      BY <2>5 DEF Delivery, BackoffOver, envVars, AnswerDelivered, CallTyped,
         PlaceType, Limits, Models, EventType
    <3>5. FinalKind'
      BY <2>5 DEF Delivery, BackoffOver, FinalKind, CallTyped, PlaceType,
         Limits, Models, EventType
    <3> QED BY <2>5, <3>1, <3>2, <3>3, <3>4, <3>5 DEF Delivery
  <2>6. CASE ReplayDelta
    <3>1. StartFirst'
      <4>1. \/ UNCHANGED ev
            \/ ev' = Append(ev, <<"Update", model, attempt>>) /\ pc' = "replay"
        BY <2>6 DEF ReplayDelta, emit
      <4>2. /\ UNCHANGED <<emitStart, model, attempt, closed>>
            /\ pc' \in {"replay", "done"} /\ pc = "replay"
        BY <2>6 DEF ReplayDelta, Return, attemptVars, envVars
      <4>3. CASE UNCHANGED ev
        BY <2>6, <4>2, <4>3 DEF Delivery, StartFirst, DeltasOfLast, EndLast,
           CallTyped, Limits
      <4>4. CASE ev' = Append(ev, <<"Update", model, attempt>>) /\ pc' = "replay"
        <5> DEFINE u == <<"Update", model, attempt>>
        <5>1. u[1] = "Update"
          OBVIOUS
        <5>2. /\ DOMAIN ev' = 1..(Len(ev) + 1) /\ DOMAIN ev = 1..Len(ev)
              /\ Len(ev) \in Nat
              /\ \A n \in 1..Len(ev) : ev'[n] = ev[n]
              /\ ev'[Len(ev) + 1] = u
          BY <4>4 DEF CallTyped, EventType
        <5> HIDE DEF u
        <5> QED BY <4>2, <4>4, <5>1, <5>2 DEF u, Delivery, StartFirst,
           DeltasOfLast, EndLast, CallTyped, PlaceType, Limits
      <4> QED BY <4>1, <4>3, <4>4
    <3>2. DeltasOfLast'
      <4>1. \/ UNCHANGED ev
            \/ ev' = Append(ev, <<"Update", model, attempt>>) /\ pc' = "replay"
        BY <2>6 DEF ReplayDelta, emit
      <4>2. /\ UNCHANGED <<emitStart, model, attempt, closed>>
            /\ pc' \in {"replay", "done"} /\ pc = "replay"
        BY <2>6 DEF ReplayDelta, Return, attemptVars, envVars
      <4>3. CASE UNCHANGED ev
        BY <2>6, <4>2, <4>3 DEF Delivery, StartFirst, DeltasOfLast, EndLast,
           CallTyped, Limits
      <4>4. CASE ev' = Append(ev, <<"Update", model, attempt>>) /\ pc' = "replay"
        <5> DEFINE u == <<"Update", model, attempt>>
        <5>1. u[1] = "Update"
          OBVIOUS
        <5>2. /\ DOMAIN ev' = 1..(Len(ev) + 1) /\ DOMAIN ev = 1..Len(ev)
              /\ Len(ev) \in Nat
              /\ \A n \in 1..Len(ev) : ev'[n] = ev[n]
              /\ ev'[Len(ev) + 1] = u
          BY <4>4 DEF CallTyped, EventType
        <5> HIDE DEF u
        <5> QED BY <4>2, <4>4, <5>1, <5>2 DEF u, Delivery, StartFirst,
           DeltasOfLast, EndLast, CallTyped, PlaceType, Limits
      <4> QED BY <4>1, <4>3, <4>4
    <3>3. EndLast'
      <4>1. \/ UNCHANGED ev
            \/ ev' = Append(ev, <<"Update", model, attempt>>) /\ pc' = "replay"
        BY <2>6 DEF ReplayDelta, emit
      <4>2. /\ UNCHANGED <<emitStart, model, attempt, closed>>
            /\ pc' \in {"replay", "done"} /\ pc = "replay"
        BY <2>6 DEF ReplayDelta, Return, attemptVars, envVars
      <4>3. CASE UNCHANGED ev
        BY <2>6, <4>2, <4>3 DEF Delivery, StartFirst, DeltasOfLast, EndLast,
           CallTyped, Limits
      <4>4. CASE ev' = Append(ev, <<"Update", model, attempt>>) /\ pc' = "replay"
        <5> DEFINE u == <<"Update", model, attempt>>
        <5>1. u[1] = "Update"
          OBVIOUS
        <5>2. /\ DOMAIN ev' = 1..(Len(ev) + 1) /\ DOMAIN ev = 1..Len(ev)
              /\ Len(ev) \in Nat
              /\ \A n \in 1..Len(ev) : ev'[n] = ev[n]
              /\ ev'[Len(ev) + 1] = u
          BY <4>4 DEF CallTyped, EventType
        <5> HIDE DEF u
        <5> QED BY <4>2, <4>4, <5>1, <5>2 DEF u, Delivery, StartFirst,
           DeltasOfLast, EndLast, CallTyped, PlaceType, Limits
      <4> QED BY <4>1, <4>3, <4>4
    <3>4. AnswerDelivered'
      BY <2>6 DEF Delivery, ReplayDelta, Return, emit, envVars,
         AnswerDelivered, CallTyped, PlaceType, Limits, Models, EventType
    <3>5. FinalKind'
      BY <2>6 DEF Delivery, ReplayDelta, Return, emit, FinalKind, CallTyped,
         PlaceType, Limits, Models, EventType
    <3> QED BY <2>6, <3>1, <3>2, <3>3, <3>4, <3>5 DEF Delivery
  <2>7. CASE ReplayEnd
    <3>1. StartFirst'
      BY <2>7 DEF Delivery, ReplayEnd, NoError, Return, emit, attemptVars,
         StartFirst, CallTyped, PlaceType, Limits, Models, EventType
    <3>2. DeltasOfLast'
      BY <2>7 DEF Delivery, ReplayEnd, NoError, Return, emit, attemptVars,
         DeltasOfLast, CallTyped, PlaceType, Limits, Models, EventType
    <3>3. EndLast'
      BY <2>7 DEF Delivery, ReplayEnd, NoError, Return, emit, EndLast,
         CallTyped, PlaceType, Limits, Models, EventType
    <3>4. AnswerDelivered'
      <4> SUFFICES ASSUME ~closed PROVE AnswerDelivered'
        BY <2>7 DEF ReplayEnd, envVars, AnswerDelivered
      <4>1. /\ pc = "replay" /\ UNCHANGED <<emitStart, model, attempt>>
            /\ result' = [kind |-> final.kind, msg |-> final.msg]
            /\ ev' = Append(ev, <<"End", final.msg>>)
        BY <2>7 DEF ReplayEnd, Return, emit, attemptVars
      <4>2. /\ Len(ev') = Len(ev) + 1 /\ DOMAIN ev' = 1..(Len(ev) + 1)
            /\ Len(ev) \in Nat
            /\ \A n \in 1..Len(ev) : ev'[n] = ev[n]
            /\ ev'[Len(ev) + 1] = <<"End", final.msg>>
        BY <4>1 DEF CallTyped, EventType
      <4>3. emitStart => ev # <<>> /\ ev[1] = <<"Start">>
        BY <4>1 DEF Delivery, StartFirst, CallTyped, Limits
      <4>4. ev' # <<>> /\ ev'[Len(ev')] = <<"End", result'.msg>>
        BY <4>1, <4>2
      <4>5. emitStart' => ev'[1] = <<"Start">>
        BY <4>1, <4>2, <4>3 DEF CallTyped, EventType
      <4>6. result'.kind # "ContextOverflow"
        BY <4>1 DEF Delivery, FinalKind
      <4> QED BY <4>4, <4>5, <4>6 DEF AnswerDelivered
    <3>5. FinalKind'
      BY <2>7 DEF Delivery, ReplayEnd, NoError, Return, emit, FinalKind,
         CallTyped, PlaceType, Limits, Models, EventType
    <3> QED BY <2>7, <3>1, <3>2, <3>3, <3>4, <3>5 DEF Delivery
  <2>8. CASE Fallback
    <3>1. StartFirst'
      BY <2>8, SMTT(40) DEF Delivery, Fallback, Return, attemptVars, emit,
         StartFirst, CallTyped, PlaceType, Limits, Models, EventType
    <3>2. DeltasOfLast'
      BY <2>8 DEF Delivery, Fallback, Return, attemptVars, emit, DeltasOfLast,
         CallTyped, PlaceType, Limits, Models, EventType
    <3>3. EndLast'
      BY <2>8 DEF Delivery, Fallback, Return, emit, EndLast, CallTyped,
         PlaceType, Limits, Models, EventType
    <3>4. AnswerDelivered'
      BY <2>8 DEF Delivery, Fallback, Return, emit, envVars, AnswerDelivered,
         CallTyped, PlaceType, Limits, Models, EventType
    <3>5. FinalKind'
      BY <2>8 DEF Delivery, Fallback, Return, emit, FinalKind, CallTyped,
         PlaceType, Limits, Models, EventType
    <3> QED BY <2>8, <3>1, <3>2, <3>3, <3>4, <3>5 DEF Delivery
  <2>9. CASE StreamDone
    <3>1. StartFirst'
      BY <2>9 DEF Delivery, StreamDone, NoError, Replay, attemptVars,
         StartFirst, CallTyped, PlaceType, Limits, Models, EventType
    <3>2. DeltasOfLast'
      BY <2>9 DEF Delivery, StreamDone, NoError, Replay, attemptVars,
         DeltasOfLast, CallTyped, PlaceType, Limits, Models, EventType
    <3>3. EndLast'
      BY <2>9 DEF Delivery, StreamDone, NoError, Replay, EndLast, CallTyped,
         PlaceType, Limits, Models, EventType
    <3>4. AnswerDelivered'
      BY <2>9 DEF Delivery, StreamDone, NoError, Replay, envVars,
         AnswerDelivered, CallTyped, PlaceType, Limits, Models, EventType
    <3>5. FinalKind'
      BY <2>9 DEF Delivery, StreamDone, NoError, Replay, FinalKind, CallTyped,
         PlaceType, Limits, Models, EventType
    <3> QED BY <2>9, <3>1, <3>2, <3>3, <3>4, <3>5 DEF Delivery
  <2>10. CASE StreamOverflow
    <3>1. StartFirst'
      BY <2>10 DEF Delivery, StreamOverflow, NoError, Return, attemptVars,
         StartFirst, CallTyped, PlaceType, Limits, Models, EventType,
         DeltasOfLast, EndLast
    <3>2. DeltasOfLast'
      BY <2>10 DEF Delivery, StreamOverflow, NoError, Return, attemptVars,
         DeltasOfLast, CallTyped, PlaceType, Limits, Models, EventType,
         EndLast
    <3>3. EndLast'
      BY <2>10 DEF Delivery, StreamOverflow, NoError, Return, EndLast,
         CallTyped, PlaceType, Limits, Models, EventType, DeltasOfLast
    <3>4. AnswerDelivered'
      BY <2>10 DEF Delivery, StreamOverflow, NoError, Return, envVars,
         AnswerDelivered, CallTyped, PlaceType, Limits, Models, EventType,
         DeltasOfLast, EndLast
    <3>5. FinalKind'
      BY <2>10 DEF Delivery, StreamOverflow, NoError, Return, FinalKind,
         CallTyped, PlaceType, Limits, Models, EventType, DeltasOfLast,
         EndLast
    <3> QED BY <2>10, <3>1, <3>2, <3>3, <3>4, <3>5 DEF Delivery
  <2>11. CASE StreamAborted
    <3>1. StartFirst'
      BY <2>11 DEF Delivery, StreamAborted, NoError, Replay, attemptVars,
         StartFirst, CallTyped, PlaceType, Limits, Models, EventType
    <3>2. DeltasOfLast'
      BY <2>11 DEF Delivery, StreamAborted, NoError, Replay, attemptVars,
         DeltasOfLast, CallTyped, PlaceType, Limits, Models, EventType
    <3>3. EndLast'
      BY <2>11 DEF Delivery, StreamAborted, NoError, Replay, EndLast,
         CallTyped, PlaceType, Limits, Models, EventType
    <3>4. AnswerDelivered'
      BY <2>11 DEF Delivery, StreamAborted, NoError, Replay, envVars,
         AnswerDelivered, CallTyped, PlaceType, Limits, Models, EventType
    <3>5. FinalKind'
      BY <2>11 DEF Delivery, StreamAborted, NoError, Replay, FinalKind,
         CallTyped, PlaceType, Limits, Models, EventType
    <3> QED BY <2>11, <3>1, <3>2, <3>3, <3>4, <3>5 DEF Delivery
  <2>12. CASE StreamFailed
    <3>1. StartFirst'
      BY <2>12 DEF Delivery, StreamFailed, NoError,
         defer_fallback_eligible_fatal_errors, should_retry, attemptVars,
         Replay, StartFirst, CallTyped, PlaceType, Limits, Models, EventType
    <3>2. DeltasOfLast'
      BY <2>12 DEF Delivery, StreamFailed, NoError,
         defer_fallback_eligible_fatal_errors, should_retry, attemptVars,
         Replay, DeltasOfLast, CallTyped, PlaceType, Limits, Models, EventType
    <3>3. EndLast'
      BY <2>12 DEF Delivery, StreamFailed, NoError,
         defer_fallback_eligible_fatal_errors, should_retry, Replay, EndLast,
         CallTyped, PlaceType, Limits, Models, EventType
    <3>4. AnswerDelivered'
      BY <2>12 DEF Delivery, StreamFailed, NoError,
         defer_fallback_eligible_fatal_errors, should_retry, Replay, envVars,
         AnswerDelivered, CallTyped, PlaceType, Limits, Models, EventType
    <3>5. FinalKind'
      BY <2>12 DEF Delivery, StreamFailed, NoError,
         defer_fallback_eligible_fatal_errors, should_retry, Replay,
         FinalKind, CallTyped, PlaceType, Limits, Models, EventType
    <3> QED BY <2>12, <3>1, <3>2, <3>3, <3>4, <3>5 DEF Delivery
  <2>13. CASE StreamDelta
    <3> QED BY <2>13 DEF Delivery, StreamDelta, envVars, StartFirst,
       DeltasOfLast, EndLast, AnswerDelivered, FinalKind
  <2>14. CASE StreamError
    <3> QED BY <2>14 DEF Delivery, StreamError, envVars, StartFirst,
       DeltasOfLast, EndLast, AnswerDelivered, FinalKind
  <2>15. CASE Cancel
    <3> QED BY <2>15 DEF Delivery, Cancel, attemptVars, StartFirst,
       DeltasOfLast, EndLast, AnswerDelivered, FinalKind
  <2>16. CASE DropReceiver
    <3>1. AnswerDelivered'
      BY <2>16 DEF Delivery, DropReceiver, AnswerDelivered, CallTyped,
         PlaceType, Limits, Models, EventType
    <3> QED BY <2>16, <3>1 DEF Delivery, DropReceiver, attemptVars,
       StartFirst, DeltasOfLast, EndLast, FinalKind
  <2>17. CASE UNCHANGED vars
    BY <2>17 DEF vars, Delivery, StartFirst, DeltasOfLast, EndLast,
       AnswerDelivered, FinalKind
  <2> QED BY <2>1, <2>2, <2>3, <2>4, <2>5, <2>6, <2>7, <2>8, <2>9, <2>10,
     <2>11, <2>12, <2>13, <2>14, <2>15, <2>16, <2>17 DEF Next, Loop, Provider,
     StreamEnds
<1>3. Delivery => LifecycleClosed
  BY DEF Delivery, StartFirst, DeltasOfLast, EndLast, AnswerDelivered,
     LifecycleClosed
<1> QED BY <1>1, <1>2, <1>3, CallInvariant, PTL DEF Spec

-----------------------------------------------------------------------------
(* The messages a turn is about: its events, its prompt, and the           *)
(* successful response to it; and what each side of the connection may     *)
(* say. A client's own message is none of its calls.                       *)
Event(n) == Notification("agent.event", n)
Prompt(n) == Request(PromptCall(n))
Reply(n) == Response(PromptCall(n), TRUE)

Said == {Notification(x, 0) : x \in {"initialize", "cancel", "shutdown"}}
        \cup {Response(r, TRUE) : r \in ServerCalls}
ToServer == Said \cup {Request(r) : r \in ClientCalls}
ToClient == {Notification(x, 0) : x \in {"none", "initialized", "error"}}
            \cup {Event(n) : n \in Turns} \cup {Request(r) : r \in ServerCalls}
            \cup {Response(r, TRUE) : r \in ClientCalls} \cup {Response(r, FALSE) : r \in ClientCalls}
(* The states of the server's session and of the client.                   *)
SessionStates ==
  [pc : {"handshake", "send", "build", "idle", "turn", "closed"}, msg : ToClient,
   next : {"build", "idle", "turn", "closed"}, turn : 0 .. MaxTurns, aborted : BOOLEAN]
ClientStates ==
  [pc : {"handshake", "send", "ready", "turn", "drain", "gone"}, msg : Said,
   next : {"handshake", "turn", "drain", "gone"}, turn : 0 .. MaxTurns]
Marks == {"none", "checked", "registered", "waiting", "ok", "failed", "dropped"}
Calls == ClientCalls \cup ServerCalls

(* The type invariant of AgentRpc: what is under way, the two ends, and    *)
(* the peers' tasks.                                                       *)
QueueType ==
  /\ outbound \in [Sides -> Seq(ToServer) \cup Seq(ToClient)]
  /\ incoming \in [Sides -> Seq(ToServer) \cup Seq(ToClient)]
  /\ outbound["client"] \in Seq(ToServer) /\ incoming["server"] \in Seq(ToServer)
  /\ outbound["server"] \in Seq(ToClient) /\ incoming["client"] \in Seq(ToClient)
EndType ==
  /\ session \in SessionStates /\ client \in ClientStates
  /\ call \in [Calls -> Marks]
  /\ emitted \in [Turns -> Nat] /\ heard \in [Turns -> Nat] /\ returned \subseteq Turns
TaskType ==
  /\ reader \in [Sides -> {"run", "draining", "ended"}]
  /\ writer \in [Sides -> {"run", "draining", "ended"}]
  /\ flag \in [Sides -> BOOLEAN] /\ pending \in [Sides -> SUBSET Calls]
RpcType == QueueType /\ EndType /\ TaskType

(* How often a message is in a queue.                                      *)
Count(s, m) == Cardinality({i \in DOMAIN s : s[i] = m})
One(b) == IF b THEN 1 ELSE 0

(* A message is counted 0 times exactly if it is nowhere in the queue.     *)
LEMMA CountFacts ==
  ASSUME NEW S, NEW s \in Seq(S), NEW m
  PROVE  Count(s, m) \in Nat /\ (Count(s, m) = 0 <=> \A i \in DOMAIN s : s[i] # m)
<1> DEFINE I == {i \in DOMAIN s : s[i] = m}
<1>1. IsFiniteSet(1 .. Len(s)) /\ I \subseteq 1 .. Len(s)
  BY FS_Interval
<1>2. IsFiniteSet(I)
  BY <1>1, FS_Subset
<1>3. Cardinality(I) \in Nat /\ (Cardinality(I) = 0 <=> I = {})
  BY <1>2, FS_CardinalityType, FS_EmptySet
<1> QED BY <1>3 DEF Count

(* Enqueue: the message appended is counted once more.                     *)
LEMMA CountAppend ==
  ASSUME NEW S, NEW s \in Seq(S), NEW e \in S
  PROVE  /\ Append(s, e) \in Seq(S)
         /\ \A m : Count(Append(s, e), m) = Count(s, m) + One(e = m)
<1>1. Append(s, e) \in Seq(S)
  OBVIOUS
<1>2. ASSUME NEW m PROVE Count(Append(s, e), m) = Count(s, m) + One(e = m)
  <2> DEFINE I == {i \in DOMAIN s : s[i] = m}
             J == {i \in DOMAIN Append(s, e) : Append(s, e)[i] = m}
  <2>1. /\ DOMAIN s = 1 .. Len(s) /\ Len(s) \in Nat
        /\ DOMAIN Append(s, e) = 1 .. Len(s) + 1
    OBVIOUS
  <2>2. \A i \in 1 .. Len(s) : Append(s, e)[i] = s[i]
    OBVIOUS
  <2>3. Append(s, e)[Len(s) + 1] = e
    OBVIOUS
  <2>4. IsFiniteSet(1 .. Len(s)) /\ I \subseteq 1 .. Len(s)
    BY <2>1, FS_Interval
  <2>5. IsFiniteSet(I) /\ Cardinality(I) \in Nat
    BY <2>4, FS_Subset, FS_CardinalityType
  <2>6. CASE e = m
    <3>1. J = I \cup {Len(s) + 1} /\ Len(s) + 1 \notin I
      BY <2>1, <2>2, <2>3, <2>6
    <3>2. Cardinality(J) = Cardinality(I) + 1
      BY <3>1, <2>5, FS_AddElement
    <3> QED BY <3>2, <2>6 DEF Count, One
  <2>7. CASE e # m
    <3>1. J = I
      BY <2>1, <2>2, <2>3, <2>7
    <3>2. Cardinality(J) = Cardinality(I)
      BY <3>1
    <3>3. Cardinality(J) = Cardinality(I) + 0
      <4> HIDE DEF I, J
      <4> QED BY <3>2, <2>5
    <3> QED BY <3>3, <2>7 DEF Count, One
  <2> QED BY <2>6, <2>7
<1> QED BY <1>1, <1>2

(* A queue's head is read: it is counted once less.                        *)
LEMMA CountTail ==
  ASSUME NEW S, NEW s \in Seq(S), s # << >>
  PROVE  /\ Head(s) \in S /\ Tail(s) \in Seq(S)
         /\ \A m : Count(s, m) = Count(Tail(s), m) + One(Head(s) = m)
<1>1. Head(s) \in S /\ Tail(s) \in Seq(S)
  OBVIOUS
<1>2. ASSUME NEW m PROVE Count(s, m) = Count(Tail(s), m) + One(Head(s) = m)
  <2> DEFINE t == Tail(s)
             I == {i \in DOMAIN t : t[i] = m}
             J == {i \in DOMAIN s : s[i] = m} \ {1}
             f == [i \in I |-> i + 1]
  <2>1. Len(s) \in Nat \ {0} /\ DOMAIN s = 1 .. Len(s) /\ DOMAIN t = 1 .. Len(s) - 1
        /\ \A i \in 1 .. Len(s) - 1 : t[i] = s[i + 1]
    OBVIOUS
  <2>2. IsFiniteSet(1 .. Len(s)) /\ IsFiniteSet(1 .. Len(s) - 1)
    BY <2>1, FS_Interval
  <2>3. IsFiniteSet(I) /\ IsFiniteSet(J)
    BY <2>1, <2>2, FS_Subset
  <2>4. f \in Bijection(I, J)
    <3>1. \A i \in I : i + 1 \in J
      BY <2>1
    <3>2. \A j \in J : j - 1 \in I /\ j \in Int
      BY <2>1
    <3>3. \A i, j \in I : i + 1 = j + 1 => i = j
      BY <2>1
    <3> HIDE DEF I, J
    <3>4. f \in [I -> J]
      BY <3>1
    <3>5. \A j \in J : j - 1 \in I /\ f[j - 1] = j
      BY <3>2
    <3> QED BY <3>3, <3>4, <3>5 DEF Bijection, Injection, Surjection, IsInjective
  <2>5. Cardinality(I) = Cardinality(J) /\ Cardinality(I) \in Nat
    <3> HIDE DEF I, J, f
    <3>1. ExistsBijection(I, J)
      BY <2>4 DEF ExistsBijection
    <3> QED BY <2>3, <3>1, FS_Bijection, FS_CardinalityType
  <2>6. Head(s) = s[1]
    BY <2>1
  <2>7. CASE Head(s) = m
    <3>1. {i \in DOMAIN s : s[i] = m} = J \cup {1} /\ 1 \notin J
      BY <2>1, <2>6, <2>7
    <3>2. Cardinality({i \in DOMAIN s : s[i] = m}) = Cardinality(J) + 1
      BY <3>1, <2>3, FS_AddElement
    <3> QED BY <3>2, <2>5, <2>7 DEF Count, One
  <2>8. CASE Head(s) # m
    <3>1. Cardinality({i \in DOMAIN s : s[i] = m}) = Cardinality(J)
      <4>1. {i \in DOMAIN s : s[i] = m} = J
        BY <2>1, <2>6, <2>8
      <4> QED BY <4>1
    <3>2. Cardinality({i \in DOMAIN s : s[i] = m}) = Cardinality(I) + 0
      <4> DEFINE K == {i \in DOMAIN s : s[i] = m}
      <4>1. Cardinality(K) = Cardinality(J)
        BY <3>1
      <4> HIDE DEF I, J, K
      <4>2. Cardinality(K) = Cardinality(I) + 0
        BY <4>1, <2>5
      <4> QED BY <4>2 DEF K
    <3> QED BY <3>2, <2>8 DEF Count, One
  <2> QED BY <2>7, <2>8
<1> QED BY <1>1, <1>2

(* The events of a turn on their way from the session to on_event: the one *)
(* run_prompt is about to send, and those in the two channels.             *)
Sending(m) == session.pc = "send" /\ session.msg = m
Coming(n) == One(Sending(Event(n))) + Count(outbound["server"], Event(n))
             + Count(incoming["client"], Event(n))
(* The successful response to a turn's prompt, before and after the reader *)
(* task of the client has resolved the call with it.                       *)
Replies(n) == One(Sending(Reply(n))) + Count(outbound["server"], Reply(n))
              + One(call[PromptCall(n)] = "ok")
Unasked(n) == call[PromptCall(n)] \in {"none", "checked", "registered"}
(* Where a turn's prompt is, from before it is sent until its response has *)
(* been used: what the server may still make of it.                        *)
Chances(n) == One(Unasked(n)) + Count(outbound["client"], Prompt(n))
              + Count(incoming["server"], Prompt(n)) + One(session.turn = n) + Replies(n)

(* A turn has one prompt, and it is in one place: no turn is run twice,    *)
(* and none is answered while it runs.                                     *)
Single == \A n \in Turns : Chances(n) <= 1
(* What run_prompt is about to send belongs to the turn it runs.           *)
OwnTurn == \A n \in Turns : Sending(Event(n)) => session.turn = n
(* No event comes behind its turn's response in the socket, and none is    *)
(* left there once the call is resolved: the rest is in the client's       *)
(* channel.                                                                *)
Behind == \A n \in Turns :
  /\ \A i, j \in DOMAIN outbound["server"] :
       i < j /\ outbound["server"][i] = Reply(n) => outbound["server"][j] # Event(n)
  /\ call[PromptCall(n)] = "ok" => Count(outbound["server"], Event(n)) = 0
(* Nothing exists of a turn that has not started.                          *)
Unstarted == \A n \in Turns : n > client.turn =>
  /\ call[PromptCall(n)] = "none" /\ emitted[n] = 0 /\ heard[n] = 0 /\ Coming(n) = 0
  /\ n \notin returned
NoneFailed(n) == \A k \in 1 .. n - 1 : call[PromptCall(k)] # "failed"
Fair(n) == NoneFailed(n) /\ call[PromptCall(n)] # "failed"
(* While no prompt was given up and the client has not left, every event   *)
(* of the turn was heard or is on its way, unless the session closed with  *)
(* one unsent and then no success is reported.                             *)
Counted ==
  LET n == client.turn
  IN  n > 0 /\ Fair(n) /\ client.pc # "gone" /\ (session.pc # "closed" \/ Replies(n) > 0) =>
        heard[n] + Coming(n) = emitted[n]
(* A turn whose predecessors were not given up follows turns that          *)
(* returned.                                                               *)
Before == \A n \in 1 .. client.turn : Fair(n) => 1 .. n - 1 \subseteq returned
(* The client is between turns, or leaving.                                *)
Over == client.pc \in {"ready", "gone"} \/ (client.pc = "send" /\ client.next = "gone")
(* A turn that returned is over, and the events of a fair one have been    *)
(* heard.                                                                  *)
AllHeard == \A n \in returned :
  /\ call[PromptCall(n)] = "ok" /\ n <= client.turn /\ (n = client.turn => Over)
  /\ NoneFailed(n) => heard[n] = emitted[n] /\ Coming(n) = 0
(* The turn before the next one has returned or failed, or the connection  *)
(* is gone, and then the next call fails at once (ensure_connected).       *)
Ready == client.pc = "ready" /\ client.turn > 0 =>
  client.turn \in returned \/ call[PromptCall(client.turn)] = "failed" \/ flag["client"]
(* drain_ready_incoming runs only after the prompt's success.              *)
Draining == client.pc = "drain" \/ (client.pc = "send" /\ client.next = "drain") =>
  call[PromptCall(client.turn)] = "ok"
(* A writer task that stops by itself has marked the connection; it ends   *)
(* without a mark only after the client has left.                          *)
Flagged ==
  /\ writer["client"] = "draining" => flag["client"]
  /\ writer["client"] = "ended" => flag["client"] \/ client.pc = "gone"
(* run_prompt has a turn, and the client's turn fits its place.            *)
Prompted ==
  session.pc = "turn" \/ (session.pc = "send" /\ session.next = "turn") => session.turn > 0
Places ==
  /\ client.pc = "handshake" \/ (client.pc = "send" /\ client.next = "handshake") => client.turn = 0
  /\ InTurn => client.turn > 0
  /\ Prompted
Wire == Single /\ OwnTurn /\ Behind
Ends == Unstarted /\ Counted /\ Before /\ AllHeard /\ Ready /\ Draining /\ Flagged /\ Places
RpcSafe == Wire /\ Ends

(* The names of calls are different, and a side's are its own.             *)
LEMMA CallNames ==
  /\ \A n \in Turns : PromptCall(n) \in ClientCalls /\ PromptCall(n) # ControlCall
  /\ \A n, k \in Turns : PromptCall(n) = PromptCall(k) => n = k
  /\ ControlCall \in ClientCalls
  /\ ClientCalls \cap ServerCalls = {}
<1>1. \A n \in Turns : PromptCall(n) \in ClientCalls /\ PromptCall(n) # ControlCall
  BY DEF PromptCall, ControlCall, ClientCalls
<1>2. \A n, k \in Turns : PromptCall(n) = PromptCall(k) => n = k
  BY DEF PromptCall
<1>3. ControlCall \in ClientCalls
  BY DEF ClientCalls
<1>4. ClientCalls \cap ServerCalls = {}
  BY DEF ClientCalls, ServerCalls, PromptCall, ApproveCall, ControlCall
<1> QED BY <1>1, <1>2, <1>3, <1>4

(* The messages of different turns and kinds are different messages.       *)
LEMMA Apart ==
  /\ \A n, k \in Turns : Event(n) = Event(k) \/ Reply(n) = Reply(k) \/ Prompt(n) = Prompt(k) => n = k
  /\ \A n, k \in Turns : Event(n) # Reply(k)
  /\ \A n \in Turns, r \in ServerCalls : Request(r) # Event(n) /\ Request(r) # Reply(n)
  /\ \A n \in Turns, r \in ClientCalls : Response(r, FALSE) # Event(n) /\ Response(r, FALSE) # Reply(n)
  /\ \A n \in Turns, b \in BOOLEAN : Response(ControlCall, b) # Event(n) /\ Response(ControlCall, b) # Reply(n)
  /\ \A n \in Turns, x \in {"none", "initialized", "error"} :
       Notification(x, 0) # Event(n) /\ Notification(x, 0) # Reply(n)
  /\ \A n \in Turns, x \in {"initialize", "cancel", "shutdown"} : Notification(x, 0) # Prompt(n)
  /\ \A n \in Turns, r \in ServerCalls : Response(r, TRUE) # Prompt(n)
  /\ \A n \in Turns : Request(ControlCall) # Prompt(n)
<1> USE DEF Event, Reply, Prompt, Request, Response, Notification
<1>1. \A n, k \in Turns : Event(n) = Event(k) \/ Reply(n) = Reply(k) \/ Prompt(n) = Prompt(k) => n = k
  BY DEF PromptCall
<1>2. \A n, k \in Turns : Event(n) # Reply(k)
  OBVIOUS
<1>3. \A n \in Turns, r \in ServerCalls : Request(r) # Event(n) /\ Request(r) # Reply(n)
  OBVIOUS
<1>4. \A n \in Turns, r \in ClientCalls : Response(r, FALSE) # Event(n) /\ Response(r, FALSE) # Reply(n)
  OBVIOUS
<1>5. \A n \in Turns, b \in BOOLEAN : Response(ControlCall, b) # Event(n) /\ Response(ControlCall, b) # Reply(n)
  BY DEF ControlCall, PromptCall
<1>6. \A n \in Turns, x \in {"none", "initialized", "error"} :
       Notification(x, 0) # Event(n) /\ Notification(x, 0) # Reply(n)
  OBVIOUS
<1>7. \A n \in Turns, x \in {"initialize", "cancel", "shutdown"} : Notification(x, 0) # Prompt(n)
  OBVIOUS
<1>8. \A n \in Turns, r \in ServerCalls : Response(r, TRUE) # Prompt(n)
  OBVIOUS
<1>9. \A n \in Turns : Request(ControlCall) # Prompt(n)
  BY DEF ControlCall, PromptCall
<1> QED BY <1>1, <1>2, <1>3, <1>4, <1>5, <1>6, <1>7, <1>8, <1>9

(* Each side says what it may.                                             *)
LEMMA MessagesFit ==
  /\ \A n \in Turns : Event(n) \in ToClient /\ Reply(n) \in ToClient /\ Prompt(n) \in ToServer
  /\ \A r \in ServerCalls : Request(r) \in ToClient /\ Response(r, TRUE) \in Said
  /\ \A r \in ClientCalls : Request(r) \in ToServer /\ \A b \in BOOLEAN : Response(r, b) \in ToClient
  /\ \A x \in {"none", "initialized", "error"} : Notification(x, 0) \in ToClient
  /\ \A x \in {"initialize", "cancel", "shutdown"} : Notification(x, 0) \in Said
<1>1. \A n \in Turns : Event(n) \in ToClient
  BY DEF ToClient
<1>2. \A r \in ClientCalls : Request(r) \in ToServer
  BY DEF ToServer
<1>3. \A r \in ClientCalls : Response(r, TRUE) \in ToClient /\ Response(r, FALSE) \in ToClient
  BY DEF ToClient
<1>4. \A n \in Turns : Reply(n) \in ToClient /\ Prompt(n) \in ToServer
  BY <1>2, <1>3, CallNames DEF Reply, Prompt
<1>5. \A r \in ServerCalls : Request(r) \in ToClient /\ Response(r, TRUE) \in Said
  BY DEF ToClient, Said
<1>6. \A r \in ClientCalls, b \in BOOLEAN : Response(r, b) \in ToClient
  BY <1>3
<1>7. \A x \in {"none", "initialized", "error"} : Notification(x, 0) \in ToClient
  BY DEF ToClient
<1>8. \A x \in {"initialize", "cancel", "shutdown"} : Notification(x, 0) \in Said
  BY DEF Said
<1> QED BY <1>1, <1>2, <1>4, <1>5, <1>6, <1>7, <1>8

(* What the session and the server's reader make of a message by its       *)
(* method or type (SessionIdle, TurnMessage, dispatch_line).               *)
LEMMA ServerReads ==
  ASSUME NEW m \in ToServer
  PROVE  /\ m.of[1] = "prompt" => m.of[2] \in Turns /\ m = Prompt(m.of[2]) /\ m.of = PromptCall(m.of[2])
         /\ m.of[1] = "control" => m.of = ControlCall /\ \A n \in Turns : m # Prompt(n)
         /\ m.of[1] \notin {"prompt"} => \A n \in Turns : m # Prompt(n)
         /\ m.type = "request" => m.of \in ClientCalls
         /\ m.type = "response" => m.of \in ServerCalls /\ \A n \in Turns : m # Prompt(n)
<1>1. CASE \E x \in {"initialize", "cancel", "shutdown"} : m = Notification(x, 0)
  BY <1>1 DEF Notification, Prompt, Request
<1>2. CASE \E n \in Turns : m = Request(PromptCall(n))
  BY <1>2 DEF Request, Prompt, PromptCall, ClientCalls
<1>3. CASE m = Request(ControlCall)
  BY <1>3 DEF Request, Prompt, PromptCall, ClientCalls, ControlCall
<1>4. CASE \E r \in ServerCalls : m = Response(r, TRUE)
  BY <1>4 DEF Response, Request, Prompt, ServerCalls, ApproveCall
<1> QED BY <1>1, <1>2, <1>3, <1>4 DEF ToServer, Said, ClientCalls

(* What the client and its reader make of one (handle_incoming,            *)
(* dispatch_line).                                                         *)
LEMMA ClientReads ==
  ASSUME NEW m \in ToClient
  PROVE  /\ m.of[1] = "agent.event" => \E n \in Turns : m = Event(n)
         /\ m.of[1] # "agent.event" => \A n \in Turns : m # Event(n)
         /\ m.type = "request" => m.of \in ServerCalls
         /\ m.type = "response" => m.of \in ClientCalls /\ \A n \in Turns : m # Event(n)
         /\ \A n \in Turns : m = Reply(n) <=> m.type = "response" /\ m.of = PromptCall(n) /\ m.ok
<1>1. CASE \E x \in {"none", "initialized", "error"} : m = Notification(x, 0)
  BY <1>1 DEF Notification, Event, Reply, Response
<1>2. CASE \E n \in Turns : m = Event(n)
  <2>1. m.type = "notification" /\ m.of[1] = "agent.event"
    BY <1>2 DEF Event, Notification
  <2>2. \A n \in Turns : m # Reply(n)
    BY <2>1 DEF Reply, Response
  <2> QED BY <1>2, <2>1, <2>2
<1>3. CASE \E r \in ServerCalls : m = Request(r)
  BY <1>3 DEF Notification, Event, Reply, Response, Request, ServerCalls,
     ApproveCall
<1>4. CASE \E r \in ClientCalls : m = Response(r, TRUE)
  <2>1. PICK r \in ClientCalls : m = Response(r, TRUE)
    BY <1>4
  <2>2. m.type = "response" /\ m.of = r /\ m.ok /\ \A n \in Turns : m # Event(n)
    BY <2>1 DEF Response, Event, Notification
  <2>3. r[1] # "agent.event"
    BY DEF ClientCalls, PromptCall, ControlCall
  <2>4. \A n \in Turns : m = Reply(n) <=> r = PromptCall(n)
    BY <2>1 DEF Reply, Response
  <2> QED BY <2>2, <2>3, <2>4
<1>5. CASE \E r \in ClientCalls : m = Response(r, FALSE)
  <2>1. PICK r \in ClientCalls : m = Response(r, FALSE)
    BY <1>5
  <2>2. m.type = "response" /\ m.of = r /\ ~m.ok /\ \A n \in Turns : m # Event(n) /\ m # Reply(n)
    BY <2>1 DEF Response, Event, Notification, Reply
  <2>3. r[1] # "agent.event"
    BY DEF ClientCalls, PromptCall, ControlCall
  <2> QED BY <2>2, <2>3
<1> QED BY <1>1, <1>2, <1>3, <1>4, <1>5 DEF ToClient

(* The fields of the two ends have their types.                            *)
LEMMA Fields ==
  ASSUME EndType
  PROVE  /\ session.pc \in {"handshake", "send", "build", "idle", "turn", "closed"}
         /\ session.msg \in ToClient
         /\ session.next \in {"build", "idle", "turn", "closed"}
         /\ session.turn \in 0 .. MaxTurns
         /\ client.pc \in {"handshake", "send", "ready", "turn", "drain", "gone"}
         /\ client.msg \in Said
         /\ client.next \in {"handshake", "turn", "drain", "gone"}
         /\ client.turn \in 0 .. MaxTurns
         /\ MaxTurns \in Nat \ {0} /\ Turns = 1 .. MaxTurns
BY RpcAssumption DEF EndType, SessionStates, ClientStates, Turns

(* The counts are natural numbers.                                         *)
LEMMA Numbers ==
  ASSUME RpcType, NEW n \in Turns
  PROVE  /\ \A m : Count(outbound["server"], m) \in Nat /\ Count(outbound["client"], m) \in Nat
         /\ \A m : Count(incoming["server"], m) \in Nat /\ Count(incoming["client"], m) \in Nat
         /\ Coming(n) \in Nat /\ Replies(n) \in Nat /\ Chances(n) \in Nat
         /\ emitted[n] \in Nat /\ heard[n] \in Nat
<1>1. /\ \A m : Count(outbound["server"], m) \in Nat /\ Count(outbound["client"], m) \in Nat
      /\ \A m : Count(incoming["server"], m) \in Nat /\ Count(incoming["client"], m) \in Nat
  BY CountFacts DEF RpcType, QueueType
<1>2. Coming(n) \in Nat
  BY <1>1 DEF Coming, One
<1>3. Replies(n) \in Nat
  BY <1>1 DEF Replies, One
<1>4. Chances(n) \in Nat
  BY <1>1, <1>3 DEF Chances, One
<1> QED BY <1>1, <1>2, <1>3, <1>4 DEF RpcType, EndType

(* A new connection.                                                       *)
LEMMA RpcStarts == RpcInit => RpcType /\ RpcSafe
<1> SUFFICES ASSUME RpcInit PROVE RpcType /\ RpcSafe
  OBVIOUS
<1> USE DEF RpcInit
<1>1. QueueType
  <2>1. \A s \in Sides : outbound[s] = << >> /\ incoming[s] = << >>
    OBVIOUS
  <2>2. outbound \in [Sides -> {<< >>}] /\ incoming \in [Sides -> {<< >>}]
    OBVIOUS
  <2>3. << >> \in Seq(ToServer) /\ << >> \in Seq(ToClient)
    OBVIOUS
  <2>4. "client" \in Sides /\ "server" \in Sides
    BY DEF Sides
  <2> QED BY <2>1, <2>2, <2>3, <2>4 DEF QueueType
<1>2. EndType
  <2>1. session \in SessionStates
    BY MessagesFit, RpcAssumption DEF SessionStates, Nothing
  <2>2. client \in ClientStates
    BY MessagesFit, RpcAssumption DEF ClientStates
  <2>3. /\ call \in [Calls -> Marks] /\ emitted \in [Turns -> Nat]
        /\ heard \in [Turns -> Nat]
        /\ returned \subseteq Turns
    BY DEF Calls, Marks
  <2> QED BY <2>1, <2>2, <2>3 DEF EndType
<1>3. TaskType
  <2>1. /\ reader \in [Sides -> {"run", "draining", "ended"}]
        /\ writer \in [Sides -> {"run", "draining", "ended"}]
    OBVIOUS
  <2>2. flag \in [Sides -> BOOLEAN]
    OBVIOUS
  <2>3. pending \in [Sides -> SUBSET Calls]
    OBVIOUS
  <2> QED BY <2>1, <2>2, <2>3 DEF TaskType
<1>4. \A n \in Turns : Coming(n) = 0 /\ Replies(n) = 0 /\ Chances(n) = 1
  <2> TAKE n \in Turns
  <2>1. \A m : Count(<< >>, m) = 0
    BY CountFacts, << >> \in Seq({}), DOMAIN << >> = {}
  <2>2. /\ outbound["server"] = << >> /\ outbound["client"] = << >>
        /\ incoming["server"] = << >> /\ incoming["client"] = << >>
    BY DEF Sides
  <2>3. call[PromptCall(n)] = "none"
    BY CallNames
  <2>4. session.pc = "handshake" /\ session.turn = 0 /\ n # 0
    BY RpcAssumption DEF Turns
  <2>5. Coming(n) = 0
    BY <2>1, <2>2, <2>4 DEF Coming, Sending, One
  <2>6. Replies(n) = 0
    BY <2>1, <2>2, <2>3, <2>4 DEF Replies, Sending, One
  <2>7. Chances(n) = 1
    BY <2>1, <2>2, <2>3, <2>4, <2>6 DEF Chances, Unasked, One
  <2> QED BY <2>5, <2>6, <2>7
<1>5. \A n \in Turns : call[PromptCall(n)] = "none"
  BY CallNames
<1>6. /\ session.pc = "handshake" /\ client.pc = "send"
      /\ client.next = "handshake" /\ client.turn = 0
      /\ returned = {}
  OBVIOUS
<1>7. Wire
  <2>1. Single
    BY <1>4 DEF Single
  <2>2. OwnTurn
    BY <1>6 DEF OwnTurn, Sending
  <2>3. Behind
    <3>1. outbound["server"] = << >>
      BY DEF Sides
    <3> QED BY <3>1, <1>5 DEF Behind
  <2> QED BY <2>1, <2>2, <2>3 DEF Wire
<1>8. Unstarted /\ Counted /\ Before /\ AllHeard
  <2>1. Unstarted
    BY <1>4, <1>5, <1>6 DEF Unstarted
  <2>2. Counted /\ Before /\ AllHeard
    BY <1>6 DEF Counted, Before, AllHeard
  <2> QED BY <2>1, <2>2
<1>9. Ready /\ Draining /\ Places
  BY <1>6 DEF Ready, Draining, Places, Prompted, InTurn
<1>10. Flagged
  BY DEF Flagged, Sides
<1> QED BY <1>1, <1>2, <1>3, <1>7, <1>8, <1>9, <1>10 DEF RpcType, RpcSafe, Ends

(* What a step of the peers may do to a prompt's call: move it on, and     *)
(* nothing once it is answered or given up.                                *)
Goes(n) == \/ call'[PromptCall(n)] = call[PromptCall(n)]
           \/ call[PromptCall(n)] \in {"checked", "registered", "waiting"}
              /\ call'[PromptCall(n)] # "none"

(* A prompt that was given up stays given up.                              *)
LEMMA FairStays ==
  ASSUME \A k \in Turns : call[PromptCall(k)] = "failed" => call'[PromptCall(k)] = "failed", Turns = 1 .. MaxTurns, MaxTurns \in Nat, NEW n \in Turns
  PROVE  (NoneFailed(n)' => NoneFailed(n)) /\ (Fair(n)' => Fair(n))
<1>2. \A k \in 1 .. n - 1 : k \in Turns
  OBVIOUS
<1>3. NoneFailed(n)' => NoneFailed(n)
  BY <1>2 DEF NoneFailed
<1> QED BY <1>3 DEF Fair

(* The steps that are not the client's: an event may become due, for the   *)
(* turn of the session, and one that is lost is lost with the session or   *)
(* the client.                                                             *)
LEMMA EndsStay ==
  ASSUME RpcType, RpcSafe, RpcType', Wire', UNCHANGED <<client, heard, returned>>,
         \A n \in Turns : Goes(n),
         flag["client"] => flag'["client"], Flagged',
         Prompted',
         \A n \in Turns :
           /\ emitted'[n] # emitted[n] => session.turn = n
           /\ Coming(n)' + emitted[n] <= Coming(n) + emitted'[n]
           /\ client.pc # "gone" /\ (session'.pc # "closed" \/ Replies(n)' > 0) =>
                /\ session.pc # "closed" \/ Replies(n) > 0
                /\ Coming(n)' + emitted[n] = Coming(n) + emitted'[n]
  PROVE  Ends'
<1>1. Turns = 1 .. MaxTurns /\ MaxTurns \in Nat \ {0} /\ client.turn \in 0 .. MaxTurns
      /\ returned \subseteq Turns
  BY Fields DEF RpcType, EndType
<1>2. \A n \in Turns : /\ Coming(n) \in Nat /\ Replies(n) \in Nat /\ emitted[n] \in Nat /\ heard[n] \in Nat
                       /\ Coming(n)' \in Nat /\ emitted'[n] \in Nat
  <2>1. ASSUME NEW n \in Turns PROVE Coming(n)' \in Nat /\ emitted'[n] \in Nat
    <3>1. \A m : Count(outbound'["server"], m) \in Nat /\ Count(incoming'["client"], m) \in Nat
      BY CountFacts DEF RpcType, QueueType
    <3> QED BY <3>1 DEF Coming, One, RpcType, EndType
  <2> QED BY <2>1, Numbers
<1>3. \A n \in Turns : (NoneFailed(n)' => NoneFailed(n)) /\ (Fair(n)' => Fair(n))
  <2>1. \A k \in Turns : call[PromptCall(k)] = "failed" => call'[PromptCall(k)] = "failed"
    BY DEF Goes
  <2> QED BY <1>1, <2>1, FairStays
<1>4. \A n \in Turns : call[PromptCall(n)] \in {"none", "ok"} =>
                       call'[PromptCall(n)] = call[PromptCall(n)] /\ session.turn # n
  <2> SUFFICES ASSUME NEW n \in Turns, call[PromptCall(n)] \in {"none", "ok"}
               PROVE  call'[PromptCall(n)] = call[PromptCall(n)] /\ session.turn # n
    OBVIOUS
  <2>1. call'[PromptCall(n)] = call[PromptCall(n)]
    BY DEF Goes
  <2>2. Chances(n) <= 1
    BY DEF RpcSafe, Wire, Single
  <2>3. /\ Count(outbound["server"], Reply(n)) \in Nat
        /\ Count(outbound["client"], Prompt(n)) \in Nat
        /\ Count(incoming["server"], Prompt(n)) \in Nat
    BY Numbers
  <2>4. session.turn # n
    BY <2>2, <2>3 DEF Chances, Replies, Unasked, One
  <2> QED BY <2>1, <2>4
<1>5. Unstarted'
  <2> SUFFICES ASSUME NEW n \in Turns, n > client.turn
               PROVE  /\ call'[PromptCall(n)] = "none" /\ emitted'[n] = 0 /\ heard'[n] = 0 /\ Coming(n)' = 0
                      /\ n \notin returned'
    BY DEF Unstarted
  <2>1. /\ call[PromptCall(n)] = "none" /\ emitted[n] = 0 /\ heard[n] = 0
        /\ Coming(n) = 0 /\ n \notin returned
    BY DEF RpcSafe, Ends, Unstarted
  <2>2. call'[PromptCall(n)] = "none" /\ emitted'[n] = emitted[n]
    BY <2>1, <1>4
  <2>3. Coming(n)' + emitted[n] <= Coming(n) + emitted'[n] /\ Coming(n)' \in Nat
    BY <1>2
  <2> QED BY <2>1, <2>2, <2>3
<1>6. Counted'
  <2> SUFFICES ASSUME client.turn > 0, Fair(client.turn)', client.pc # "gone",
                      session'.pc # "closed" \/ Replies(client.turn)' > 0
               PROVE  heard[client.turn] + Coming(client.turn)' = emitted'[client.turn]
    BY DEF Counted
  <2>1. client.turn \in Turns
    BY <1>1
  <2>2. Fair(client.turn)
    BY <2>1, <1>3
  <2>3. /\ session.pc # "closed" \/ Replies(client.turn) > 0
        /\ Coming(client.turn)' + emitted[client.turn] = Coming(client.turn) + emitted'[client.turn]
    BY <2>1
  <2>4. heard[client.turn] + Coming(client.turn) = emitted[client.turn]
    BY <2>2, <2>3 DEF RpcSafe, Ends, Counted
  <2> HIDE DEF Coming, Replies
  <2> QED BY <2>1, <2>3, <2>4, <1>2
<1>7. Before'
  <2> SUFFICES ASSUME NEW n \in 1 .. client.turn, Fair(n)' PROVE 1 .. n - 1 \subseteq returned
    BY DEF Before
  <2>1. n \in Turns
    BY <1>1
  <2> QED BY <2>1, <1>3 DEF RpcSafe, Ends, Before
<1>8. AllHeard'
  <2> SUFFICES ASSUME NEW n \in returned
               PROVE  /\ call'[PromptCall(n)] = "ok" /\ n <= client.turn /\ (n = client.turn => Over')
                      /\ NoneFailed(n)' => heard[n] = emitted'[n] /\ Coming(n)' = 0
    BY DEF AllHeard
  <2>1. /\ call[PromptCall(n)] = "ok" /\ n <= client.turn /\ (n = client.turn => Over)
        /\ NoneFailed(n) => heard[n] = emitted[n] /\ Coming(n) = 0
    BY DEF RpcSafe, Ends, AllHeard
  <2>2. n \in Turns
    BY <1>1
  <2>3. call'[PromptCall(n)] = "ok" /\ emitted'[n] = emitted[n]
    BY <2>1, <2>2, <1>4
  <2>4. Coming(n)' + emitted[n] <= Coming(n) + emitted'[n]
    BY <2>2
  <2>5. Over' <=> Over
    BY DEF Over
  <2>6. NoneFailed(n)' => heard[n] = emitted'[n] /\ Coming(n)' = 0
    BY <2>1, <2>2, <2>3, <2>4, <1>2, <1>3
  <2> QED BY <2>1, <2>3, <2>5, <2>6
<1>9. client.turn > 0 => client.turn \in Turns
  BY <1>1
<1>10. Ready'
  BY <1>9 DEF Ready, Goes, RpcSafe, Ends
<1>11. Places'
  BY DEF Places, InTurn, RpcSafe, Ends
<1>12. Draining'
  <2> SUFFICES ASSUME client.pc = "drain" \/ (client.pc = "send" /\ client.next = "drain")
               PROVE  call'[PromptCall(client.turn)] = "ok"
    BY DEF Draining
  <2>1. client.turn \in Turns
    BY <1>9 DEF RpcSafe, Ends, Places, InTurn
  <2> QED BY <2>1, <1>4 DEF RpcSafe, Ends, Draining
<1> QED BY <1>5, <1>6, <1>7, <1>8, <1>10, <1>11, <1>12 DEF Ends

(* The same, where no event is added or lost.                              *)
LEMMA EndsSame ==
  ASSUME RpcType, RpcSafe, RpcType', Wire', UNCHANGED <<client, heard, returned, emitted>>,
         \A n \in Turns : Goes(n),
         flag["client"] => flag'["client"], Flagged',
         Prompted', session'.pc # "closed" => session.pc # "closed",
         \A n \in Turns : Coming(n)' = Coming(n) /\ (Replies(n)' > 0 => Replies(n) > 0)
  PROVE  Ends'
<1>1. \A n \in Turns : Coming(n) \in Nat /\ emitted[n] \in Nat
  BY Numbers
<1>2. \A n \in Turns :
        /\ emitted'[n] # emitted[n] => session.turn = n
        /\ Coming(n)' + emitted[n] <= Coming(n) + emitted'[n]
        /\ client.pc # "gone" /\ (session'.pc # "closed" \/ Replies(n)' > 0) =>
             /\ session.pc # "closed" \/ Replies(n) > 0
             /\ Coming(n)' + emitted[n] = Coming(n) + emitted'[n]
  <2> HIDE DEF Coming, Replies
  <2> QED BY <1>1
<1> QED BY <1>2, EndsStay

(* A call goes on without an answer: it is registered, or fails.           *)
Quiet(n) ==
  \/ call'[PromptCall(n)] = call[PromptCall(n)]
  \/ call[PromptCall(n)] = "checked" /\ call'[PromptCall(n)] = "registered"
  \/ /\ call[PromptCall(n)] \in {"checked", "registered", "waiting"}
     /\ call'[PromptCall(n)] \in {"failed", "dropped"}

(* A step that moves no message keeps the invariant.                       *)
LEMMA QuietKeeps ==
  ASSUME RpcType, RpcSafe, EndType', TaskType', Flagged', flag["client"] => flag'["client"],
         UNCHANGED <<session, client, outbound, incoming, emitted, heard, returned>>,
         \A n \in Turns : Quiet(n)
  PROVE  RpcType' /\ RpcSafe'
<1>1. RpcType'
  BY DEF RpcType, QueueType
<1>2. \A n \in Turns : Goes(n) /\ (call'[PromptCall(n)] = "ok" <=> call[PromptCall(n)] = "ok")
                       /\ (Unasked(n)' => Unasked(n))
  BY DEF Quiet, Goes, Unasked
<1>3. \A n \in Turns : Coming(n)' = Coming(n) /\ Replies(n)' = Replies(n)
  BY <1>2 DEF Coming, Replies, Sending, One
<1>4. Single'
  <2> SUFFICES ASSUME NEW n \in Turns PROVE Chances(n)' <= 1
    BY DEF Single
  <2>1. Chances(n) <= 1 /\ Replies(n) \in Nat
    BY Numbers DEF RpcSafe, Wire, Single
  <2>2. /\ Count(outbound["client"], Prompt(n)) \in Nat
        /\ Count(incoming["server"], Prompt(n)) \in Nat
    BY Numbers
  <2>3. One(Unasked(n)') <= One(Unasked(n)) /\ One(Unasked(n)') \in Nat
    BY <1>2 DEF One
  <2> QED BY <2>1, <2>2, <2>3, <1>3 DEF Chances, One
<1>5. OwnTurn' /\ Behind'
  BY <1>2 DEF OwnTurn, Behind, Sending, RpcSafe, Wire
<1>6. Wire'
  BY <1>4, <1>5 DEF Wire
<1>7. Prompted'
  BY DEF RpcSafe, Ends, Places, Prompted
<1>8. Ends'
  <2> HIDE DEF Coming, Replies
  <2> QED BY <1>1, <1>2, <1>3, <1>6, <1>7, EndsSame
<1> QED BY <1>1, <1>6, <1>8 DEF RpcSafe

(* The reader and writer tasks stop, mark the connection, and drain its    *)
(* calls: all of mark_disconnected, one step at a time.                    *)
LEMMA TasksKeep ==
  ASSUME RpcType, RpcSafe, NEW s \in Sides,
         WriteFails(s) \/ WriterDone(s) \/ Drain(s) \/ ReaderEnds(s), UNCHANGED others
  PROVE  RpcType' /\ RpcSafe'
<1>1. UNCHANGED <<session, client, outbound, incoming, emitted, heard, returned>>
  BY DEF WriteFails, WriterDone, Drain, ReaderEnds, others
<1>2. /\ \A r \in Calls : call'[r] = call[r] \/ (call[r] \in {"registered", "waiting"} /\ call'[r] = "failed")
      /\ call' \in [Calls -> Marks]
  <2>1. CASE call' = call
    BY <2>1 DEF RpcType, EndType
  <2>2. CASE Drain(s)
    <3>1. DOMAIN call = Calls
      BY DEF RpcType, EndType
    <3>2. call' = [r \in Calls |-> IF r \in pending[s] /\ call[r] \in {"registered", "waiting"}
                                  THEN "failed" ELSE call[r]]
      BY <2>2, <3>1 DEF Drain, Drained
    <3> QED BY <3>2 DEF RpcType, EndType, Marks
  <2> QED BY <2>1, <2>2 DEF WriteFails, WriterDone, ReaderEnds
<1>3. \A n \in Turns : Quiet(n)
  BY <1>2, CallNames DEF Quiet, Calls
<1>4. EndType'
  BY <1>1, <1>2 DEF EndType, RpcType
<1>5. TaskType'
  <2>1. /\ reader' \in [Sides -> {"run", "draining", "ended"}]
        /\ writer' \in [Sides -> {"run", "draining", "ended"}]
    BY DEF WriteFails, WriterDone, Drain, ReaderEnds, RpcType, TaskType, Disconnects
  <2>2. flag' \in [Sides -> BOOLEAN]
    <3>1. CASE flag' = flag
      BY <3>1 DEF RpcType, TaskType
    <3>2. CASE flag' = [flag EXCEPT ![s] = TRUE]
      BY <3>2 DEF RpcType, TaskType
    <3> QED BY <3>1, <3>2 DEF WriteFails, WriterDone, Drain, ReaderEnds
  <2>3. pending' \in [Sides -> SUBSET Calls]
    BY DEF WriteFails, WriterDone, Drain, ReaderEnds, RpcType, TaskType, Drained
  <2> QED BY <2>1, <2>2, <2>3 DEF TaskType
<1>6. flag["client"] => flag'["client"]
  <2>1. CASE flag' = flag
    BY <2>1
  <2>2. CASE flag' = [flag EXCEPT ![s] = TRUE]
    BY <2>2 DEF RpcType, TaskType, Sides
  <2> QED BY <2>1, <2>2 DEF WriteFails, WriterDone, Drain, ReaderEnds
<1>7. Flagged'
  <2>1. "client" \in Sides /\ "server" \in Sides
    BY DEF Sides
  <2>2. CASE s # "client" \/ writer' = writer
    <3>1. writer'["client"] = writer["client"]
      BY <2>1, <2>2 DEF WriteFails, WriterDone, Drain, ReaderEnds, RpcType, TaskType
    <3> QED BY <3>1, <1>1, <1>6 DEF Flagged, RpcSafe, Ends
  <2>3. CASE s = "client" /\ WriteFails(s)
    <3>1. flag'["client"]
      BY <2>1, <2>3 DEF WriteFails, RpcType, TaskType
    <3> QED BY <3>1 DEF Flagged
  <2>4. CASE s = "client" /\ WriterDone(s)
    <3>1. client.pc = "gone" /\ writer'["client"] = "ended"
      BY <2>1, <2>4 DEF WriterDone, Held, RpcType, TaskType
    <3> QED BY <3>1, <1>1 DEF Flagged
  <2>5. CASE s = "client" /\ Drain(s) /\ writer' # writer
    <3>1. writer["client"] = "draining" /\ flag' = flag /\ writer'["client"] = "ended"
      BY <2>1, <2>5 DEF Drain, RpcType, TaskType
    <3> QED BY <3>1, <1>1 DEF Flagged, RpcSafe, Ends
  <2> QED BY <2>2, <2>3, <2>4, <2>5 DEF ReaderEnds
<1> QED BY <1>1, <1>3, <1>4, <1>5, <1>6, <1>7, QuietKeeps

(* A call is registered, times out, or finds the connection marked.        *)
LEMMA CallsKeep ==
  ASSUME RpcType, RpcSafe, NEW r \in Calls,
         \/ Register(r) /\ UNCHANGED others
         \/ TimeOut(r) /\ UNCHANGED others
         \/ /\ call[r] = "registered" /\ Unsent(r)
            /\ UNCHANGED <<link, incoming, reader, writer, flag>> /\ UNCHANGED others
  PROVE  RpcType' /\ RpcSafe'
<1>1. UNCHANGED <<session, client, outbound, incoming, emitted, heard, returned, reader, writer, flag>>
  BY DEF Register, TimeOut, Unsent, others
<1>2. \E c \in {"registered", "failed"} :
        /\ call' = [call EXCEPT ![r] = c]
        /\ call[r] \in {"checked", "registered", "waiting"}
        /\ c = "registered" => call[r] = "checked"
  BY DEF Register, TimeOut, Unsent, CallGoes
<1>3. call' \in [Calls -> Marks]
  BY <1>2 DEF Marks, RpcType, EndType
<1>4. \A n \in Turns : Quiet(n)
  BY <1>2, CallNames DEF Quiet, Calls, RpcType, EndType
<1>5. EndType'
  BY <1>1, <1>3 DEF EndType, RpcType
<1>6. pending' \in [Sides -> SUBSET Calls]
  BY DEF Register, TimeOut, Unsent, Forgotten, RpcType, TaskType
<1>7. TaskType' /\ Flagged' /\ (flag["client"] => flag'["client"])
  BY <1>1, <1>6 DEF TaskType, RpcType, Flagged, RpcSafe, Ends
<1> QED BY <1>1, <1>4, <1>5, <1>7, QuietKeeps

(* Approvals and control calls leave the prompts alone.                    *)
LEMMA AsksKeep ==
  ASSUME RpcType, RpcSafe,
         \/ \E r \in ServerCalls : AskApproval(r) \/ DropApproval(r)
         \/ Control
  PROVE  RpcType' /\ RpcSafe'
<1>1. UNCHANGED <<session, client, outbound, incoming, emitted, heard, returned, reader, writer, flag, pending>>
  BY DEF AskApproval, DropApproval, Control, PeerUnchanged, ServerUnchanged,
     ClientUnchanged
<1>2. PICK r \in ServerCalls \cup {ControlCall} : \E c \in Marks : call' = [call EXCEPT ![r] = c]
  BY DEF AskApproval, DropApproval, Control, BeginCall, CallGoes, Marks
<1>3. call' \in [Calls -> Marks]
  BY <1>2 DEF RpcType, EndType
<1>4. \A n \in Turns : PromptCall(n) # r
  BY CallNames
<1>5. \A n \in Turns : call'[PromptCall(n)] = call[PromptCall(n)]
  BY <1>2, <1>4, CallNames DEF Calls, RpcType, EndType
<1>6. \A n \in Turns : Quiet(n)
  BY <1>5 DEF Quiet
<1>7. EndType'
  BY <1>1, <1>3 DEF EndType, RpcType
<1>8. TaskType' /\ Flagged' /\ (flag["client"] => flag'["client"])
  BY <1>1 DEF TaskType, RpcType, Flagged, RpcSafe, Ends
<1> QED BY <1>1, <1>6, <1>7, <1>8, QuietKeeps

(* Chances never grow, so a turn keeps its one.                            *)
LEMMA SingleStays ==
  ASSUME RpcType, Single, \A n \in Turns : Chances(n)' <= Chances(n) /\ Chances(n)' \in Nat
  PROVE  Single'
<1> SUFFICES ASSUME NEW n \in Turns PROVE Chances(n)' <= 1
  BY DEF Single
<1>1. /\ Chances(n)' <= Chances(n) /\ Chances(n)' \in Nat /\ Chances(n) \in Nat
      /\ Chances(n) <= 1
  BY Numbers DEF Single
<1> QED BY <1>1

(* request() sends the prompt, a control call or a request for approval; a *)
(* prompt moves from the caller to the socket.                             *)
LEMMA SentKeeps ==
  ASSUME RpcType, RpcSafe, NEW r \in Calls, call[r] = "registered", Sent(r),
         UNCHANGED <<link, incoming, reader, writer, flag>>, UNCHANGED others
  PROVE  RpcType' /\ RpcSafe'
<1>1. /\ outbound' = [outbound EXCEPT ![Owner(r)] = Append(outbound[Owner(r)], Request(r))]
      /\ call' = [call EXCEPT ![r] = "waiting"]
      /\ UNCHANGED <<session, client, incoming, emitted, heard, returned, reader, writer, flag, pending>>
  BY DEF Sent, Enqueue, CallGoes, others
<1>2. call' \in [Calls -> Marks]
  BY <1>1 DEF Marks, RpcType, EndType
<1>3. EndType' /\ TaskType' /\ Flagged' /\ (flag["client"] => flag'["client"])
  BY <1>1, <1>2 DEF EndType, TaskType, RpcType, Flagged, RpcSafe, Ends
<1>4. /\ \A n \in Turns : call'[PromptCall(n)] = IF r = PromptCall(n) THEN "waiting" ELSE call[PromptCall(n)]
  BY <1>1, CallNames DEF Calls, RpcType, EndType
<1>5. \A n \in Turns : Goes(n) /\ (call'[PromptCall(n)] = "ok" <=> call[PromptCall(n)] = "ok")
  BY <1>4 DEF Goes
<1>6. CASE r \in ClientCalls
  <2>1. Owner(r) = "client" /\ Request(r) \in ToServer
    BY <1>6, MessagesFit DEF Owner
  <2>2. /\ outbound'["client"] = Append(outbound["client"], Request(r))
        /\ outbound'["server"] = outbound["server"]
    BY <1>1, <2>1 DEF RpcType, QueueType, Sides
  <2>3. /\ outbound'["client"] \in Seq(ToServer)
        /\ \A m : Count(outbound'["client"], m) = Count(outbound["client"], m) + One(Request(r) = m)
    BY <2>1, <2>2, CountAppend DEF RpcType, QueueType
  <2>4. outbound' \in [Sides -> Seq(ToServer) \cup Seq(ToClient)]
    BY <1>1, <2>1, <2>2, <2>3 DEF RpcType, QueueType
  <2>5. RpcType'
    BY <1>1, <1>3, <2>2, <2>3, <2>4 DEF RpcType, QueueType
  <2>6. \A n \in Turns : Coming(n)' = Coming(n) /\ Replies(n)' = Replies(n)
    BY <1>1, <1>5, <2>2 DEF Coming, Replies, Sending, One
  <2>7. \A n \in Turns : Chances(n)' <= Chances(n) /\ Chances(n)' \in Nat
    <3> SUFFICES ASSUME NEW n \in Turns PROVE Chances(n)' <= Chances(n) /\ Chances(n)' \in Nat
      OBVIOUS
    <3>1. /\ Count(outbound["client"], Prompt(n)) \in Nat
          /\ Count(incoming["server"], Prompt(n)) \in Nat
          /\ Replies(n) \in Nat
      BY Numbers
    <3>2. CASE r = PromptCall(n)
      <4>1. call[PromptCall(n)] = "registered" /\ call'[PromptCall(n)] = "waiting"
        BY <3>2, <1>4
      <4>2. One(Unasked(n)) = 1 /\ One(Unasked(n)') = 0
        BY <4>1 DEF One, Unasked
      <4>3. Count(outbound'["client"], Prompt(n)) <= Count(outbound["client"], Prompt(n)) + 1
            /\ Count(outbound'["client"], Prompt(n)) \in Nat
        BY <2>3, <3>1 DEF One
      <4> QED BY <4>2, <4>3, <3>1, <2>6, <1>1 DEF Chances, One
    <3>3. CASE r # PromptCall(n)
      <4>1. call'[PromptCall(n)] = call[PromptCall(n)]
        BY <3>3, <1>4
      <4>2. Request(r) # Prompt(n)
        BY <3>3 DEF Prompt, Request
      <4>3. Count(outbound'["client"], Prompt(n)) = Count(outbound["client"], Prompt(n))
        BY <2>3, <3>1, <4>2 DEF One
      <4>4. One(Unasked(n)') = One(Unasked(n)) /\ One(Unasked(n)) \in Nat
        BY <4>1 DEF One, Unasked
      <4> QED BY <4>3, <4>4, <3>1, <2>6, <1>1 DEF Chances, One
    <3> QED BY <3>2, <3>3
  <2>8. Wire'
    BY <1>1, <1>5, <2>2, <2>5, <2>7, SingleStays DEF Wire, RpcSafe, OwnTurn,
       Sending, Behind
  <2>9. Ends'
    <3>1. Prompted'
      BY <1>1 DEF RpcSafe, Ends, Places, Prompted
    <3> HIDE DEF Coming, Replies
    <3> QED BY <1>1, <1>3, <1>5, <2>5, <2>6, <2>8, <3>1, EndsSame
  <2> QED BY <2>5, <2>8, <2>9 DEF RpcSafe
<1>7. CASE r \in ServerCalls
  <2>1. Owner(r) = "server" /\ Request(r) \in ToClient
    BY <1>7, MessagesFit, CallNames DEF Owner
  <2>2. /\ outbound'["server"] = Append(outbound["server"], Request(r))
        /\ outbound'["client"] = outbound["client"]
    BY <1>1, <2>1 DEF RpcType, QueueType, Sides
  <2>3. /\ outbound'["server"] \in Seq(ToClient)
        /\ \A m : Count(outbound'["server"], m) = Count(outbound["server"], m) + One(Request(r) = m)
    BY <2>1, <2>2, CountAppend DEF RpcType, QueueType
  <2>4. outbound' \in [Sides -> Seq(ToServer) \cup Seq(ToClient)]
    BY <1>1, <2>1, <2>2, <2>3 DEF RpcType, QueueType
  <2>5. RpcType'
    BY <1>1, <1>3, <2>2, <2>3, <2>4 DEF RpcType, QueueType
  <2>6. \A n \in Turns : r # PromptCall(n) /\ call'[PromptCall(n)] = call[PromptCall(n)]
    BY <1>4, <1>7, CallNames
  <2>7. \A n \in Turns : Count(outbound'["server"], Event(n)) = Count(outbound["server"], Event(n))
                        /\ Count(outbound'["server"], Reply(n)) = Count(outbound["server"], Reply(n))
    BY <2>3, <1>7, Apart, Numbers DEF One
  <2>8. \A n \in Turns : Coming(n)' = Coming(n) /\ Replies(n)' = Replies(n)
    BY <1>1, <2>6, <2>7 DEF Coming, Replies, Sending
  <2>9. \A n \in Turns : Chances(n)' = Chances(n) /\ Chances(n) \in Nat
    BY <1>1, <2>2, <2>6, <2>8, Numbers DEF Chances, Unasked
  <2>10. Behind'
    <3> SUFFICES ASSUME NEW n \in Turns
                 PROVE  /\ \A i, j \in DOMAIN outbound'["server"] :
                             i < j /\ outbound'["server"][i] = Reply(n) => outbound'["server"][j] # Event(n)
                        /\ call'[PromptCall(n)] = "ok" => Count(outbound'["server"], Event(n)) = 0
      BY DEF Behind
    <3>1. \A i, j \in DOMAIN outbound["server"] :
             i < j /\ outbound["server"][i] = Reply(n) => outbound["server"][j] # Event(n)
      BY DEF Behind, RpcSafe, Wire
    <3>2. \A i \in DOMAIN outbound'["server"] :
            \/ i \in DOMAIN outbound["server"] /\ outbound'["server"][i] = outbound["server"][i]
            \/ outbound'["server"][i] = Request(r)
      BY <2>2 DEF RpcType, QueueType
    <3>3. Request(r) # Event(n) /\ Request(r) # Reply(n)
      BY <1>7, Apart
    <3>4. call[PromptCall(n)] = "ok" => Count(outbound["server"], Event(n)) = 0
      BY DEF Behind, RpcSafe, Wire
    <3> QED BY <3>1, <3>2, <3>3, <3>4, <2>6, <2>7
  <2>11. Wire'
    <3>1. Single'
      <4> HIDE DEF Chances
      <4> QED BY <2>9, SingleStays DEF RpcSafe, Wire
    <3> QED BY <1>1, <2>10, <3>1 DEF Wire, RpcSafe, OwnTurn, Sending
  <2>12. Ends'
    <3>1. Prompted'
      BY <1>1 DEF RpcSafe, Ends, Places, Prompted
    <3> HIDE DEF Coming, Replies
    <3> QED BY <1>1, <1>3, <1>5, <2>5, <2>8, <2>11, <3>1, EndsSame
  <2> QED BY <2>5, <2>11, <2>12 DEF RpcSafe
<1> QED BY <1>6, <1>7 DEF Calls

(* dispatch_line on the server's side: a prompt moves to the channel.      *)
LEMMA ServerLineKeeps ==
  ASSUME RpcType, RpcSafe, dispatch_line("server"), UNCHANGED others
  PROVE  RpcType' /\ RpcSafe'
<1> DEFINE m == Head(outbound["client"])
<1>1. /\ outbound["client"] # << >>
      /\ outbound' = [outbound EXCEPT !["client"] = Tail(outbound["client"])]
      /\ UNCHANGED <<session, client, emitted, heard, returned, reader, writer, flag>>
  BY DEF dispatch_line, TakesLine, Peer, others
<1>2. /\ outbound'["client"] = Tail(outbound["client"])
      /\ outbound'["server"] = outbound["server"]
      /\ m \in ToServer /\ outbound'["client"] \in Seq(ToServer)
      /\ \A x : Count(outbound["client"], x) = Count(outbound'["client"], x) + One(m = x)
  <2>1. /\ outbound'["client"] = Tail(outbound["client"])
        /\ outbound'["server"] = outbound["server"]
    BY <1>1 DEF RpcType, QueueType, Sides
  <2>2. outbound["client"] \in Seq(ToServer)
    BY DEF RpcType, QueueType
  <2> QED BY <1>1, <2>1, <2>2, CountTail
<1>3. outbound' \in [Sides -> Seq(ToServer) \cup Seq(ToClient)]
  BY <1>1, <1>2 DEF RpcType, QueueType
<1>4. /\ m.type = "response" => incoming' = incoming
      /\ \/ incoming' = incoming
         \/ incoming' = [incoming EXCEPT !["server"] = Append(incoming["server"], m)]
            /\ UNCHANGED <<pending, call>>
  BY DEF dispatch_line, Peer
<1>5. /\ incoming'["client"] = incoming["client"]
      /\ incoming' \in [Sides -> Seq(ToServer) \cup Seq(ToClient)]
      /\ incoming'["server"] \in Seq(ToServer)
      /\ \A x : Count(incoming'["server"], x) <= Count(incoming["server"], x) + One(m = x)
      /\ \A x : Count(incoming'["server"], x) \in Nat
  <2>0. incoming["server"] \in Seq(ToServer) /\ incoming["client"] \in Seq(ToClient)
    BY DEF RpcType, QueueType
  <2>1. \A x : Count(incoming["server"], x) \in Nat /\ One(m = x) \in Nat
    BY <2>0, CountFacts DEF One
  <2>2. CASE incoming' = incoming
    <3> HIDE DEF m
    <3> QED BY <2>0, <2>1, <2>2 DEF RpcType, QueueType
  <2>3. CASE incoming' = [incoming EXCEPT !["server"] = Append(incoming["server"], m)]
    <3>1. /\ incoming'["server"] = Append(incoming["server"], m)
          /\ incoming'["client"] = incoming["client"]
      BY <2>3 DEF RpcType, QueueType, Sides
    <3>2. /\ incoming'["server"] \in Seq(ToServer)
          /\ \A x : Count(incoming'["server"], x) = Count(incoming["server"], x) + One(m = x)
      BY <1>2, <2>0, <3>1, CountAppend
    <3>3. incoming' \in [Sides -> Seq(ToServer) \cup Seq(ToClient)]
      BY <2>3, <3>1, <3>2 DEF RpcType, QueueType
    <3> HIDE DEF m
    <3> QED BY <2>1, <3>1, <3>2, <3>3
  <2> QED BY <1>4, <2>2, <2>3
<1>6. /\ \A n \in Turns : call'[PromptCall(n)] = call[PromptCall(n)]
      /\ call' \in [Calls -> Marks] /\ pending' \in [Sides -> SUBSET Calls]
  <2>1. CASE UNCHANGED <<pending, call>>
    BY <2>1 DEF RpcType, EndType, TaskType
  <2>2. CASE /\ m.type = "response"
             /\ pending' = [pending EXCEPT !["server"] = @ \ {m.of}]
             /\ \/ call' = call
                \/ \E c \in {"ok", "failed"} : call' = [call EXCEPT ![m.of] = c]
    <3>1. m.of \in ServerCalls
      BY <1>2, <2>2, ServerReads
    <3>2. \A n \in Turns : PromptCall(n) # m.of
      BY <3>1, CallNames
    <3>3. pending' \in [Sides -> SUBSET Calls]
      BY <2>2 DEF RpcType, TaskType
    <3>4. call' \in [Calls -> Marks]
      BY <2>2 DEF RpcType, EndType, Marks
    <3>5. \A n \in Turns : call'[PromptCall(n)] = call[PromptCall(n)]
      BY <2>2, <3>2, CallNames DEF RpcType, EndType, Calls
    <3> QED BY <3>3, <3>4, <3>5
  <2>3. \/ UNCHANGED <<pending, call>>
        \/ /\ m.type = "response" /\ pending' = [pending EXCEPT !["server"] = @ \ {m.of}]
           /\ \/ call' = call
              \/ \E c \in {"ok", "failed"} : call' = [call EXCEPT ![m.of] = c]
    BY DEF dispatch_line, Peer, CallGoes
  <2> QED BY <2>1, <2>2, <2>3
<1>7. RpcType'
  <2>1. QueueType'
    BY <1>2, <1>3, <1>5 DEF RpcType, QueueType
  <2> QED BY <2>1, <1>1, <1>6 DEF RpcType, EndType, TaskType
<1>8. \A n \in Turns : Coming(n)' = Coming(n) /\ Replies(n)' = Replies(n)
  BY <1>1, <1>2, <1>5, <1>6 DEF Coming, Replies, Sending
<1>9. \A n \in Turns : Chances(n)' <= Chances(n) /\ Chances(n)' \in Nat
  <2> SUFFICES ASSUME NEW n \in Turns PROVE Chances(n)' <= Chances(n) /\ Chances(n)' \in Nat
    OBVIOUS
  <2>1. /\ Count(outbound["client"], Prompt(n)) \in Nat
        /\ Count(incoming["server"], Prompt(n)) \in Nat
        /\ Replies(n) \in Nat
    BY Numbers
  <2>2. Count(outbound'["client"], Prompt(n)) \in Nat /\ One(m = Prompt(n)) \in Nat
    BY <1>2, CountFacts DEF One
  <2>3. /\ Count(outbound'["client"], Prompt(n)) + Count(incoming'["server"], Prompt(n))
              <= Count(outbound["client"], Prompt(n)) + Count(incoming["server"], Prompt(n))
        /\ Count(incoming'["server"], Prompt(n)) \in Nat
    <3> HIDE DEF m
    <3> QED BY <1>2, <1>5, <2>1, <2>2
  <2>4. One(Unasked(n)') = One(Unasked(n)) /\ One(Unasked(n)) \in Nat
    BY <1>6 DEF Unasked, One
  <2>5. One(session'.turn = n) = One(session.turn = n) /\ One(session.turn = n) \in Nat
    BY <1>1 DEF One
  <2>6. Replies(n)' = Replies(n)
    BY <1>8
  <2> HIDE DEF m, Replies, Unasked
  <2> QED BY <2>1, <2>2, <2>3, <2>4, <2>5, <2>6 DEF Chances
<1>10. Wire'
  <2>1. Single'
    <3> HIDE DEF Chances
    <3> QED BY <1>9, SingleStays DEF RpcSafe, Wire
  <2> QED BY <1>1, <1>2, <1>6, <2>1 DEF Wire, RpcSafe, OwnTurn, Sending, Behind
<1>11. Ends'
  <2>1. \A n \in Turns : Goes(n)
    BY <1>6 DEF Goes
  <2>2. Flagged' /\ (flag["client"] => flag'["client"]) /\ Prompted'
    BY <1>1 DEF Flagged, RpcSafe, Ends, Places, Prompted
  <2> HIDE DEF Coming, Replies
  <2> QED BY <1>1, <1>7, <1>8, <1>10, <2>1, <2>2, EndsSame
<1> QED BY <1>7, <1>10, <1>11 DEF RpcSafe

(* The rest of a queue in which no event comes behind its turn's response; *)
(* if the response was the head, no event is left.                         *)
LEMMA BehindTail ==
  ASSUME NEW n \in Turns, NEW q \in Seq(ToClient), q # << >>,
         \A i, j \in DOMAIN q : i < j /\ q[i] = Reply(n) => q[j] # Event(n)
  PROVE  /\ \A i, j \in DOMAIN Tail(q) : i < j /\ Tail(q)[i] = Reply(n) => Tail(q)[j] # Event(n)
         /\ Head(q) = Reply(n) => Count(Tail(q), Event(n)) = 0
<1>1. /\ \A i \in DOMAIN Tail(q) : i \in Nat /\ i > 0 /\ i + 1 \in DOMAIN q /\ Tail(q)[i] = q[i + 1]
      /\ 1 \in DOMAIN q /\ Head(q) = q[1] /\ Tail(q) \in Seq(ToClient)
  OBVIOUS
<1>2. \A i, j \in DOMAIN Tail(q) : i < j /\ Tail(q)[i] = Reply(n) => Tail(q)[j] # Event(n)
  <2> SUFFICES ASSUME NEW i \in DOMAIN Tail(q), NEW j \in DOMAIN Tail(q), i < j, Tail(q)[i] = Reply(n)
               PROVE  Tail(q)[j] # Event(n)
    OBVIOUS
  <2>1. i + 1 < j + 1
    BY <1>1
  <2> QED BY <2>1, <1>1
<1>3. ASSUME Head(q) = Reply(n) PROVE Count(Tail(q), Event(n)) = 0
  <2>1. \A j \in DOMAIN Tail(q) : Tail(q)[j] # Event(n)
    <3> SUFFICES ASSUME NEW j \in DOMAIN Tail(q) PROVE Tail(q)[j] # Event(n)
      OBVIOUS
    <3>1. 1 < j + 1
      BY <1>1
    <3> QED BY <3>1, <1>1, <1>3
  <2> QED BY <2>1, <1>1, CountFacts
<1> QED BY <1>2, <1>3

(* dispatch_line on the client's side: a response resolves its call, an    *)
(* event or a request for approval moves to the channel, or is dropped     *)
(* with a client that has left.                                            *)
LEMMA ClientLineKeeps ==
  ASSUME RpcType, RpcSafe, dispatch_line("client"), UNCHANGED others
  PROVE  RpcType' /\ RpcSafe'
<1> DEFINE m == Head(outbound["server"])
<1>1. /\ outbound["server"] # << >>
      /\ outbound' = [outbound EXCEPT !["server"] = Tail(outbound["server"])]
      /\ UNCHANGED <<session, client, emitted, heard, returned, reader, writer, flag>>
  BY DEF dispatch_line, TakesLine, Peer, others
<1>2. /\ outbound'["server"] = Tail(outbound["server"])
      /\ outbound'["client"] = outbound["client"]
      /\ m \in ToClient /\ outbound'["server"] \in Seq(ToClient)
      /\ \A x : Count(outbound["server"], x) = Count(outbound'["server"], x) + One(m = x)
  <2>1. /\ outbound'["server"] = Tail(outbound["server"])
        /\ outbound'["client"] = outbound["client"]
    BY <1>1 DEF RpcType, QueueType, Sides
  <2>2. outbound["server"] \in Seq(ToClient)
    BY DEF RpcType, QueueType
  <2> QED BY <1>1, <2>1, <2>2, CountTail
<1>3. outbound' \in [Sides -> Seq(ToServer) \cup Seq(ToClient)]
  BY <1>1, <1>2 DEF RpcType, QueueType
<1>4. \/ /\ m.type = "response" /\ incoming' = incoming
         /\ pending' = [pending EXCEPT !["client"] = @ \ {m.of}]
         /\ \/ call' = call
            \/ call[m.of] = "waiting" /\ call' = [call EXCEPT ![m.of] = IF m.ok THEN "ok" ELSE "failed"]
      \/ /\ m.type # "response" /\ incoming' = [incoming EXCEPT !["client"] = Append(incoming["client"], m)]
         /\ UNCHANGED <<pending, call>>
      \/ m.type # "response" /\ client.pc = "gone" /\ UNCHANGED <<incoming, pending, call>>
  BY DEF dispatch_line, Peer, CallGoes, Discards, Held
<1>5. /\ incoming'["server"] = incoming["server"]
      /\ incoming' \in [Sides -> Seq(ToServer) \cup Seq(ToClient)]
      /\ incoming'["client"] \in Seq(ToClient)
      /\ \A x : Count(incoming'["client"], x) \in Nat
      /\ \A x : Count(incoming'["client"], x) <= Count(incoming["client"], x) + One(m = x)
      /\ m.type # "response" /\ client.pc # "gone" =>
           \A x : Count(incoming'["client"], x) = Count(incoming["client"], x) + One(m = x)
      /\ m.type = "response" => incoming' = incoming
  <2>0. incoming["server"] \in Seq(ToServer) /\ incoming["client"] \in Seq(ToClient)
    BY DEF RpcType, QueueType
  <2>1. \A x : Count(incoming["client"], x) \in Nat /\ One(m = x) \in Nat
    BY <2>0, CountFacts DEF One
  <2>2. CASE incoming' = incoming /\ (m.type = "response" \/ client.pc = "gone")
    <3> HIDE DEF m
    <3> QED BY <2>0, <2>1, <2>2 DEF RpcType, QueueType
  <2>3. CASE /\ m.type # "response"
             /\ incoming' = [incoming EXCEPT !["client"] = Append(incoming["client"], m)]
    <3>1. /\ incoming'["client"] = Append(incoming["client"], m)
          /\ incoming'["server"] = incoming["server"]
      BY <2>3 DEF RpcType, QueueType, Sides
    <3>2. /\ incoming'["client"] \in Seq(ToClient)
          /\ \A x : Count(incoming'["client"], x) = Count(incoming["client"], x) + One(m = x)
      BY <1>2, <2>0, <3>1, CountAppend
    <3>3. incoming' \in [Sides -> Seq(ToServer) \cup Seq(ToClient)]
      BY <2>3, <3>1, <3>2 DEF RpcType, QueueType
    <3> HIDE DEF m
    <3> QED BY <2>1, <2>3, <3>1, <3>2, <3>3
  <2> QED BY <1>4, <2>2, <2>3
<1>6. /\ call' \in [Calls -> Marks] /\ pending' \in [Sides -> SUBSET Calls]
      /\ \A n \in Turns : \/ call'[PromptCall(n)] = call[PromptCall(n)]
                          \/ /\ call[PromptCall(n)] = "waiting" /\ m.type = "response"
                             /\ \/ m = Reply(n) /\ call'[PromptCall(n)] = "ok"
                                \/ call'[PromptCall(n)] = "failed"
  <2>1. CASE UNCHANGED call
    BY <2>1, <1>4, SMTT(40) DEF RpcType, EndType, TaskType
  <2>2. CASE /\ m.type = "response"
             /\ pending' = [pending EXCEPT !["client"] = @ \ {m.of}]
             /\ call[m.of] = "waiting" /\ call' = [call EXCEPT ![m.of] = IF m.ok THEN "ok" ELSE "failed"]
    <3>1. m.of \in ClientCalls
      BY <1>2, <2>2, ClientReads
    <3>3. pending' \in [Sides -> SUBSET Calls]
      BY <2>2 DEF RpcType, TaskType
    <3>4. call' \in [Calls -> Marks]
      BY <2>2 DEF RpcType, EndType, Marks
    <3>5. ASSUME NEW n \in Turns
          PROVE  \/ call'[PromptCall(n)] = call[PromptCall(n)]
                 \/ /\ call[PromptCall(n)] = "waiting" /\ m.type = "response"
                    /\ \/ m = Reply(n) /\ call'[PromptCall(n)] = "ok"
                       \/ call'[PromptCall(n)] = "failed"
      <4>1. PromptCall(n) \in Calls /\ DOMAIN call = Calls
        BY CallNames DEF Calls, RpcType, EndType
      <4>2. m = Reply(n) <=> m.type = "response" /\ m.of = PromptCall(n) /\ m.ok
        BY <1>2, ClientReads
      <4>3. call'[PromptCall(n)] = IF PromptCall(n) = m.of THEN (IF m.ok THEN "ok" ELSE "failed")
                                  ELSE call[PromptCall(n)]
        BY <2>2, <4>1
      <4> HIDE DEF m
      <4> QED BY <2>2, <4>2, <4>3
    <3> QED BY <3>3, <3>4, <3>5
  <2> QED BY <1>4, <2>1, <2>2
<1>7. RpcType'
  <2>1. QueueType'
    BY <1>2, <1>3, <1>5 DEF RpcType, QueueType
  <2> QED BY <2>1, <1>1, <1>6 DEF RpcType, EndType, TaskType
<1>8. \A n \in Turns :
        /\ Coming(n)' <= Coming(n) /\ Coming(n)' \in Nat
        /\ client.pc # "gone" => Coming(n)' = Coming(n)
        /\ Replies(n)' <= Replies(n) /\ Replies(n)' \in Nat
  <2> TAKE n \in Turns
  <2>1. /\ Count(outbound["server"], Event(n)) \in Nat
        /\ Count(incoming["client"], Event(n)) \in Nat
        /\ Count(outbound["server"], Reply(n)) \in Nat
        /\ Count(outbound'["server"], Event(n)) \in Nat
        /\ Count(outbound'["server"], Reply(n)) \in Nat
    BY Numbers, <1>2, CountFacts
  <2>2. /\ One(Sending(Event(n))') = One(Sending(Event(n)))
        /\ One(Sending(Reply(n))') = One(Sending(Reply(n)))
        /\ One(Sending(Event(n))) \in Nat /\ One(Sending(Reply(n))) \in Nat
    BY <1>1 DEF Sending, One
  <2>3. /\ Count(outbound["server"], Event(n)) = Count(outbound'["server"], Event(n)) + One(m = Event(n))
        /\ Count(outbound["server"], Reply(n)) = Count(outbound'["server"], Reply(n)) + One(m = Reply(n))
    BY <1>2
  <2>4. /\ Count(incoming'["client"], Event(n)) <= Count(incoming["client"], Event(n)) + One(m = Event(n))
        /\ Count(incoming'["client"], Event(n)) \in Nat
        /\ m.type # "response" /\ client.pc # "gone" =>
              Count(incoming'["client"], Event(n)) = Count(incoming["client"], Event(n)) + One(m = Event(n))
    BY <1>5
  <2>5. m.type = "response" => One(m = Event(n)) = 0 /\ incoming' = incoming
    BY <1>2, <1>5, ClientReads DEF One
  <2>6. One(m = Event(n)) \in Nat /\ One(m = Reply(n)) \in Nat
    BY DEF One
  <2>7. One(call'[PromptCall(n)] = "ok") <= One(call[PromptCall(n)] = "ok") + One(m = Reply(n))
        /\ One(call'[PromptCall(n)] = "ok") \in Nat
        /\ One(call[PromptCall(n)] = "ok") \in Nat
    <3> HIDE DEF m
    <3> QED BY <1>6 DEF One
  <2> HIDE DEF m, Sending, One
  <2>8. Coming(n)' <= Coming(n) /\ Coming(n)' \in Nat
    BY <2>1, <2>2, <2>3, <2>4, <2>6 DEF Coming
  <2>9. client.pc # "gone" => Coming(n)' = Coming(n)
    BY <2>1, <2>2, <2>3, <2>4, <2>5, <2>6 DEF Coming
  <2>10. Replies(n)' <= Replies(n) /\ Replies(n)' \in Nat
    BY <2>1, <2>2, <2>3, <2>6, <2>7 DEF Replies
  <2> QED BY <2>8, <2>9, <2>10
<1>9. \A n \in Turns : Chances(n)' <= Chances(n) /\ Chances(n)' \in Nat
  <2> SUFFICES ASSUME NEW n \in Turns PROVE Chances(n)' <= Chances(n) /\ Chances(n)' \in Nat
    OBVIOUS
  <2>1. /\ Count(outbound["client"], Prompt(n)) \in Nat
        /\ Count(incoming["server"], Prompt(n)) \in Nat
        /\ Replies(n) \in Nat
    BY Numbers
  <2>4. One(Unasked(n)') = One(Unasked(n)) /\ One(Unasked(n)) \in Nat
    <3> HIDE DEF m
    <3> QED BY <1>6 DEF Unasked, One
  <2>5. One(session'.turn = n) = One(session.turn = n) /\ One(session.turn = n) \in Nat
    BY <1>1 DEF One
  <2>6. Replies(n)' <= Replies(n) /\ Replies(n)' \in Nat
    BY <1>8
  <2> HIDE DEF m, Replies, Unasked
  <2> QED BY <1>2, <1>5, <2>1, <2>4, <2>5, <2>6, SMTT(40) DEF Chances
<1>10. Wire'
  <2>1. Single'
    <3> HIDE DEF Chances
    <3> QED BY <1>9, SingleStays DEF RpcSafe, Wire
  <2>2. Behind'
    <3> SUFFICES ASSUME NEW n \in Turns
                 PROVE  /\ \A i, j \in DOMAIN outbound'["server"] :
                             i < j /\ outbound'["server"][i] = Reply(n) => outbound'["server"][j] # Event(n)
                        /\ call'[PromptCall(n)] = "ok" => Count(outbound'["server"], Event(n)) = 0
      BY DEF Behind
    <3>0. outbound["server"] \in Seq(ToClient)
      BY DEF RpcType, QueueType
    <3>1. /\ \A i, j \in DOMAIN outbound["server"] :
             i < j /\ outbound["server"][i] = Reply(n) => outbound["server"][j] # Event(n)
          /\ call[PromptCall(n)] = "ok" => Count(outbound["server"], Event(n)) = 0
      BY DEF Behind, RpcSafe, Wire
    <3>2. /\ \A i, j \in DOMAIN outbound'["server"] :
                 i < j /\ outbound'["server"][i] = Reply(n) => outbound'["server"][j] # Event(n)
          /\ m = Reply(n) => Count(outbound'["server"], Event(n)) = 0
      BY <1>1, <1>2, <3>0, <3>1, BehindTail
    <3>3. call[PromptCall(n)] = "ok" => Count(outbound'["server"], Event(n)) = 0
      <4>1. Count(outbound["server"], Event(n)) = Count(outbound'["server"], Event(n)) + One(m = Event(n))
            /\ Count(outbound'["server"], Event(n)) \in Nat
        BY <1>2, CountFacts
      <4>2. One(m = Event(n)) \in Nat
        BY DEF One
      <4> HIDE DEF m
      <4> QED BY <3>1, <4>1, <4>2
    <3> HIDE DEF m
    <3> QED BY <3>2, <3>3, <1>6
  <2> QED BY <1>1, <2>1, <2>2 DEF Wire, RpcSafe, OwnTurn, Sending
<1>11. Ends'
  <2>1. \A n \in Turns : Goes(n)
    <3> HIDE DEF m
    <3> QED BY <1>6 DEF Goes
  <2>2. Flagged' /\ (flag["client"] => flag'["client"]) /\ Prompted'
    BY <1>1 DEF Flagged, RpcSafe, Ends, Places, Prompted
  <2>3. \A n \in Turns : Coming(n) \in Nat /\ emitted[n] \in Nat /\ Replies(n) \in Nat
    BY Numbers
  <2>4. \A n \in Turns :
          /\ emitted'[n] # emitted[n] => session.turn = n
          /\ Coming(n)' + emitted[n] <= Coming(n) + emitted'[n]
          /\ client.pc # "gone" /\ (session'.pc # "closed" \/ Replies(n)' > 0) =>
               /\ session.pc # "closed" \/ Replies(n) > 0
               /\ Coming(n)' + emitted[n] = Coming(n) + emitted'[n]
    <3> HIDE DEF Coming, Replies, m
    <3> QED BY <1>1, <1>8, <2>3
  <2> QED BY <1>1, <1>7, <1>10, <2>1, <2>2, <2>4, EndsStay
<1> QED BY <1>7, <1>10, <1>11 DEF RpcSafe

(* The session takes a message, or sees that nobody sends any more: a      *)
(* prompt becomes the session's turn.                                      *)
LEMMA SessionReads ==
  ASSUME RpcType, RpcSafe, session.pc \notin {"send", "closed"}, session' \in SessionStates,
         UNCHANGED <<outbound, call, emitted, client, heard, returned, reader, writer, flag, pending>>,
         incoming' = incoming \/ (Received("server") /\ Takes("server")), Prompted',
         \A n \in Turns : ~Sending(Event(n))' /\ ~Sending(Reply(n))',
         \A n \in Turns : session'.turn = n =>
           session.turn = n \/ (Received("server") /\ Takes("server") /\ Next1("server") = Prompt(n))
  PROVE  RpcType' /\ RpcSafe'
<1>1. /\ incoming'["client"] = incoming["client"]
      /\ incoming' \in [Sides -> Seq(ToServer) \cup Seq(ToClient)]
      /\ incoming'["server"] \in Seq(ToServer)
      /\ \A n \in Turns : Count(incoming'["server"], Prompt(n)) + One(session'.turn = n)
                            <= Count(incoming["server"], Prompt(n)) + One(session.turn = n)
      /\ \A x : Count(incoming'["server"], x) \in Nat
  <2>0. incoming["server"] \in Seq(ToServer) /\ incoming["client"] \in Seq(ToClient)
    BY DEF RpcType, QueueType
  <2>1. \A x : Count(incoming["server"], x) \in Nat
    BY <2>0, CountFacts
  <2>2. CASE Received("server") /\ Takes("server")
    <3> DEFINE h == Next1("server")
    <3>1. /\ incoming'["server"] = Tail(incoming["server"])
          /\ incoming'["client"] = incoming["client"]
          /\ incoming' = [incoming EXCEPT !["server"] = Tail(incoming["server"])]
      BY <2>2 DEF Takes, RpcType, QueueType, Sides
    <3>2. /\ Tail(incoming["server"]) \in Seq(ToServer)
          /\ \A x : Count(incoming["server"], x) = Count(Tail(incoming["server"]), x) + One(h = x)
      BY <2>0, <2>2, CountTail DEF Received, Next1
    <3>3. incoming' \in [Sides -> Seq(ToServer) \cup Seq(ToClient)]
      BY <3>1, <3>2 DEF RpcType, QueueType
    <3>4. \A x : Count(Tail(incoming["server"]), x) \in Nat
      BY <3>2, CountFacts
    <3>5. \A n \in Turns : One(session'.turn = n) <= One(session.turn = n) + One(h = Prompt(n))
      BY DEF One
    <3>6. ASSUME NEW n \in Turns
          PROVE  Count(incoming'["server"], Prompt(n)) + One(session'.turn = n)
                   <= Count(incoming["server"], Prompt(n)) + One(session.turn = n)
      <4>1. /\ One(session'.turn = n) \in Nat /\ One(session.turn = n) \in Nat
            /\ One(h = Prompt(n)) \in Nat
        BY DEF One
      <4> HIDE DEF h
      <4> QED BY <3>1, <3>2, <3>4, <3>5, <4>1
    <3> QED BY <3>1, <3>2, <3>3, <3>4, <3>6
  <2>3. CASE incoming' = incoming /\ ~(Received("server") /\ Takes("server"))
    <3>1. \A n \in Turns : One(session'.turn = n) <= One(session.turn = n) /\ One(session.turn = n) \in Nat
                          /\ One(session'.turn = n) \in Nat
      BY <2>3 DEF One
    <3> QED BY <2>0, <2>1, <2>3, <3>1 DEF RpcType, QueueType
  <2> QED BY <2>2, <2>3
<1>2. RpcType'
  BY <1>1 DEF RpcType, QueueType, EndType, TaskType
<1>3. \A n \in Turns : Coming(n)' = Coming(n) /\ Replies(n)' = Replies(n)
  BY <1>1 DEF Coming, Replies, Sending
<1>4. \A n \in Turns : Chances(n)' <= Chances(n) /\ Chances(n)' \in Nat
  <2> SUFFICES ASSUME NEW n \in Turns PROVE Chances(n)' <= Chances(n) /\ Chances(n)' \in Nat
    OBVIOUS
  <2>1. /\ Count(outbound["client"], Prompt(n)) \in Nat
        /\ Count(incoming["server"], Prompt(n)) \in Nat
        /\ Replies(n) \in Nat /\ Count(incoming'["server"], Prompt(n)) \in Nat
    BY Numbers, <1>1
  <2>2. One(Unasked(n)') = One(Unasked(n)) /\ One(Unasked(n)) \in Nat
    BY DEF Unasked, One
  <2>3. One(session'.turn = n) \in Nat /\ One(session.turn = n) \in Nat
    BY DEF One
  <2>4. Count(incoming'["server"], Prompt(n)) + One(session'.turn = n)
          <= Count(incoming["server"], Prompt(n)) + One(session.turn = n)
    BY <1>1
  <2>5. Replies(n)' = Replies(n)
    BY <1>3
  <2> HIDE DEF Replies, Unasked
  <2> QED BY <2>1, <2>2, <2>3, <2>4, <2>5 DEF Chances
<1>5. Wire'
  <2>1. Single'
    <3> HIDE DEF Chances
    <3> QED BY <1>4, SingleStays DEF RpcSafe, Wire
  <2>2. OwnTurn' /\ Behind'
    BY DEF OwnTurn, Behind, RpcSafe, Wire
  <2> QED BY <2>1, <2>2 DEF Wire
<1>6. Ends'
  <2>1. (\A n \in Turns : Goes(n)) /\ Flagged' /\ (flag["client"] => flag'["client"])
    BY DEF Goes, Flagged, RpcSafe, Ends
  <2> HIDE DEF Coming, Replies
  <2> QED BY <1>2, <1>3, <1>5, <2>1, EndsSame
<1> QED BY <1>2, <1>5, <1>6 DEF RpcSafe

(* A session step gives the session the state it names.                    *)
LEMMA SessionForms ==
  ASSUME NEW at \in {"handshake", "send", "build", "idle", "turn", "closed"}, NEW m \in ToClient,
         NEW next \in {"build", "idle", "turn", "closed"}, NEW turn \in 0 .. MaxTurns,
         NEW aborted \in BOOLEAN, SessionIs(at, m, next, turn, aborted)
  PROVE  /\ session' \in SessionStates
         /\ session'.pc = at /\ session'.msg = m /\ session'.next = next
         /\ session'.turn = turn
         /\ \A x : Sending(x)' <=> at = "send" /\ x = m
BY DEF SessionStates, SessionIs, Sending

(* The handshake, the agent's factory, and a session between turns.        *)
LEMMA IdleKeeps ==
  ASSUME RpcType, RpcSafe, ServerHandshake \/ BuildAgent \/ SessionIdle
  PROVE  RpcType' /\ RpcSafe'
<1>1. /\ session.pc \in {"handshake", "build", "idle"}
      /\ UNCHANGED <<outbound, call, emitted, client, heard, returned, reader, writer, flag, pending>>
      /\ incoming' = incoming \/ (Received("server") /\ Takes("server"))
  BY DEF ServerHandshake, BuildAgent, SessionIdle, PeerUnchanged, ServerUnchanged
<1>2. /\ session.msg \in ToClient
      /\ session.next \in {"build", "idle", "turn", "closed"}
      /\ session.turn \in 0 .. MaxTurns /\ 0 \in 0 .. MaxTurns
  BY Fields DEF RpcType
<1>3. session.aborted \in BOOLEAN /\ session \in SessionStates
  BY Zenon DEF RpcType, EndType, SessionStates
<1> DEFINE h == Next1("server")
<1>4. Received("server") => h \in ToServer
  <2>1. incoming["server"] \in Seq(ToServer)
    BY DEF RpcType, QueueType
  <2> QED BY <2>1, CountTail DEF Received, Next1
<1>5. CASE \E m \in ToClient, next \in {"build", "idle", "closed"} :
             SessionSends(m, next) /\ \A n \in Turns : m # Event(n) /\ m # Reply(n)
  <2>1. PICK m \in ToClient, next \in {"build", "idle", "closed"} :
               SessionSends(m, next) /\ \A n \in Turns : m # Event(n) /\ m # Reply(n)
    BY <1>5
  <2>2. /\ session' \in SessionStates /\ session'.pc = "send" /\ session'.next = next
        /\ session'.turn = session.turn /\ \A x : Sending(x)' => x = m
    BY <1>2, <1>3, <2>1, SessionForms DEF SessionSends
  <2>3. Prompted'
    BY <2>2 DEF Prompted
  <2> QED BY <1>1, <2>1, <2>2, <2>3, SessionReads
<1>6. CASE \E at \in {"idle", "closed"}, turn \in {0, session.turn}, next \in {session.next} :
             SessionIs(at, session.msg, next, turn, session.aborted)
  <2>1. PICK at \in {"idle", "closed"}, turn \in {0, session.turn} :
               SessionIs(at, session.msg, session.next, turn, session.aborted)
    BY <1>6
  <2>2. /\ session' \in SessionStates /\ session'.pc = at /\ session'.turn = turn
        /\ \A x : ~Sending(x)'
    BY <1>2, <1>3, <2>1, SessionForms
  <2>3. Prompted'
    BY <2>2 DEF Prompted
  <2>4. \A n \in Turns : session'.turn = n => session.turn = n
    BY <2>2 DEF Turns
  <2> QED BY <1>1, <2>2, <2>3, <2>4, SessionReads
<1>7. CASE /\ Received("server") /\ Takes("server") /\ h.of[1] = "prompt"
           /\ SessionIs("turn", session.msg, session.next, h.of[2], FALSE)
  <2>1. h.of[2] \in Turns /\ h = Prompt(h.of[2])
    BY <1>4, <1>7, ServerReads
  <2>2. h.of[2] \in 1 .. MaxTurns
    BY <2>1 DEF Turns
  <2>3. h.of[2] \in 0 .. MaxTurns /\ h.of[2] > 0
    BY <2>2
  <2>4. /\ session' \in SessionStates /\ session'.pc = "turn" /\ session'.turn = h.of[2]
        /\ \A x : ~Sending(x)'
    <3> HIDE DEF h
    <3>1. PICK aborted \in BOOLEAN : SessionIs("turn", session.msg, session.next, h.of[2], aborted)
      BY <1>7
    <3> QED BY <1>2, <2>3, <3>1, SessionForms
  <2>5. Prompted'
    BY <2>3, <2>4 DEF Prompted
  <2>6. \A n \in Turns : session'.turn = n => Next1("server") = Prompt(n)
    BY <2>1, <2>4
  <2> QED BY <1>1, <1>7, <2>4, <2>5, <2>6, SessionReads
<1>8. CASE session' = session
  <2>1. \A x : ~Sending(x)'
    BY <1>1, <1>8 DEF Sending
  <2>2. Prompted'
    BY <1>8 DEF RpcSafe, Ends, Places, Prompted
  <2> QED BY <1>1, <1>3, <1>8, <2>1, <2>2, SessionReads
<1>9. CASE ServerHandshake
  <2>1. CASE SessionSends(Notification("initialized", 0), "build")
    <3>1. Notification("initialized", 0) \in ToClient
          /\ \A n \in Turns : Notification("initialized", 0) # Event(n) /\ Notification("initialized", 0) # Reply(n)
      BY MessagesFit, Apart
    <3> QED BY <2>1, <3>1, <1>5
  <2>2. CASE Closes
    BY <2>2, <1>6 DEF Closes
  <2> QED BY <1>9, <2>1, <2>2 DEF ServerHandshake
<1>10. CASE BuildAgent
  <2>1. CASE SessionAt("idle")
    BY <2>1, <1>6 DEF SessionAt
  <2>2. CASE SessionSends(Notification("error", 0), "closed")
    <3>1. Notification("error", 0) \in ToClient
          /\ \A n \in Turns : Notification("error", 0) # Event(n) /\ Notification("error", 0) # Reply(n)
      BY MessagesFit, Apart
    <3> QED BY <2>2, <3>1, <1>5
  <2> QED BY <1>10, <2>1, <2>2 DEF BuildAgent
<1>11. CASE SessionIdle
  <2>1. CASE /\ Received("server") /\ Takes("server") /\ h.of[1] = "prompt"
             /\ SessionSends(Response(h.of, FALSE), "idle")
    <3>1. h.of \in ClientCalls
      BY <1>4, <2>1, ServerReads, CallNames
    <3>2. Response(h.of, FALSE) \in ToClient
          /\ \A n \in Turns : Response(h.of, FALSE) # Event(n) /\ Response(h.of, FALSE) # Reply(n)
      BY <3>1, MessagesFit, Apart
    <3> HIDE DEF h
    <3> QED BY <2>1, <3>2, <1>5
  <2>2. CASE /\ Received("server") /\ Takes("server") /\ h.of[1] = "control"
             /\ \E ok \in BOOLEAN : SessionSends(Response(h.of, ok), "idle")
    <3>1. h.of = ControlCall
      BY <1>4, <2>2, ServerReads
    <3>2. PICK ok \in BOOLEAN : SessionSends(Response(ControlCall, ok), "idle")
      <4> HIDE DEF h
      <4> QED BY <2>2, <3>1
    <3>3. Response(ControlCall, ok) \in ToClient
      BY MessagesFit, CallNames
    <3>4. \A n \in Turns : Response(ControlCall, ok) # Event(n) /\ Response(ControlCall, ok) # Reply(n)
      BY Apart
    <3> QED BY <3>2, <3>3, <3>4, <1>5
  <2>3. CASE Closes
    BY <2>3, <1>6 DEF Closes
  <2> QED BY <1>11, <2>1, <2>2, <2>3, <1>7, <1>8 DEF SessionIdle
<1> QED BY <1>9, <1>10, <1>11

(* A message in a turn: a cancel, a shutdown or a call that is refused.    *)
LEMMA TurnKeeps ==
  ASSUME RpcType, RpcSafe, TurnMessage
  PROVE  RpcType' /\ RpcSafe'
<1>1. /\ session.pc = "turn"
      /\ UNCHANGED <<outbound, call, emitted, client, heard, returned, reader, writer, flag, pending>>
      /\ incoming' = incoming \/ (Received("server") /\ Takes("server"))
  BY DEF TurnMessage, PeerUnchanged, ServerUnchanged
<1>2. /\ session.msg \in ToClient
      /\ session.next \in {"build", "idle", "turn", "closed"}
      /\ session.turn \in 0 .. MaxTurns /\ session.turn > 0 /\ session.turn \in Turns
  BY <1>1, Fields DEF RpcType, RpcSafe, Ends, Places, Prompted
<1>3. session.aborted \in BOOLEAN /\ session \in SessionStates
  BY Zenon DEF RpcType, EndType, SessionStates
<1> DEFINE h == Next1("server")
<1>4. Received("server") => h \in ToServer
  <2>1. incoming["server"] \in Seq(ToServer)
    BY DEF RpcType, QueueType
  <2> QED BY <2>1, CountTail DEF Received, Next1
<1>5. CASE \E r \in ClientCalls, next \in {"turn", "closed"}, aborted \in BOOLEAN :
             SessionIs("send", Response(r, FALSE), next, session.turn, aborted)
  <2>1. PICK r \in ClientCalls, next \in {"turn", "closed"}, aborted \in BOOLEAN :
               SessionIs("send", Response(r, FALSE), next, session.turn, aborted)
    BY <1>5
  <2>2. Response(r, FALSE) \in ToClient /\ \A n \in Turns : Response(r, FALSE) # Event(n) /\ Response(r, FALSE) # Reply(n)
    BY MessagesFit, Apart
  <2>3. /\ session' \in SessionStates /\ session'.turn = session.turn
        /\ \A x : Sending(x)' => x = Response(r, FALSE)
    BY <1>2, <2>1, <2>2, SessionForms, ZenonT(40)
  <2>4. Prompted'
    BY <1>2, <2>3 DEF Prompted
  <2> QED BY <1>1, <2>2, <2>3, <2>4, SessionReads
<1>6. CASE session' = [session EXCEPT !.aborted = TRUE]
  <2>1. /\ session' \in SessionStates /\ session'.pc = "turn"
        /\ session'.turn = session.turn
    BY <1>1, <1>3, <1>6 DEF SessionStates
  <2>2. \A x : ~Sending(x)'
    BY <2>1 DEF Sending
  <2>3. Prompted'
    BY <1>2, <2>1 DEF Prompted
  <2> QED BY <1>1, <2>1, <2>2, <2>3, SessionReads
<1>7. PromptCall(session.turn) \in ClientCalls
  BY <1>2, CallNames
<1>8. CASE SessionIs("send", Response(PromptCall(session.turn), FALSE), "closed", session.turn, TRUE)
  BY <1>5, <1>7, <1>8
<1>9. CASE /\ Received("server") /\ h.type = "request"
           /\ SessionSends(Response(h.of, FALSE), "turn")
  <2>1. h.of \in ClientCalls
    BY <1>4, <1>9, ServerReads
  <2> HIDE DEF h
  <2> QED BY <1>3, <1>5, <1>9, <2>1 DEF SessionSends
<1>10. CASE SessionSends(Response(PromptCall(session.turn), FALSE), "closed")
  BY <1>3, <1>5, <1>7, <1>10 DEF SessionSends
<1> QED BY <1>6, <1>8, <1>9, <1>10 DEF TurnMessage

(* An event is appended only while its turn's response is not in the       *)
(* queue.                                                                  *)
LEMMA BehindAppend ==
  ASSUME NEW n \in Turns, NEW q \in Seq(ToClient), NEW m \in ToClient,
         \A i, j \in DOMAIN q : i < j /\ q[i] = Reply(n) => q[j] # Event(n),
         m = Event(n) => Count(q, Reply(n)) = 0
  PROVE  \A i, j \in DOMAIN Append(q, m) :
           i < j /\ Append(q, m)[i] = Reply(n) => Append(q, m)[j] # Event(n)
<1> DEFINE t == Append(q, m)
<1>0. /\ DOMAIN q = 1 .. Len(q) /\ Len(q) \in Nat /\ DOMAIN t = 1 .. Len(q) + 1
      /\ \A i \in 1 .. Len(q) : t[i] = q[i]
      /\ t[Len(q) + 1] = m
  <2>1. DOMAIN q = 1 .. Len(q) /\ Len(q) \in Nat /\ DOMAIN t = 1 .. Len(q) + 1
    OBVIOUS
  <2>2. \A i \in 1 .. Len(q) : t[i] = q[i]
    OBVIOUS
  <2>3. t[Len(q) + 1] = m
    OBVIOUS
  <2> QED BY <2>1, <2>2, <2>3
<1> HIDE DEF t
<1>1. ASSUME NEW i \in DOMAIN t
      PROVE  (i \in DOMAIN q /\ t[i] = q[i]) \/ (i = Len(q) + 1 /\ t[i] = m)
  BY <1>0
<1>2. DOMAIN q = 1 .. Len(q) /\ Len(q) \in Nat
  OBVIOUS
<1>3. m = Event(n) => \A i \in DOMAIN q : q[i] # Reply(n)
  BY CountFacts
<1>4. ASSUME NEW i \in DOMAIN t, NEW j \in DOMAIN t, i < j, t[i] = Reply(n)
      PROVE  t[j] # Event(n)
  <2>1. i \in DOMAIN q /\ t[i] = q[i]
    BY <1>0, <1>4
  <2>2. CASE j \in DOMAIN q /\ t[j] = q[j]
    BY <2>1, <2>2, <1>4
  <2>3. CASE j = Len(q) + 1 /\ t[j] = m
    BY <2>1, <2>3, <1>3, <1>4
  <2> QED BY <2>2, <2>3, <1>1
<1> QED BY <1>4 DEF t

(* The session sends what it has to send, or finds the channel closed, and *)
(* then the turn's events no longer count: no success will be reported.    *)
LEMMA SessionSendKeeps ==
  ASSUME RpcType, RpcSafe, SessionSend
  PROVE  RpcType' /\ RpcSafe'
<1> DEFINE m == session.msg
<1>1. /\ session.pc = "send"
      /\ UNCHANGED <<incoming, call, emitted, client, heard, returned, reader, writer, flag, pending>>
      /\ \/ /\ outbound' = [outbound EXCEPT !["server"] = Append(outbound["server"], m)]
            /\ IF session.next = "closed" THEN Closes ELSE SessionAt(session.next)
         \/ Closes /\ UNCHANGED outbound
  BY DEF SessionSend, PeerUnchanged, ServerUnchanged, Enqueue
<1>2. /\ m \in ToClient /\ session.next \in {"build", "idle", "turn", "closed"}
      /\ session.turn \in 0 .. MaxTurns /\ 0 \in 0 .. MaxTurns
  BY Fields DEF RpcType
<1>3. session.aborted \in BOOLEAN
  BY Zenon DEF RpcType, EndType, SessionStates
<1>4. /\ session' \in SessionStates /\ session'.turn \in {0, session.turn}
      /\ session'.pc # "send" /\ Prompted' /\ \A x : ~Sending(x)'
  <2>1. CASE Closes
    <3>1. /\ session' \in SessionStates /\ session'.turn = 0 /\ session'.pc = "closed" /\ \A x : ~Sending(x)'
      BY <2>1, <1>2, <1>3, SessionForms DEF Closes
    <3> QED BY <3>1 DEF Prompted
  <2>2. CASE SessionAt(session.next)
    <3>1. /\ session' \in SessionStates /\ session'.turn = session.turn
          /\ session'.pc = session.next
          /\ \A x : Sending(x)' => session.next = "send"
      BY <2>2, <1>2, <1>3, SessionForms DEF SessionAt
    <3> QED BY <3>1, <1>1, <1>2 DEF Prompted, RpcSafe, Ends, Places
  <2> QED BY <1>1, <2>1, <2>2
<1>5. \A n \in Turns : session'.turn = n => session.turn = n
  BY <1>4 DEF Turns
<1>6. \A n \in Turns : /\ m = Event(n) => session.turn = n
                       /\ session.turn = n => call[PromptCall(n)] # "ok" /\ Replies(n) = 0
                                             /\ Count(outbound["server"], Reply(n)) = 0
  <2> TAKE n \in Turns
  <2>1. m = Event(n) => session.turn = n
    BY <1>1 DEF RpcSafe, Wire, OwnTurn, Sending
  <2>2. ASSUME session.turn = n PROVE call[PromptCall(n)] # "ok" /\ Replies(n) = 0 /\ Count(outbound["server"], Reply(n)) = 0
    <3>1. Chances(n) <= 1
      BY DEF RpcSafe, Wire, Single
    <3>2. /\ Count(outbound["server"], Reply(n)) \in Nat
          /\ Count(outbound["client"], Prompt(n)) \in Nat
          /\ Count(incoming["server"], Prompt(n)) \in Nat /\ Replies(n) \in Nat
      BY Numbers
    <3>3. One(session.turn = n) = 1 /\ One(Unasked(n)) \in Nat
      BY <2>2 DEF One
    <3>4. Replies(n) = 0
      <4> HIDE DEF Replies, Unasked
      <4> QED BY <3>1, <3>2, <3>3 DEF Chances
    <3> QED BY <3>4, <3>2 DEF Replies, One
  <2> QED BY <2>1, <2>2
<1>7. CASE outbound' = [outbound EXCEPT !["server"] = Append(outbound["server"], m)]
  <2>1. /\ outbound'["server"] = Append(outbound["server"], m)
        /\ outbound'["client"] = outbound["client"]
    BY <1>7 DEF RpcType, QueueType, Sides
  <2>2. /\ outbound'["server"] \in Seq(ToClient)
        /\ \A x : Count(outbound'["server"], x) = Count(outbound["server"], x) + One(m = x)
    BY <1>2, <2>1, CountAppend DEF RpcType, QueueType
  <2>3. outbound' \in [Sides -> Seq(ToServer) \cup Seq(ToClient)]
    BY <1>7, <2>1, <2>2 DEF RpcType, QueueType
  <2>4. RpcType'
    BY <1>1, <1>4, <2>1, <2>2, <2>3 DEF RpcType, QueueType, EndType, TaskType
  <2>5. \A n \in Turns : Coming(n)' = Coming(n) /\ Replies(n)' = Replies(n)
    <3> TAKE n \in Turns
    <3>1. /\ Count(outbound["server"], Event(n)) \in Nat
          /\ Count(incoming["client"], Event(n)) \in Nat
          /\ Count(outbound["server"], Reply(n)) \in Nat
      BY Numbers
    <3>2. /\ One(Sending(Event(n))) = One(m = Event(n))
          /\ One(Sending(Reply(n))) = One(m = Reply(n))
          /\ One(Sending(Event(n))') = 0 /\ One(Sending(Reply(n))') = 0
          /\ One(m = Event(n)) \in Nat /\ One(m = Reply(n)) \in Nat
      BY <1>1, <1>4 DEF Sending, One
    <3>3. /\ One(call'[PromptCall(n)] = "ok") = One(call[PromptCall(n)] = "ok")
          /\ One(call[PromptCall(n)] = "ok") \in Nat
      BY <1>1 DEF One
    <3> HIDE DEF m, One, Sending
    <3>4. Coming(n)' = Coming(n)
      BY <1>1, <2>2, <3>1, <3>2 DEF Coming
    <3>5. Replies(n)' = Replies(n)
      BY <2>2, <3>1, <3>2, <3>3 DEF Replies
    <3> QED BY <3>4, <3>5
  <2>6. \A n \in Turns : Chances(n)' <= Chances(n) /\ Chances(n)' \in Nat
    <3> SUFFICES ASSUME NEW n \in Turns PROVE Chances(n)' <= Chances(n) /\ Chances(n)' \in Nat
      OBVIOUS
    <3>1. /\ Count(outbound["client"], Prompt(n)) \in Nat
          /\ Count(incoming["server"], Prompt(n)) \in Nat
          /\ Replies(n) \in Nat
      BY Numbers
    <3>2. One(Unasked(n)') = One(Unasked(n)) /\ One(Unasked(n)) \in Nat
      BY <1>1 DEF Unasked, One
    <3>3. /\ One(session'.turn = n) <= One(session.turn = n)
          /\ One(session.turn = n) \in Nat
          /\ One(session'.turn = n) \in Nat
      BY <1>5 DEF One
    <3>4. Replies(n)' = Replies(n)
      BY <2>5
    <3> HIDE DEF Replies, Unasked, One
    <3> QED BY <1>1, <2>1, <3>1, <3>2, <3>3, <3>4, SMTT(40) DEF Chances
  <2>7. Behind'
    <3> SUFFICES ASSUME NEW n \in Turns
                 PROVE  /\ \A i, j \in DOMAIN outbound'["server"] :
                             i < j /\ outbound'["server"][i] = Reply(n) => outbound'["server"][j] # Event(n)
                        /\ call'[PromptCall(n)] = "ok" => Count(outbound'["server"], Event(n)) = 0
      BY DEF Behind
    <3>1. /\ \A i, j \in DOMAIN outbound["server"] :
             i < j /\ outbound["server"][i] = Reply(n) => outbound["server"][j] # Event(n)
          /\ call[PromptCall(n)] = "ok" => Count(outbound["server"], Event(n)) = 0
      BY DEF Behind, RpcSafe, Wire
    <3>2. outbound["server"] \in Seq(ToClient)
      BY DEF RpcType, QueueType
    <3>3. m = Event(n) => Count(outbound["server"], Reply(n)) = 0 /\ call[PromptCall(n)] # "ok"
      BY <1>6
    <3>4. call[PromptCall(n)] = "ok" => Count(outbound'["server"], Event(n)) = 0
      <4>1. Count(outbound'["server"], Event(n)) = Count(outbound["server"], Event(n)) + One(m = Event(n))
        BY <2>2
      <4> QED BY <3>1, <3>3, <4>1 DEF One
    <3> HIDE DEF m
    <3> QED BY <1>1, <1>2, <2>1, <3>1, <3>2, <3>3, <3>4, BehindAppend
  <2>8. Wire'
    <3>1. Single'
      <4> HIDE DEF Chances
      <4> QED BY <2>6, SingleStays DEF RpcSafe, Wire
    <3>2. OwnTurn'
      BY <1>4 DEF OwnTurn
    <3> QED BY <2>7, <3>1, <3>2 DEF Wire
  <2>9. Ends'
    <3>1. (\A n \in Turns : Goes(n)) /\ Flagged' /\ (flag["client"] => flag'["client"])
      BY <1>1 DEF Goes, Flagged, RpcSafe, Ends
    <3> HIDE DEF Coming, Replies
    <3> QED BY <1>1, <1>4, <2>4, <2>5, <2>8, <3>1, EndsSame
  <2> QED BY <2>4, <2>8, <2>9 DEF RpcSafe
<1>8. CASE Closes /\ outbound' = outbound
  <2>1. session'.pc = "closed"
    BY <1>2, <1>3, <1>8, SessionForms DEF Closes
  <2>2. RpcType'
    BY <1>1, <1>4, <1>8 DEF RpcType, QueueType, EndType, TaskType
  <2>3. \A n \in Turns :
          /\ Coming(n)' <= Coming(n) /\ Coming(n)' \in Nat
          /\ Replies(n)' <= Replies(n) /\ Replies(n)' \in Nat
          /\ Replies(n) > 0 => Coming(n)' = Coming(n)
    <3> TAKE n \in Turns
    <3>1. /\ Count(outbound["server"], Event(n)) \in Nat
          /\ Count(incoming["client"], Event(n)) \in Nat
          /\ Count(outbound["server"], Reply(n)) \in Nat
      BY Numbers
    <3>2. /\ One(Sending(Event(n))') = 0 /\ One(Sending(Reply(n))') = 0
          /\ One(Sending(Event(n))) \in Nat /\ One(Sending(Reply(n))) \in Nat
      BY <1>4 DEF One
    <3>3. /\ One(call'[PromptCall(n)] = "ok") = One(call[PromptCall(n)] = "ok")
          /\ One(call[PromptCall(n)] = "ok") \in Nat
      BY <1>1 DEF One
    <3>4. Replies(n) > 0 => One(Sending(Event(n))) = 0
      BY <1>6 DEF Sending, One
    <3>5. Coming(n)' <= Coming(n) /\ Coming(n)' \in Nat
      <4> HIDE DEF One, Sending
      <4> QED BY <1>1, <1>8, <3>1, <3>2 DEF Coming
    <3>6. Replies(n)' <= Replies(n) /\ Replies(n)' \in Nat
      <4> HIDE DEF One, Sending
      <4> QED BY <1>1, <1>8, <3>1, <3>2, <3>3 DEF Replies
    <3>7. One(Sending(Event(n))) = 0 => Coming(n)' = Coming(n)
      <4> HIDE DEF One, Sending
      <4> QED BY <1>1, <1>8, <3>1, <3>2 DEF Coming
    <3> QED BY <3>4, <3>5, <3>6, <3>7
  <2>4. \A n \in Turns : Chances(n)' <= Chances(n) /\ Chances(n)' \in Nat
    <3> SUFFICES ASSUME NEW n \in Turns PROVE Chances(n)' <= Chances(n) /\ Chances(n)' \in Nat
      OBVIOUS
    <3>1. /\ Count(outbound["client"], Prompt(n)) \in Nat
          /\ Count(incoming["server"], Prompt(n)) \in Nat
          /\ Replies(n) \in Nat
      BY Numbers
    <3>2. One(Unasked(n)') = One(Unasked(n)) /\ One(Unasked(n)) \in Nat
      BY <1>1 DEF Unasked, One
    <3>3. /\ One(session'.turn = n) <= One(session.turn = n)
          /\ One(session.turn = n) \in Nat
          /\ One(session'.turn = n) \in Nat
      BY <1>5 DEF One
    <3>4. Replies(n)' <= Replies(n) /\ Replies(n)' \in Nat
      BY <2>3
    <3> HIDE DEF Replies, Unasked, One
    <3> QED BY <1>1, <1>8, <3>1, <3>2, <3>3, <3>4 DEF Chances
  <2>5. Wire'
    <3>1. Single'
      <4> HIDE DEF Chances
      <4> QED BY <2>4, SingleStays DEF RpcSafe, Wire
    <3>2. OwnTurn' /\ Behind'
      BY <1>1, <1>4, <1>8 DEF OwnTurn, Behind, RpcSafe, Wire
    <3> QED BY <3>1, <3>2 DEF Wire
  <2>6. Ends'
    <3>1. (\A n \in Turns : Goes(n)) /\ Flagged' /\ (flag["client"] => flag'["client"])
      BY <1>1 DEF Goes, Flagged, RpcSafe, Ends
    <3>2. \A n \in Turns : Coming(n) \in Nat /\ emitted[n] \in Nat /\ Replies(n) \in Nat
      BY Numbers
    <3>3. \A n \in Turns :
            /\ emitted'[n] # emitted[n] => session.turn = n
            /\ Coming(n)' + emitted[n] <= Coming(n) + emitted'[n]
            /\ client.pc # "gone" /\ (session'.pc # "closed" \/ Replies(n)' > 0) =>
                 /\ session.pc # "closed" \/ Replies(n) > 0
                 /\ Coming(n)' + emitted[n] = Coming(n) + emitted'[n]
      <4> HIDE DEF Coming, Replies
      <4> QED BY <1>1, <2>1, <2>3, <3>2
    <3> QED BY <1>1, <1>4, <2>2, <2>5, <3>1, <3>3, EndsStay
  <2> QED BY <2>2, <2>5, <2>6 DEF RpcSafe
<1> QED BY <1>1, <1>7, <1>8

(* The agent's stream yields an event, or ends and the session has the     *)
(* response to send.                                                       *)
LEMMA AgentKeeps ==
  ASSUME RpcType, RpcSafe, StreamEvent \/ AgentStreamEnds
  PROVE  RpcType' /\ RpcSafe'
<1> DEFINE t == session.turn
<1>1. /\ session.pc = "turn"
      /\ UNCHANGED <<outbound, incoming, call, client, heard, returned, reader, writer, flag, pending>>
  BY DEF StreamEvent, AgentStreamEnds, PeerUnchanged, ServerUnchanged
<1>2. /\ session.msg \in ToClient /\ t \in 0 .. MaxTurns /\ t > 0 /\ t \in Turns
      /\ 0 \in 0 .. MaxTurns
      /\ 0 \notin Turns
  BY <1>1, Fields DEF RpcType, RpcSafe, Ends, Places, Prompted
<1>3. session.aborted \in BOOLEAN
  BY Zenon DEF RpcType, EndType, SessionStates
<1>4. Event(t) \in ToClient /\ Reply(t) \in ToClient
  BY <1>2, MessagesFit
<1>5. \A n \in Turns :
        /\ Count(outbound["server"], Event(n)) \in Nat
        /\ Count(incoming["client"], Event(n)) \in Nat
        /\ Count(outbound["server"], Reply(n)) \in Nat
        /\ Count(outbound["client"], Prompt(n)) \in Nat
        /\ Count(incoming["server"], Prompt(n)) \in Nat
        /\ Coming(n) \in Nat /\ Replies(n) \in Nat /\ Chances(n) \in Nat
        /\ emitted[n] \in Nat
  BY Numbers
<1>6. \A n \in Turns : One(Sending(Event(n))) = 0 /\ One(Sending(Reply(n))) = 0
  BY <1>1 DEF Sending, One
<1>7. \A n \in Turns : /\ One(call'[PromptCall(n)] = "ok") = One(call[PromptCall(n)] = "ok")
                       /\ One(call[PromptCall(n)] = "ok") \in Nat
                       /\ One(Unasked(n)') = One(Unasked(n)) /\ One(Unasked(n)) \in Nat
                       /\ One(session.turn = n) \in Nat
  BY <1>1 DEF One, Unasked
<1>8. (\A n \in Turns : Goes(n)) /\ Flagged' /\ (flag["client"] => flag'["client"]) /\ Behind'
  BY <1>1 DEF Goes, Flagged, RpcSafe, Ends, Behind, Wire
<1>9. CASE StreamEvent
  <2>1. /\ SessionIs("send", Event(t), "turn", t, session.aborted)
        /\ emitted' = [emitted EXCEPT ![t] = @ + 1]
    BY <1>9 DEF StreamEvent, SessionSends, Event
  <2>2. /\ session' \in SessionStates /\ session'.pc = "send" /\ session'.turn = t
        /\ \A x : Sending(x)' <=> x = Event(t)
    BY <1>2, <1>3, <1>4, <2>1, SessionForms
  <2>3. emitted' \in [Turns -> Nat] /\ \A n \in Turns : emitted'[n] = emitted[n] + One(n = t)
    <3>1. emitted \in [Turns -> Nat]
      BY DEF RpcType, EndType
    <3>2. emitted' \in [Turns -> Nat]
      BY <1>2, <2>1, <3>1
    <3>3. \A n \in Turns : emitted'[n] = IF n = t THEN emitted[n] + 1 ELSE emitted[n] + 0
      BY <1>2, <2>1, <3>1
    <3> HIDE DEF t
    <3> QED BY <3>2, <3>3 DEF One
  <2>4. \A n \in Turns : One(Sending(Event(n))') = One(n = t) /\ One(Sending(Reply(n))') = 0
                         /\ One(n = t) \in Nat
    BY <1>2, <2>2, Apart DEF One
  <2>5. \A n \in Turns : Coming(n)' = Coming(n) + One(n = t) /\ Replies(n)' = Replies(n)
    <3> HIDE DEF One, Sending, t
    <3> QED BY <1>1, <1>5, <1>6, <1>7, <2>4 DEF Coming, Replies
  <2>6. RpcType'
    BY <1>1, <2>2, <2>3 DEF RpcType, QueueType, EndType, TaskType
  <2>7. \A n \in Turns : Chances(n)' <= Chances(n) /\ Chances(n)' \in Nat
    <3> SUFFICES ASSUME NEW n \in Turns PROVE Chances(n)' <= Chances(n) /\ Chances(n)' \in Nat
      OBVIOUS
    <3>1. One(session'.turn = n) = One(session.turn = n)
      BY <2>2
    <3> HIDE DEF Replies, Unasked, One, t
    <3> QED BY <1>1, <1>5, <1>7, <2>5, <3>1 DEF Chances
  <2>8. Wire'
    <3>1. Single'
      <4> HIDE DEF Chances
      <4> QED BY <2>7, SingleStays DEF RpcSafe, Wire
    <3>2. OwnTurn'
      BY <1>2, <2>2, Apart DEF OwnTurn
    <3> QED BY <1>8, <3>1, <3>2 DEF Wire
  <2>9. \A n \in Turns :
          /\ emitted'[n] # emitted[n] => session.turn = n
          /\ Coming(n)' + emitted[n] <= Coming(n) + emitted'[n]
          /\ client.pc # "gone" /\ (session'.pc # "closed" \/ Replies(n)' > 0) =>
               /\ session.pc # "closed" \/ Replies(n) > 0
               /\ Coming(n)' + emitted[n] = Coming(n) + emitted'[n]
    <3> SUFFICES ASSUME NEW n \in Turns
                 PROVE  /\ emitted'[n] # emitted[n] => session.turn = n
                        /\ Coming(n)' + emitted[n] = Coming(n) + emitted'[n]
                        /\ Coming(n)' + emitted[n] <= Coming(n) + emitted'[n]
      BY <1>1
    <3>1. One(n = t) \in Nat /\ (One(n = t) # 0 => n = t)
      BY DEF One
    <3> HIDE DEF Coming, One
    <3> QED BY <1>5, <2>3, <2>5, <3>1
  <2>10. Prompted'
    BY <1>2, <2>2 DEF Prompted
  <2>11. Ends'
    BY <1>1, <1>8, <2>6, <2>8, <2>9, <2>10, EndsStay
  <2> QED BY <2>6, <2>8, <2>11 DEF RpcSafe
<1>10. CASE AgentStreamEnds
  <2>1. /\ SessionIs("send", Reply(t), "idle", 0, session.aborted) /\ emitted' = emitted
    BY <1>10 DEF AgentStreamEnds, Reply
  <2>2. /\ session' \in SessionStates /\ session'.pc = "send"
        /\ session'.next = "idle" /\ session'.turn = 0
        /\ \A x : Sending(x)' <=> x = Reply(t)
    BY <1>2, <1>3, <1>4, <2>1, SessionForms
  <2>3. \A n \in Turns : One(Sending(Event(n))') = 0 /\ One(Sending(Reply(n))') = One(session.turn = n)
    BY <1>2, <2>2, Apart DEF One
  <2>4. \A n \in Turns : Coming(n)' = Coming(n) /\ Replies(n)' = Replies(n) + One(session.turn = n)
    <3> HIDE DEF One, Sending
    <3> QED BY <1>1, <1>5, <1>6, <1>7, <2>3 DEF Coming, Replies
  <2>5. RpcType'
    BY <1>1, <2>1, <2>2 DEF RpcType, QueueType, EndType, TaskType
  <2>6. \A n \in Turns : Chances(n)' <= Chances(n) /\ Chances(n)' \in Nat
    <3> SUFFICES ASSUME NEW n \in Turns PROVE Chances(n)' <= Chances(n) /\ Chances(n)' \in Nat
      OBVIOUS
    <3>1. One(session'.turn = n) = 0
      BY <1>2, <2>2 DEF One
    <3> HIDE DEF Replies, Unasked, One
    <3> QED BY <1>1, <1>5, <1>7, <2>4, <3>1 DEF Chances
  <2>7. Wire'
    <3>1. Single'
      <4> HIDE DEF Chances
      <4> QED BY <2>6, SingleStays DEF RpcSafe, Wire
    <3>2. OwnTurn'
      BY <1>2, <2>2, Apart DEF OwnTurn
    <3> QED BY <1>8, <3>1, <3>2 DEF Wire
  <2>8. \A n \in Turns :
          /\ emitted'[n] # emitted[n] => session.turn = n
          /\ Coming(n)' + emitted[n] <= Coming(n) + emitted'[n]
          /\ client.pc # "gone" /\ (session'.pc # "closed" \/ Replies(n)' > 0) =>
               /\ session.pc # "closed" \/ Replies(n) > 0
               /\ Coming(n)' + emitted[n] = Coming(n) + emitted'[n]
    <3> HIDE DEF Coming, Replies
    <3> QED BY <1>1, <1>5, <2>1, <2>4
  <2>9. Prompted'
    BY <2>2 DEF Prompted
  <2>10. Ends'
    BY <1>1, <1>8, <2>1, <2>5, <2>7, <2>8, <2>9, EndsStay
  <2> QED BY <2>5, <2>7, <2>10 DEF RpcSafe
<1> QED BY <1>9, <1>10

(* The connection breaks.                                                  *)
LEMMA CutKeeps ==
  ASSUME RpcType, RpcSafe, Cut
  PROVE  RpcType' /\ RpcSafe'
<1>1. UNCHANGED <<outbound, incoming, reader, writer, flag, pending, call, session, client, emitted, heard, returned>>
  BY DEF Cut, others
<1>2. EndType' /\ TaskType' /\ Flagged' /\ (flag["client"] => flag'["client"])
  BY <1>1 DEF RpcType, EndType, TaskType, Flagged, RpcSafe, Ends
<1>3. \A n \in Turns : Quiet(n)
  BY <1>1 DEF Quiet
<1> QED BY <1>1, <1>2, <1>3, QuietKeeps

(* All steps of the server.                                                *)
LEMMA ServerKeeps ==
  ASSUME RpcType, RpcSafe, SessionSteps \/ AgentSteps
  PROVE  RpcType' /\ RpcSafe'
BY SessionSendKeeps, IdleKeeps, TurnKeeps, AgentKeeps, AsksKeep DEF
   SessionSteps, AgentSteps

(* All steps of the two peers.                                             *)
LEMMA PeersKeep ==
  ASSUME RpcType, RpcSafe, PeerNext
  PROVE  RpcType' /\ RpcSafe'
<1>1. CASE \E s \in Sides : WriteFails(s) \/ WriterDone(s) \/ Drain(s) \/ ReaderEnds(s)
  BY <1>1, TasksKeep DEF PeerNext
<1>2. CASE \E s \in Sides : dispatch_line(s)
  <2>1. dispatch_line("client") \/ dispatch_line("server")
    BY <1>2 DEF Sides
  <2> QED BY <2>1, ServerLineKeeps, ClientLineKeeps DEF PeerNext
<1>3. CASE \E r \in DOMAIN call : CallSteps(r) \/ TimeOut(r)
  <2>1. PICK r \in Calls : Register(r) \/ SendCall(r) \/ TimeOut(r)
    BY <1>3 DEF CallSteps, RpcType, EndType
  <2>2. CASE Register(r) \/ TimeOut(r)
    BY <2>2, CallsKeep DEF PeerNext
  <2>3. CASE SendCall(r)
    <3>1. /\ call[r] = "registered"
          /\ Sent(r) \/ Unsent(r)
          /\ UNCHANGED <<link, incoming, reader, writer, flag>> /\ UNCHANGED others
      BY <2>3 DEF SendCall, PeerNext
    <3> QED BY <3>1, CallsKeep, SentKeeps
  <2> QED BY <2>1, <2>2, <2>3
<1> QED BY <1>1, <1>2, <1>3 DEF PeerNext, PeerSteps

(* The client. Its prompts aside, nothing it says counts.                  *)
LEMMA ClientWire ==
  ASSUME RpcType, RpcSafe, session' = session,
         outbound'["server"] = outbound["server"], incoming'["server"] = incoming["server"],
         \A n \in Turns : Count(outbound'["client"], Prompt(n)) = Count(outbound["client"], Prompt(n)),
         \A n \in Turns : (call'[PromptCall(n)] = "ok" => call[PromptCall(n)] = "ok")
                          /\ (Unasked(n)' => Unasked(n))
  PROVE  Wire' /\ \A n \in Turns : Replies(n)' > 0 => Replies(n) > 0
<1>1. \A n \in Turns :
        /\ Count(outbound["client"], Prompt(n)) \in Nat
        /\ Count(incoming["server"], Prompt(n)) \in Nat
        /\ Count(outbound["server"], Reply(n)) \in Nat
  BY Numbers
<1>2. \A n \in Turns :
        /\ One(call'[PromptCall(n)] = "ok") <= One(call[PromptCall(n)] = "ok")
        /\ One(call'[PromptCall(n)] = "ok") \in Nat
        /\ One(call[PromptCall(n)] = "ok") \in Nat
        /\ One(Unasked(n)') <= One(Unasked(n)) /\ One(Unasked(n)') \in Nat
        /\ One(Unasked(n)) \in Nat
        /\ One(session'.turn = n) = One(session.turn = n)
        /\ One(session.turn = n) \in Nat
        /\ One(Sending(Reply(n))') = One(Sending(Reply(n)))
        /\ One(Sending(Reply(n))) \in Nat
  BY DEF One, Sending
<1>3. \A n \in Turns : Replies(n)' <= Replies(n) /\ Replies(n)' \in Nat /\ Replies(n) \in Nat
  <2> HIDE DEF One, Sending
  <2> QED BY <1>1, <1>2 DEF Replies
<1>4. \A n \in Turns : Chances(n)' <= Chances(n) /\ Chances(n)' \in Nat
  <2> HIDE DEF One, Replies, Unasked
  <2> QED BY <1>1, <1>2, <1>3 DEF Chances
<1>5. Single'
  <2> HIDE DEF Chances
  <2> QED BY <1>4, SingleStays DEF RpcSafe, Wire
<1>6. OwnTurn' /\ Behind'
  BY DEF OwnTurn, Behind, Sending, RpcSafe, Wire
<1>7. \A n \in Turns : Replies(n)' > 0 => Replies(n) > 0
  <2> HIDE DEF Replies
  <2> QED BY <1>3
<1> QED BY <1>5, <1>6, <1>7 DEF Wire

(* The client goes to another place in the same turn.                      *)
LEMMA ClientMoves ==
  ASSUME RpcType, RpcSafe, UNCHANGED <<session, emitted, heard, returned>>, client'.turn = client.turn,
         \A n \in Turns : Coming(n)' = Coming(n) /\ (Replies(n)' > 0 => Replies(n) > 0),
         \A n \in Turns : call[PromptCall(n)] = "failed" => call'[PromptCall(n)] = "failed",
         \A n \in Turns : n > client.turn => call'[PromptCall(n)] = call[PromptCall(n)],
         \A n \in returned : call'[PromptCall(n)] = "ok",
         client'.pc # "gone" => client.pc # "gone", client.turn \in returned => Over',
         Ready', Draining', Flagged', Places'
  PROVE  Ends'
<1>1. Turns = 1 .. MaxTurns /\ MaxTurns \in Nat \ {0} /\ client.turn \in 0 .. MaxTurns
      /\ returned \subseteq Turns
  BY Fields DEF RpcType, EndType
<1>2. \A n \in Turns : (NoneFailed(n)' => NoneFailed(n)) /\ (Fair(n)' => Fair(n))
  BY <1>1, FairStays
<1>3. Unstarted'
  BY DEF Unstarted, RpcSafe, Ends
<1>4. Counted'
  <2> SUFFICES ASSUME client.turn > 0, Fair(client.turn)', client'.pc # "gone",
                      session.pc # "closed" \/ Replies(client.turn)' > 0
               PROVE  heard[client.turn] + Coming(client.turn)' = emitted[client.turn]
    BY DEF Counted
  <2>1. client.turn \in Turns
    BY <1>1
  <2>2. Fair(client.turn) /\ client.pc # "gone" /\ (session.pc # "closed" \/ Replies(client.turn) > 0)
    BY <2>1, <1>2
  <2> QED BY <2>1, <2>2 DEF RpcSafe, Ends, Counted
<1>5. Before'
  <2> SUFFICES ASSUME NEW n \in 1 .. client.turn, Fair(n)' PROVE 1 .. n - 1 \subseteq returned
    BY DEF Before
  <2>1. n \in Turns
    BY <1>1
  <2> QED BY <2>1, <1>2 DEF RpcSafe, Ends, Before
<1>6. AllHeard'
  BY <1>1, <1>2 DEF AllHeard, RpcSafe, Ends
<1> QED BY <1>3, <1>4, <1>5, <1>6 DEF Ends

(* A client step gives the client the state it names.                      *)
LEMMA ClientForms ==
  ASSUME NEW at \in {"handshake", "send", "ready", "turn", "drain", "gone"}, NEW m \in Said,
         NEW next \in {"handshake", "turn", "drain", "gone"}, NEW turn \in 0 .. MaxTurns,
         ClientIs(at, m, next, turn)
  PROVE  /\ client' \in ClientStates
         /\ client'.pc = at /\ client'.msg = m /\ client'.next = next
         /\ client'.turn = turn
BY DEF ClientStates, ClientIs

(* The client sends a message that is not a call, or finds the channel     *)
(* closed.                                                                 *)
LEMMA ClientSendKeeps ==
  ASSUME RpcType, RpcSafe, ClientSend
  PROVE  RpcType' /\ RpcSafe'
<1> DEFINE m == client.msg
<1>1. /\ client.pc = "send"
      /\ UNCHANGED <<incoming, call, emitted, session, heard, returned, reader, writer, flag, pending>>
      /\ \/ outbound' = [outbound EXCEPT !["client"] = Append(outbound["client"], m)] /\ ClientAt(client.next)
         \/ /\ writer["client"] = "ended" /\ UNCHANGED outbound
            /\ ClientAt(IF client.next \in {"handshake", "gone"} THEN "gone" ELSE "ready")
  BY DEF ClientSend, PeerUnchanged, ClientUnchanged, Enqueue, ChannelClosed
<1>2. /\ m \in Said /\ m \in ToServer
      /\ client.next \in {"handshake", "turn", "drain", "gone"}
      /\ client.turn \in 0 .. MaxTurns
  BY Fields DEF RpcType, ToServer
<1>3. /\ client' \in ClientStates /\ client'.turn = client.turn
      /\ client'.next = client.next
      /\ \/ client'.pc = client.next
         \/ client'.pc = "gone"
         \/ client'.pc = "ready" /\ client.next \in {"turn", "drain"} /\ writer["client"] = "ended"
  <2>1. CASE ClientAt(client.next)
    BY <2>1, <1>2, ClientForms DEF ClientAt
  <2>2. CASE client.next \in {"handshake", "gone"} /\ ClientAt("gone")
    BY <2>2, <1>2, ClientForms DEF ClientAt
  <2>3. CASE /\ writer["client"] = "ended" /\ client.next \in {"turn", "drain"}
             /\ ClientAt("ready")
    BY <2>3, <1>2, ClientForms DEF ClientAt
  <2> QED BY <1>1, <1>2, <2>1, <2>2, <2>3
<1>4. /\ outbound'["server"] = outbound["server"]
      /\ outbound'["client"] \in Seq(ToServer)
      /\ outbound' \in [Sides -> Seq(ToServer) \cup Seq(ToClient)]
      /\ \A n \in Turns : Count(outbound'["client"], Prompt(n)) = Count(outbound["client"], Prompt(n))
  <2>1. CASE outbound' = outbound
    BY <2>1 DEF RpcType, QueueType
  <2>2. CASE outbound' = [outbound EXCEPT !["client"] = Append(outbound["client"], m)]
    <3>1. /\ outbound'["client"] = Append(outbound["client"], m)
          /\ outbound'["server"] = outbound["server"]
      BY <2>2 DEF RpcType, QueueType, Sides
    <3>2. /\ outbound'["client"] \in Seq(ToServer)
          /\ \A x : Count(outbound'["client"], x) = Count(outbound["client"], x) + One(m = x)
      BY <1>2, <3>1, CountAppend DEF RpcType, QueueType
    <3>3. outbound' \in [Sides -> Seq(ToServer) \cup Seq(ToClient)]
      BY <2>2, <3>1, <3>2 DEF RpcType, QueueType
    <3>4. \A n \in Turns : m # Prompt(n)
      BY <1>2, Apart DEF Said
    <3>5. \A n \in Turns : Count(outbound["client"], Prompt(n)) \in Nat
      BY Numbers
    <3> QED BY <3>1, <3>2, <3>3, <3>4, <3>5 DEF One
  <2> QED BY <1>1, <2>1, <2>2
<1>5. RpcType'
  BY <1>1, <1>3, <1>4 DEF RpcType, QueueType, EndType, TaskType
<1>6. Wire' /\ \A n \in Turns : Replies(n)' > 0 => Replies(n) > 0
  BY <1>1, <1>4, ClientWire DEF Unasked
<1>7. \A n \in Turns : Coming(n)' = Coming(n)
  BY <1>1, <1>4 DEF Coming, Sending
<1>8. /\ returned \subseteq Turns /\ 0 \notin Turns
      /\ \A n \in returned : call[PromptCall(n)] = "ok" /\ (n = client.turn => Over)
  BY Fields DEF RpcType, EndType, RpcSafe, Ends, AllHeard
<1>9. client.turn \in returned => Over'
  <2>1. client.turn \in returned => client.next = "gone"
    BY <1>1, <1>8 DEF Over
  <2> QED BY <1>2, <1>3, <2>1 DEF Over
<1>10. Flagged'
  BY <1>1, <1>3 DEF Flagged, RpcSafe, Ends
<1>11. Ready'
  BY <1>1, <1>2, <1>3 DEF Ready, Flagged, RpcSafe, Ends
<1>12. Draining' /\ Places'
  BY <1>1, <1>2, <1>3 DEF Draining, Places, InTurn, Prompted, RpcSafe, Ends
<1>13. Ends'
  <2> HIDE DEF Coming, Replies
  <2> QED BY <1>1, <1>3, <1>6, <1>7, <1>8, <1>9, <1>10, <1>11, <1>12, ClientMoves
<1> QED BY <1>5, <1>6, <1>13 DEF RpcSafe

(* cancel() is sent beside the turn.                                       *)
LEMMA CancelKeeps ==
  ASSUME RpcType, RpcSafe, CancelTurn
  PROVE  RpcType' /\ RpcSafe'
<1> DEFINE m == Notification("cancel", 0)
<1>1. /\ UNCHANGED <<incoming, call, client, emitted, session, heard, returned, reader, writer, flag, pending>>
      /\ outbound' = [outbound EXCEPT !["client"] = Append(outbound["client"], m)]
  BY DEF CancelTurn, PeerUnchanged, ClientUnchanged, Enqueue
<1>2. m \in ToServer /\ \A n \in Turns : m # Prompt(n)
  BY MessagesFit, Apart DEF ToServer
<1>3. /\ outbound'["client"] = Append(outbound["client"], m)
      /\ outbound'["server"] = outbound["server"]
  BY <1>1 DEF RpcType, QueueType, Sides
<1>4. /\ outbound'["client"] \in Seq(ToServer)
      /\ \A x : Count(outbound'["client"], x) = Count(outbound["client"], x) + One(m = x)
  BY <1>2, <1>3, CountAppend DEF RpcType, QueueType
<1>5. \A n \in Turns : Count(outbound'["client"], Prompt(n)) = Count(outbound["client"], Prompt(n))
  BY <1>2, <1>4, Numbers DEF One
<1>6. RpcType'
  <2>1. outbound' \in [Sides -> Seq(ToServer) \cup Seq(ToClient)]
    BY <1>1, <1>3, <1>4 DEF RpcType, QueueType
  <2> QED BY <1>1, <1>3, <1>4, <2>1 DEF RpcType, QueueType, EndType, TaskType
<1>7. Wire' /\ \A n \in Turns : Replies(n)' > 0 => Replies(n) > 0
  BY <1>1, <1>3, <1>5, ClientWire DEF Unasked
<1>8. \A n \in Turns : Coming(n)' = Coming(n)
  BY <1>1, <1>3 DEF Coming, Sending
<1>9. \A n \in Turns : Goes(n)
  BY <1>1 DEF Goes
<1>10. Flagged' /\ Prompted'
  BY <1>1 DEF Flagged, Places, Prompted, RpcSafe, Ends
<1>11. Ends'
  <2> HIDE DEF Coming, Replies
  <2> QED BY <1>1, <1>6, <1>7, <1>8, <1>9, <1>10, EndsSame
<1> QED BY <1>6, <1>7, <1>11 DEF RpcSafe

(* The client shuts down, or is dropped with its calls.                    *)
LEMMA LeaveKeeps ==
  ASSUME RpcType, RpcSafe, Leave
  PROVE  RpcType' /\ RpcSafe'
<1>1. UNCHANGED <<outbound, incoming, emitted, session, heard, returned, reader, writer, flag, pending>>
  BY DEF Leave, PeerUnchanged, ClientUnchanged
<1>2. /\ client.msg \in Said /\ client.next \in {"handshake", "turn", "drain", "gone"}
      /\ client.turn \in 0 .. MaxTurns /\ Notification("shutdown", 0) \in Said
  BY Fields, MessagesFit DEF RpcType
<1>3. /\ client' \in ClientStates /\ client'.turn = client.turn
      /\ client'.pc = "gone" \/ (client'.pc = "send" /\ client'.next = "gone")
      /\ client.pc # "gone"
  <2>1. CASE (client.pc = "ready" \/ InTurn) /\ ClientAt("gone")
    BY <2>1, <1>2, ClientForms DEF ClientAt, InTurn
  <2>2. CASE /\ client.pc = "ready"
             /\ ClientIs("send", Notification("shutdown", 0), "gone", client.turn)
    BY <2>2, <1>2, ClientForms
  <2> QED BY <2>1, <2>2 DEF Leave
<1>4. /\ call' \in [Calls -> Marks]
      /\ \A r \in Calls : call'[r] = call[r] \/ (call[r] \in {"checked", "registered", "waiting"} /\ call'[r] = "dropped")
  <2>1. CASE call' = call
    BY <2>1 DEF RpcType, EndType
  <2>2. CASE call' = [r \in DOMAIN call |-> IF r \in ClientCalls /\ Active(r) THEN "dropped" ELSE call[r]]
    <3>1. DOMAIN call = Calls
      BY DEF RpcType, EndType
    <3>2. \A r \in Calls : call[r] \in Marks
      BY DEF RpcType, EndType
    <3> QED BY <2>2, <3>1, <3>2 DEF Active, Marks
  <2> QED BY <2>1, <2>2 DEF Leave
<1>5. \A n \in Turns : \/ call'[PromptCall(n)] = call[PromptCall(n)]
                       \/ /\ call[PromptCall(n)] \in {"checked", "registered", "waiting"}
                          /\ call'[PromptCall(n)] = "dropped"
  BY <1>4, CallNames DEF Calls
<1>6. RpcType'
  BY <1>1, <1>3, <1>4 DEF RpcType, QueueType, EndType, TaskType
<1>7. Wire' /\ \A n \in Turns : Replies(n)' > 0 => Replies(n) > 0
  <2>1. \A n \in Turns : (call'[PromptCall(n)] = "ok" => call[PromptCall(n)] = "ok") /\ (Unasked(n)' => Unasked(n))
    BY <1>5 DEF Unasked
  <2> HIDE DEF Replies
  <2> QED BY <1>1, <2>1, ClientWire
<1>8. \A n \in Turns : Coming(n)' = Coming(n)
  BY <1>1 DEF Coming, Sending
<1>9. \A n \in returned : call'[PromptCall(n)] = "ok"
  BY <1>5 DEF RpcType, EndType, RpcSafe, Ends, AllHeard
<1>10. Over' /\ Ready' /\ Draining' /\ Flagged' /\ Places'
  <2>1. Over' /\ Ready' /\ Draining'
    BY <1>3 DEF Over, Ready, Draining
  <2>2. Flagged'
    BY <1>1, <1>3 DEF Flagged, RpcSafe, Ends
  <2>3. Places'
    BY <1>1, <1>3 DEF Places, InTurn, Prompted, RpcSafe, Ends
  <2> QED BY <2>1, <2>2, <2>3
<1>11. Ends'
  <2>1. \A n \in Turns : /\ call[PromptCall(n)] = "failed" => call'[PromptCall(n)] = "failed"
                         /\ n > client.turn => call'[PromptCall(n)] = call[PromptCall(n)]
    BY <1>5 DEF Unstarted, RpcSafe, Ends
  <2> HIDE DEF Coming, Replies
  <2> QED BY <1>1, <1>3, <1>7, <1>8, <1>9, <1>10, <2>1, ClientMoves
<1> QED BY <1>6, <1>7, <1>11 DEF RpcSafe

(* run_turn calls: all turns before were returned unless one of them was   *)
(* given up, or the call fails because the connection is marked.           *)
LEMMA StartKeeps ==
  ASSUME RpcType, RpcSafe, StartTurn
  PROVE  RpcType' /\ RpcSafe'
<1>0. PICK t \in Turns : t = client.turn + 1
  BY Fields DEF RpcType, StartTurn
<1>1. /\ UNCHANGED <<outbound, incoming, emitted, session, heard, returned, reader, writer, flag, pending>>
      /\ client.pc = "ready" /\ ClientIs("turn", client.msg, client.next, t)
      /\ call' = [call EXCEPT ![PromptCall(t)] = IF flag["client"] THEN "failed" ELSE "checked"]
  <2>1. UNCHANGED <<outbound, incoming, emitted, session, heard, returned, reader, writer, flag, pending>>
    BY DEF StartTurn, PeerUnchanged, ClientUnchanged
  <2>2. /\ client.pc = "ready" /\ ClientIs("turn", client.msg, client.next, t)
        /\ BeginCall(PromptCall(t))
    BY <1>0 DEF StartTurn
  <2>4. Owner(PromptCall(t)) = "client"
    BY <1>0, CallNames DEF Owner
  <2> QED BY <2>1, <2>2, <2>4 DEF BeginCall, CallGoes
<1>2. /\ client.msg \in Said /\ client.next \in {"handshake", "turn", "drain", "gone"}
      /\ client.turn \in 0 .. MaxTurns /\ MaxTurns \in Nat \ {0}
      /\ Turns = 1 .. MaxTurns
  BY Fields DEF RpcType
<1>3. t \in 0 .. MaxTurns /\ t > client.turn /\ t > 0
  BY <1>0, <1>2
<1>4. client' \in ClientStates /\ client'.pc = "turn" /\ client'.turn = t
  BY <1>1, <1>2, <1>3, ClientForms
<1>5. /\ call[PromptCall(t)] = "none" /\ emitted[t] = 0 /\ heard[t] = 0
      /\ Coming(t) = 0 /\ t \notin returned
  BY <1>3 DEF RpcSafe, Ends, Unstarted
<1>6. /\ call' \in [Calls -> Marks]
      /\ \A n \in Turns : n # t => call'[PromptCall(n)] = call[PromptCall(n)]
      /\ call'[PromptCall(t)] = IF flag["client"] THEN "failed" ELSE "checked"
  <2>1. PromptCall(t) \in Calls /\ \A n \in Turns : n # t => PromptCall(n) # PromptCall(t)
    BY <1>3, CallNames DEF Calls
  <2>2. call \in [Calls -> Marks] /\ {"failed", "checked"} \subseteq Marks
    BY DEF RpcType, EndType, Marks
  <2>3. \A n \in Turns : PromptCall(n) \in Calls
    BY CallNames DEF Calls
  <2> QED BY <1>1, <2>1, <2>2, <2>3
<1>7. \A n \in Turns : (call'[PromptCall(n)] = "ok" => call[PromptCall(n)] = "ok") /\ (Unasked(n)' => Unasked(n))
  BY <1>5, <1>6 DEF Unasked
<1>8. RpcType'
  BY <1>1, <1>4, <1>6 DEF RpcType, QueueType, EndType, TaskType
<1>9. Wire'
  BY <1>1, <1>7, ClientWire
<1>10. \A n \in Turns : Coming(n)' = Coming(n)
  BY <1>1 DEF Coming, Sending
<1>11. \A n \in 1 .. t : \A k \in 1 .. n - 1 : k \in Turns /\ k # t /\ k \in 1 .. client.turn
  BY <1>0, <1>2, <1>3
<1>12. \A n \in 1 .. t : NoneFailed(n)' <=> NoneFailed(n)
  BY <1>6, <1>11 DEF NoneFailed
<1>13. Unstarted'
  <2>1. \A n \in Turns : n > t => n > client.turn /\ n # t
    BY <1>0, <1>2
  <2> QED BY <1>1, <1>4, <1>6, <1>10, <2>1 DEF Unstarted, RpcSafe, Ends
<1>14. Counted'
  <2>1. heard'[t] = 0 /\ emitted'[t] = 0 /\ Coming(t)' = 0
    BY <1>1, <1>5, <1>10
  <2> QED BY <1>4, <2>1 DEF Counted
<1>15. Before'
  <2> SUFFICES ASSUME NEW n \in 1 .. t, Fair(n)' PROVE 1 .. n - 1 \subseteq returned
    BY <1>1, <1>4 DEF Before
  <2>1. NoneFailed(n)
    BY <1>12 DEF Fair
  <2>2. CASE n \in 1 .. client.turn
    <3>1. Fair(n)
      BY <1>2, <1>3, <1>6, <2>1, <2>2 DEF Fair
    <3> QED BY <2>2, <3>1 DEF Before, RpcSafe, Ends
  <2>3. CASE n = t
    <3>1. \A k \in 1 .. client.turn : call[PromptCall(k)] # "failed"
      BY <1>0, <1>2, <2>1, <2>3 DEF NoneFailed
    <3>2. ~flag["client"]
      BY <1>6, <2>3 DEF Fair
    <3>3. client.turn > 0 => client.turn \in returned
      BY <1>1, <1>2, <3>1, <3>2 DEF Ready, RpcSafe, Ends
    <3>4. ASSUME client.turn > 0 PROVE 1 .. client.turn - 1 \subseteq returned
      <4>1. Fair(client.turn) /\ client.turn \in 1 .. client.turn
        BY <1>2, <3>1, <3>4 DEF Fair, NoneFailed
      <4> QED BY <4>1 DEF Before, RpcSafe, Ends
    <3>5. \A k \in 1 .. n - 1 : k = client.turn \/ k \in 1 .. client.turn - 1
      BY <1>0, <1>2, <2>3
    <3>6. \A k \in 1 .. n - 1 : client.turn > 0
      BY <1>0, <1>2, <2>3
    <3> QED BY <3>3, <3>4, <3>5, <3>6
  <2>4. n \in 1 .. client.turn \/ n = t
    BY <1>0, <1>2
  <2> QED BY <2>2, <2>3, <2>4
<1>16. AllHeard'
  <2> SUFFICES ASSUME NEW n \in returned
               PROVE  /\ call'[PromptCall(n)] = "ok" /\ n <= t /\ n # t
                      /\ NoneFailed(n)' => heard[n] = emitted[n] /\ Coming(n)' = 0
    BY <1>1, <1>4 DEF AllHeard
  <2>1. n \in Turns /\ n # t
    BY <1>5 DEF RpcType, EndType
  <2>2. /\ call[PromptCall(n)] = "ok" /\ n <= client.turn
        /\ NoneFailed(n) => heard[n] = emitted[n] /\ Coming(n) = 0
    BY DEF AllHeard, RpcSafe, Ends
  <2>3. n <= t /\ n \in 1 .. t
    BY <1>0, <1>2, <2>1, <2>2
  <2> QED BY <1>6, <1>10, <1>12, <2>1, <2>2, <2>3
<1>17. Ready' /\ Draining' /\ Flagged' /\ Places'
  <2>1. Ready' /\ Draining'
    BY <1>4 DEF Ready, Draining
  <2>2. Flagged'
    BY <1>1, <1>4 DEF Flagged, RpcSafe, Ends
  <2>3. Places'
    BY <1>1, <1>3, <1>4 DEF Places, InTurn, Prompted, RpcSafe, Ends
  <2> QED BY <2>1, <2>2, <2>3
<1> QED BY <1>8, <1>9, <1>13, <1>14, <1>15, <1>16, <1>17 DEF RpcSafe, Ends

(* recv_incoming takes the next message of the channel.                    *)
LEMMA ClientTakes ==
  ASSUME RpcType, Received("client"), Takes("client"), UNCHANGED <<session, outbound>>
  PROVE  /\ Next1("client") \in ToClient /\ incoming'["server"] = incoming["server"]
         /\ incoming'["client"] \in Seq(ToClient)
         /\ incoming' \in [Sides -> Seq(ToServer) \cup Seq(ToClient)]
         /\ \A n \in Turns : /\ Coming(n) = Coming(n)' + One(Next1("client") = Event(n))
                             /\ Coming(n)' \in Nat
<1> DEFINE m == Next1("client")
<1>1. incoming["client"] \in Seq(ToClient) /\ incoming["client"] # << >>
  BY DEF RpcType, QueueType, Received
<1>2. /\ m \in ToClient /\ Tail(incoming["client"]) \in Seq(ToClient)
      /\ \A x : Count(incoming["client"], x) = Count(Tail(incoming["client"]), x) + One(m = x)
  BY <1>1, CountTail DEF Next1
<1>3. /\ incoming'["client"] = Tail(incoming["client"])
      /\ incoming'["server"] = incoming["server"]
      /\ incoming' = [incoming EXCEPT !["client"] = Tail(incoming["client"])]
  BY DEF Takes, RpcType, QueueType, Sides
<1>4. incoming' \in [Sides -> Seq(ToServer) \cup Seq(ToClient)]
  BY <1>2, <1>3 DEF RpcType, QueueType
<1>5. ASSUME NEW n \in Turns PROVE Coming(n) = Coming(n)' + One(m = Event(n)) /\ Coming(n)' \in Nat
  <2>1. /\ Count(outbound["server"], Event(n)) \in Nat
        /\ One(Sending(Event(n))') = One(Sending(Event(n)))
        /\ One(Sending(Event(n))) \in Nat
        /\ One(m = Event(n)) \in Nat
    BY Numbers DEF Sending, One
  <2>2. Count(incoming'["client"], Event(n)) \in Nat
    BY <1>2, <1>3, CountFacts
  <2> HIDE DEF m, One, Sending
  <2> QED BY <1>2, <1>3, <2>1, <2>2 DEF Coming
<1> QED BY <1>2, <1>3, <1>4, <1>5

(* handle_incoming: an event the client takes in a turn that counts is of  *)
(* that turn, as nothing is left of the turns that returned.               *)
LEMMA HandleKeeps ==
  ASSUME RpcType, RpcSafe, client.pc \in {"turn", "drain"}, Received("client"), Takes("client"),
         handle_incoming(Next1("client"), client.pc),
         UNCHANGED <<session, outbound, call, emitted, returned, reader, writer, flag, pending>>
  PROVE  RpcType' /\ RpcSafe'
<1>1. PICK m \in ToClient : m = Next1("client")
  BY ClientTakes
<1>2. /\ incoming'["server"] = incoming["server"]
      /\ incoming'["client"] \in Seq(ToClient)
      /\ incoming' \in [Sides -> Seq(ToServer) \cup Seq(ToClient)]
      /\ \A n \in Turns : Coming(n) = Coming(n)' + One(m = Event(n)) /\ Coming(n)' \in Nat
  BY <1>1, ClientTakes
<1>3. PICK t \in Turns : t = client.turn
  BY Fields DEF RpcType, RpcSafe, Ends, Places, InTurn
<1>4. /\ client.msg \in Said /\ client.next \in {"handshake", "turn", "drain", "gone"}
      /\ MaxTurns \in Nat \ {0} /\ Turns = 1 .. MaxTurns /\ t \in 0 .. MaxTurns
      /\ t \in Nat
  BY <1>3, Fields DEF RpcType
<1>5. \/ m.of[1] = "agent.event" /\ heard' = [heard EXCEPT ![t] = @ + 1] /\ ClientAt(client.pc)
      \/ m.type = "request" /\ heard' = heard /\ ClientIs("send", Response(m.of, TRUE), client.pc, t)
      \/ m.of[1] # "agent.event" /\ heard' = heard /\ ClientAt(client.pc)
  BY <1>1, <1>3 DEF handle_incoming
<1>6. /\ client' \in ClientStates /\ client'.turn = t
      /\ client'.pc = client.pc \/ (client'.pc = "send" /\ client'.next = client.pc)
  <2>1. CASE ClientAt(client.pc)
    BY <1>3, <1>4, <2>1, ClientForms DEF ClientAt
  <2>2. CASE m.type = "request" /\ ClientIs("send", Response(m.of, TRUE), client.pc, t)
    <3>1. Response(m.of, TRUE) \in Said
      BY <2>2, ClientReads, MessagesFit
    <3>2. PICK k \in Said : ClientIs("send", k, client.pc, t)
      BY <2>2, <3>1
    <3> QED BY <1>4, <3>2, ClientForms
  <2> QED BY <1>5, <2>1, <2>2
<1>7. /\ heard' \in [Turns -> Nat] /\ \A n \in Turns : n # t => heard'[n] = heard[n]
      /\ \/ heard' = heard /\ \A n \in Turns : m # Event(n)
         \/ heard'[t] = heard[t] + 1 /\ \E n \in Turns : m = Event(n)
  <2>1. heard \in [Turns -> Nat]
    BY DEF RpcType, EndType
  <2>2. CASE m.of[1] = "agent.event" /\ heard' = [heard EXCEPT ![t] = @ + 1]
    BY <2>1, <2>2, ClientReads
  <2>3. CASE m.of[1] # "agent.event" /\ heard' = heard
    BY <2>1, <2>3, ClientReads
  <2>4. CASE m.type = "request" /\ heard' = heard
    <3>1. \A n \in Turns : m # Event(n)
      BY <2>4 DEF Event, Notification
    <3> QED BY <2>1, <2>4, <3>1
  <2> QED BY <1>5, <2>2, <2>3, <2>4
<1>8. RpcType'
  BY <1>2, <1>6, <1>7 DEF RpcType, QueueType, EndType, TaskType
<1>9. Wire' /\ \A n \in Turns : Replies(n)' = Replies(n)
  <2>1. Wire'
    BY <1>2, ClientWire DEF Unasked
  <2>2. \A n \in Turns : Replies(n)' = Replies(n)
    BY DEF Replies, Sending
  <2> QED BY <2>1, <2>2
<1>10. \A n \in Turns : /\ (NoneFailed(n)' <=> NoneFailed(n)) /\ (Fair(n)' <=> Fair(n))
                        /\ Coming(n) \in Nat /\ emitted[n] \in Nat /\ heard[n] \in Nat
                        /\ Coming(n)' <= Coming(n)
  <2>1. \A n \in Turns : Coming(n) \in Nat /\ emitted[n] \in Nat /\ heard[n] \in Nat
    BY Numbers
  <2>2. \A n \in Turns : One(m = Event(n)) \in Nat
    BY DEF One
  <2>3. \A n \in Turns : Coming(n)' <= Coming(n)
    <3> HIDE DEF Coming, One
    <3> QED BY <1>2, <2>1, <2>2
  <2> QED BY <2>1, <2>3 DEF NoneFailed, Fair
<1>11. Unstarted'
  <2> SUFFICES ASSUME NEW n \in Turns, n > t
               PROVE  call[PromptCall(n)] = "none" /\ emitted[n] = 0 /\ heard'[n] = 0 /\ Coming(n)' = 0 /\ n \notin returned
    BY <1>6 DEF Unstarted
  <2>1. /\ call[PromptCall(n)] = "none" /\ emitted[n] = 0 /\ heard[n] = 0
        /\ Coming(n) = 0 /\ n \notin returned
    BY <1>3 DEF Unstarted, RpcSafe, Ends
  <2>2. n # t
    BY <1>4
  <2> HIDE DEF Coming
  <2> QED BY <1>2, <1>7, <1>10, <2>1, <2>2
<1>12. \A n \in returned : n \in Turns /\ n <= t /\ n # t /\ call[PromptCall(n)] = "ok"
                          /\ (NoneFailed(n) => heard[n] = emitted[n] /\ Coming(n) = 0)
  BY <1>3 DEF AllHeard, Over, RpcSafe, Ends, RpcType, EndType
<1>13. ASSUME Fair(t), NEW n \in Turns, m = Event(n) PROVE n = t
  <2>1. One(m = Event(n)) = 1
    BY <1>13 DEF One
  <2>2. Coming(n) > 0
    <3> HIDE DEF Coming
    <3> QED BY <1>2, <2>1
  <2>3. n <= t
    <3>1. ~(n > t)
      BY <1>3, <2>2 DEF Unstarted, RpcSafe, Ends
    <3> QED BY <1>4, <3>1
  <2>4. ASSUME n < t PROVE FALSE
    <3>1. n \in 1 .. t - 1 /\ t \in 1 .. t /\ \A k \in 1 .. n - 1 : k \in 1 .. t - 1
      BY <1>4, <2>4
    <3>2. n \in returned
      BY <1>3, <1>13, <3>1 DEF Before, RpcSafe, Ends
    <3>3. NoneFailed(n)
      BY <1>13, <3>1 DEF Fair, NoneFailed
    <3>4. Coming(n) = 0
      BY <1>12, <3>2, <3>3
    <3> HIDE DEF Coming
    <3> QED BY <2>2, <3>4
  <2> QED BY <1>4, <2>3, <2>4
<1>14. Counted'
  <2> SUFFICES ASSUME Fair(t)', session.pc # "closed" \/ Replies(t)' > 0
               PROVE  heard'[t] + Coming(t)' = emitted[t]
    BY <1>6 DEF Counted
  <2>1. heard[t] + Coming(t) = emitted[t]
    <3>1. Fair(t) /\ t > 0 /\ client.pc # "gone" /\ (session.pc # "closed" \/ Replies(t) > 0)
      BY <1>4, <1>9, <1>10
    <3> QED BY <1>3, <3>1 DEF Counted, RpcSafe, Ends
  <2>2. heard'[t] = heard[t] + One(m = Event(t))
    <3>1. CASE \E n \in Turns : m = Event(n)
      <4>1. m = Event(t)
        BY <1>10, <1>13, <3>1
      <4> QED BY <1>7, <3>1, <4>1 DEF One
    <3>2. CASE \A n \in Turns : m # Event(n)
      BY <1>7, <1>10, <3>2 DEF One
    <3> QED BY <3>1, <3>2
  <2>3. One(m = Event(t)) \in Nat
    BY DEF One
  <2> HIDE DEF Coming, One
  <2> QED BY <1>2, <1>10, <2>1, <2>2, <2>3
<1>15. Before'
  <2>1. \A n \in 1 .. t : n \in Turns
    BY <1>4
  <2> QED BY <1>3, <1>6, <1>10, <2>1 DEF Before, RpcSafe, Ends
<1>16. AllHeard'
  <2> SUFFICES ASSUME NEW n \in returned
               PROVE  /\ call[PromptCall(n)] = "ok" /\ n <= t /\ n # t
                      /\ NoneFailed(n)' => heard'[n] = emitted[n] /\ Coming(n)' = 0
    BY <1>6 DEF AllHeard
  <2>1. n \in Turns /\ n <= t /\ n # t /\ call[PromptCall(n)] = "ok"
    BY <1>12
  <2>2. ASSUME NoneFailed(n)' PROVE heard'[n] = emitted[n] /\ Coming(n)' = 0
    <3>1. heard[n] = emitted[n] /\ Coming(n) = 0
      BY <1>10, <1>12, <2>1, <2>2
    <3>2. Coming(n)' <= Coming(n) /\ Coming(n)' \in Nat
      BY <1>2, <1>10, <2>1
    <3> HIDE DEF Coming
    <3> QED BY <1>7, <2>1, <3>1, <3>2
  <2> QED BY <2>1, <2>2
<1>17. Ready' /\ Draining' /\ Flagged' /\ Places'
  <2>1. Ready' /\ Draining'
    BY <1>3, <1>6 DEF Ready, Draining, RpcSafe, Ends
  <2>2. Flagged'
    BY <1>6 DEF Flagged, RpcSafe, Ends
  <2>3. Places'
    BY <1>4, <1>6 DEF Places, InTurn, Prompted, RpcSafe, Ends
  <2> QED BY <2>1, <2>2, <2>3
<1> QED BY <1>8, <1>9, <1>11, <1>14, <1>15, <1>16, <1>17 DEF RpcSafe, Ends

(* The client's handshake.                                                 *)
LEMMA HandshakeKeeps ==
  ASSUME RpcType, RpcSafe, ClientHandshake
  PROVE  RpcType' /\ RpcSafe'
<1>1. /\ UNCHANGED <<outbound, call, emitted, session, heard, returned, reader, writer, flag, pending>>
      /\ client.pc = "handshake" /\ (ClientAt("ready") \/ ClientAt("gone"))
      /\ incoming' = incoming \/ (Received("client") /\ Takes("client"))
  BY DEF ClientHandshake, PeerUnchanged, ClientUnchanged
<1>2. /\ client.msg \in Said /\ client.next \in {"handshake", "turn", "drain", "gone"}
      /\ client.turn \in 0 .. MaxTurns /\ client.turn = 0 /\ Turns = 1 .. MaxTurns
  BY <1>1, Fields DEF RpcType, RpcSafe, Ends, Places
<1>3. client' \in ClientStates /\ client'.turn = 0 /\ client'.pc \in {"ready", "gone"}
  BY <1>1, <1>2, ClientForms DEF ClientAt
<1>4. /\ incoming'["server"] = incoming["server"]
      /\ incoming'["client"] \in Seq(ToClient)
      /\ incoming' \in [Sides -> Seq(ToServer) \cup Seq(ToClient)]
      /\ \A n \in Turns : Coming(n) = 0 => Coming(n)' = 0
  <2>1. CASE incoming' = incoming
    BY <1>1, <2>1 DEF RpcType, QueueType, Coming, Sending
  <2>2. CASE Received("client") /\ Takes("client")
    <3>1. \A n \in Turns : Coming(n) = Coming(n)' + One(Next1("client") = Event(n)) /\ Coming(n)' \in Nat
                           /\ One(Next1("client") = Event(n)) \in Nat
      BY <1>1, <2>2, ClientTakes DEF One
    <3>2. \A n \in Turns : Coming(n) = 0 => Coming(n)' = 0
      <4> HIDE DEF Coming, One
      <4> QED BY <3>1
    <3> QED BY <1>1, <2>2, <3>2, ClientTakes
  <2> QED BY <1>1, <2>1, <2>2
<1>5. RpcType'
  BY <1>1, <1>3, <1>4 DEF RpcType, QueueType, EndType, TaskType
<1>6. Wire'
  BY <1>1, <1>4, ClientWire DEF Unasked
<1>7. \A n \in Turns : n > client.turn
  BY <1>2
<1>8. returned = {}
  BY <1>7 DEF Unstarted, RpcSafe, Ends, RpcType, EndType
<1>9. Unstarted'
  <2> HIDE DEF Coming
  <2> QED BY <1>1, <1>4, <1>7 DEF Unstarted, RpcSafe, Ends
<1>10. Counted' /\ Before' /\ AllHeard'
  BY <1>1, <1>3, <1>8 DEF Counted, Before, AllHeard
<1>11. Ready' /\ Draining' /\ Flagged' /\ Places'
  <2>1. Ready' /\ Draining'
    BY <1>3 DEF Ready, Draining
  <2>2. Flagged'
    BY <1>1, <1>3 DEF Flagged, RpcSafe, Ends
  <2>3. Places'
    BY <1>1, <1>3 DEF Places, InTurn, Prompted, RpcSafe, Ends
  <2> QED BY <2>1, <2>2, <2>3
<1> QED BY <1>5, <1>6, <1>9, <1>10, <1>11 DEF RpcSafe, Ends

(* run_turn: the prompt is answered or fails, a message comes, or the      *)
(* connection is gone.                                                     *)
LEMMA RunTurnKeeps ==
  ASSUME RpcType, RpcSafe, RunTurn
  PROVE  RpcType' /\ RpcSafe'
<1>1. /\ UNCHANGED <<outbound, returned, reader, writer, flag, pending, session, emitted>>
      /\ client.pc = "turn"
  BY DEF RunTurn, PeerUnchanged, ClientUnchanged
<1>2. CASE /\ Received("client") /\ Takes("client")
           /\ handle_incoming(Next1("client"), "turn") /\ call' = call
  BY <1>1, <1>2, HandleKeeps
<1>3. PICK t \in Turns : t = client.turn
  BY <1>1, Fields DEF RpcType, RpcSafe, Ends, Places, InTurn
<1>4. /\ client.msg \in Said /\ client.next \in {"handshake", "turn", "drain", "gone"}
      /\ t \in 0 .. MaxTurns /\ t > 0
  BY <1>3, Fields DEF RpcType
<1>5. CASE /\ incoming' = incoming /\ heard' = heard
           /\ \/ call[PromptCall(t)] = "ok" /\ ClientAt("drain") /\ call' = call
              \/ call[PromptCall(t)] = "failed" /\ ClientAt("ready") /\ call' = call
              \/ ClientAt("ready") /\ call' = [call EXCEPT ![PromptCall(t)] = "failed"]
  <2>1. /\ client' \in ClientStates /\ client'.turn = t
        /\ client'.pc \in {"drain", "ready"}
        /\ client'.pc = "drain" => call[PromptCall(t)] = "ok" /\ call' = call
        /\ client'.pc = "ready" => \/ call[PromptCall(t)] = "failed" /\ call' = call
                                   \/ call' = [call EXCEPT ![PromptCall(t)] = "failed"]
    <3>1. CASE ClientAt("drain") /\ call[PromptCall(t)] = "ok" /\ call' = call
      BY <1>3, <1>4, <3>1, ClientForms DEF ClientAt
    <3>2. CASE ClientAt("ready") /\ \/ call[PromptCall(t)] = "failed" /\ call' = call
                                    \/ call' = [call EXCEPT ![PromptCall(t)] = "failed"]
      BY <1>3, <1>4, <3>2, ClientForms DEF ClientAt
    <3> QED BY <1>5, <3>1, <3>2
  <2>2. /\ call' \in [Calls -> Marks]
        /\ \A n \in Turns : call'[PromptCall(n)] = call[PromptCall(n)]
                            \/ (n = t /\ call'[PromptCall(n)] = "failed")
        /\ client'.pc = "ready" => call'[PromptCall(t)] = "failed"
    <3>1. call \in [Calls -> Marks] /\ "failed" \in Marks /\ \A n \in Turns : PromptCall(n) \in Calls
      BY CallNames DEF RpcType, EndType, Marks, Calls
    <3>2. \A n \in Turns : PromptCall(n) = PromptCall(t) => n = t
      BY CallNames
    <3> QED BY <2>1, <3>1, <3>2
  <2>3. RpcType'
    BY <1>1, <1>5, <2>1, <2>2 DEF RpcType, QueueType, EndType, TaskType
  <2>4. Wire' /\ \A n \in Turns : Replies(n)' > 0 => Replies(n) > 0
    <3>1. \A n \in Turns : (call'[PromptCall(n)] = "ok" => call[PromptCall(n)] = "ok") /\ (Unasked(n)' => Unasked(n))
      BY <2>2 DEF Unasked
    <3> HIDE DEF Replies
    <3> QED BY <1>1, <1>5, <3>1, ClientWire
  <2>5. \A n \in Turns : Coming(n)' = Coming(n)
    BY <1>1, <1>5 DEF Coming, Sending
  <2>6. t \notin returned
    BY <1>1, <1>3 DEF AllHeard, Over, RpcSafe, Ends
  <2>7. \A n \in returned : call'[PromptCall(n)] = "ok"
    BY <2>2, <2>6 DEF AllHeard, RpcSafe, Ends, RpcType, EndType
  <2>8. Ready' /\ Draining' /\ Flagged' /\ Places'
    <3>1. Ready' /\ Draining'
      BY <2>1, <2>2 DEF Ready, Draining
    <3>2. Flagged'
      BY <1>1, <2>1 DEF Flagged, RpcSafe, Ends
    <3>3. Places'
      BY <1>1, <1>4, <2>1 DEF Places, InTurn, Prompted, RpcSafe, Ends
    <3> QED BY <3>1, <3>2, <3>3
  <2>9. \A n \in Turns : call[PromptCall(n)] = "failed" => call'[PromptCall(n)] = "failed"
    BY <2>2
  <2>10. \A n \in Turns : n > t => call[PromptCall(n)] = "none" /\ call'[PromptCall(n)] = "none"
    <3>1. \A n \in Turns : n > t => n # t
      BY Fields DEF RpcType
    <3> QED BY <1>3, <2>2, <3>1 DEF Unstarted, RpcSafe, Ends
  <2>11. Ends'
    <3> HIDE DEF Coming, Replies
    <3> QED BY <1>1, <1>3, <1>5, <2>1, <2>4, <2>5, <2>6, <2>7, <2>8, <2>9,
       <2>10, ClientMoves
  <2> QED BY <2>3, <2>4, <2>11 DEF RpcSafe
<1> QED BY <1>2, <1>3, <1>5 DEF RunTurn, Fails

(* drain_ready_incoming returns when the channel is empty: what the server *)
(* sent of the turn came before its response, so all of it has been heard. *)
LEMMA ReturnKeeps ==
  ASSUME RpcType, RpcSafe, client.pc = "drain", ~Received("client"), ClientAt("ready"),
         returned' = returned \cup {client.turn},
         UNCHANGED <<session, outbound, incoming, call, emitted, heard, reader, writer, flag, pending>>
  PROVE  RpcType' /\ RpcSafe'
<1>1. PICK t \in Turns : t = client.turn
  BY Fields DEF RpcType, RpcSafe, Ends, Places, InTurn
<1>2. /\ client.msg \in Said /\ client.next \in {"handshake", "turn", "drain", "gone"}
      /\ t \in 0 .. MaxTurns /\ t > 0
  BY <1>1, Fields DEF RpcType
<1>3. client' \in ClientStates /\ client'.turn = t /\ client'.pc = "ready"
  BY <1>1, <1>2, ClientForms DEF ClientAt
<1>4. RpcType'
  BY <1>1, <1>3 DEF RpcType, QueueType, EndType, TaskType
<1>5. Wire'
  BY ClientWire DEF Unasked
<1>6. \A n \in Turns : /\ Coming(n)' = Coming(n) /\ Replies(n)' = Replies(n)
                       /\ (NoneFailed(n)' <=> NoneFailed(n)) /\ (Fair(n)' <=> Fair(n))
  BY DEF Coming, Replies, Sending, NoneFailed, Fair
<1>7. call[PromptCall(t)] = "ok"
  BY <1>1 DEF Draining, RpcSafe, Ends
<1>8. Replies(t) > 0 /\ session.turn # t
  <2>1. /\ Count(outbound["server"], Reply(t)) \in Nat
        /\ Count(outbound["client"], Prompt(t)) \in Nat
        /\ Count(incoming["server"], Prompt(t)) \in Nat /\ Chances(t) <= 1
    BY Numbers DEF RpcSafe, Wire, Single
  <2> QED BY <1>7, <2>1 DEF Chances, Replies, Unasked, One
<1>9. Coming(t) = 0
  <2>1. ~Sending(Event(t)) /\ Count(outbound["server"], Event(t)) = 0
    BY <1>7, <1>8 DEF OwnTurn, Behind, RpcSafe, Wire
  <2>2. Count(incoming["client"], Event(t)) = 0
    <3>1. incoming["client"] = << >> /\ << >> \in Seq(ToClient) /\ DOMAIN << >> = {}
      BY DEF Received
    <3> QED BY <3>1, CountFacts
  <2> QED BY <2>1, <2>2 DEF Coming, One
<1>10. NoneFailed(t) => heard[t] = emitted[t]
  <2>1. NoneFailed(t) => Fair(t)
    BY <1>7 DEF Fair
  <2>2. NoneFailed(t) => heard[t] + Coming(t) = emitted[t]
    BY <1>1, <1>2, <1>8, <2>1 DEF Counted, RpcSafe, Ends
  <2>3. heard[t] \in Nat
    BY Numbers
  <2> HIDE DEF Coming
  <2> QED BY <1>9, <2>2, <2>3
<1>11. \A n \in returned' : n \in Turns /\ (n = t \/ n \in returned)
  BY <1>1 DEF RpcType, EndType
<1>12. Unstarted'
  <2>1. \A n \in Turns : n > t => n # t
    BY Fields DEF RpcType
  <2> HIDE DEF Coming
  <2> QED BY <1>1, <1>3, <1>6, <1>11, <2>1 DEF Unstarted, RpcSafe, Ends
<1>13. Counted' /\ Before'
  <2>1. Counted'
    <3> HIDE DEF Coming, Replies
    <3> QED BY <1>1, <1>2, <1>3, <1>6 DEF Counted, RpcSafe, Ends
  <2>2. \A n \in 1 .. t : n \in Turns
    BY <1>2, Fields DEF RpcType
  <2>3. Before'
    BY <1>1, <1>3, <1>6, <2>2 DEF Before, RpcSafe, Ends
  <2> QED BY <2>1, <2>3
<1>14. AllHeard'
  <2> SUFFICES ASSUME NEW n \in returned'
               PROVE  /\ call'[PromptCall(n)] = "ok" /\ n <= t
                      /\ NoneFailed(n)' => heard'[n] = emitted'[n] /\ Coming(n)' = 0
    BY <1>3 DEF AllHeard, Over
  <2>1. CASE n = t
    BY <1>2, <1>6, <1>7, <1>9, <1>10, <2>1
  <2>2. CASE n \in returned
    BY <1>1, <1>6, <1>11, <2>2 DEF AllHeard, RpcSafe, Ends
  <2> QED BY <1>11, <2>1, <2>2
<1>15. Ready' /\ Draining' /\ Flagged' /\ Places'
  <2>1. Ready' /\ Draining'
    BY <1>1, <1>3 DEF Ready, Draining
  <2>2. Flagged'
    BY <1>3 DEF Flagged, RpcSafe, Ends
  <2>3. Places'
    BY <1>3 DEF Places, InTurn, Prompted, RpcSafe, Ends
  <2> QED BY <2>1, <2>2, <2>3
<1> QED BY <1>4, <1>5, <1>12, <1>13, <1>14, <1>15 DEF RpcSafe, Ends

(* All steps of the client's own task.                                     *)
LEMMA ClientKeeps ==
  ASSUME RpcType, RpcSafe, ClientSteps
  PROVE  RpcType' /\ RpcSafe'
<1>1. CASE drain_ready_incoming
  <2>1. /\ UNCHANGED <<session, outbound, call, emitted, reader, writer, flag, pending>>
        /\ client.pc = "drain"
        /\ \/ /\ Received("client") /\ Takes("client") /\ handle_incoming(Next1("client"), "drain")
              /\ returned' = returned
           \/ /\ ~Received("client") /\ UNCHANGED <<incoming, heard>>
              /\ ClientAt("ready") /\ returned' = returned \cup {client.turn}
    BY <1>1 DEF drain_ready_incoming, PeerUnchanged, ClientUnchanged
  <2> QED BY <2>1, HandleKeeps, ReturnKeeps
<1> QED BY <1>1, ClientSendKeeps, HandshakeKeeps, RunTurnKeeps DEF ClientSteps

(* Every step keeps types and invariant.                                   *)
LEMMA RpcKeeps ==
  ASSUME RpcType, RpcSafe, [RpcNext]_rpcVars
  PROVE  RpcType' /\ RpcSafe'
<1>1. CASE UNCHANGED rpcVars
  <2>1. EndType' /\ TaskType' /\ Flagged' /\ (flag["client"] => flag'["client"])
    BY <1>1 DEF rpcVars, RpcType, EndType, TaskType, Flagged, RpcSafe, Ends
  <2>2. UNCHANGED <<session, client, outbound, incoming, emitted, heard, returned>> /\ \A n \in Turns : Quiet(n)
    BY <1>1 DEF rpcVars, Quiet
  <2> QED BY <2>1, <2>2, QuietKeeps
<1> QED BY <1>1, CutKeeps, PeersKeep, ServerKeeps, AsksKeep, ClientKeeps,
   StartKeeps, LeaveKeeps, CancelKeeps DEF RpcNext

(* The invariant says that the events of a turn that returned were heard.  *)
LEMMA SafeDelivers == RpcSafe => EventsDelivered
BY DEF RpcSafe, Ends, AllHeard, NoneFailed, EventsDelivered

(* The inductive invariant holds throughout.                               *)
LEMMA RpcInvariant == RpcInit /\ [][RpcNext]_rpcVars => [](RpcType /\ RpcSafe)
<1>1. RpcInit => RpcType /\ RpcSafe
  BY RpcStarts
<1>2. (RpcType /\ RpcSafe) /\ [RpcNext]_rpcVars => (RpcType /\ RpcSafe)'
  BY RpcKeeps
<1> QED BY <1>1, <1>2, PTL

(* Channels, calls, tasks and the states of the two ends of a connection   *)
(* keep their types, for any number of turns, events and approvals and any *)
(* capacity of the channels.                                               *)
THEOREM RpcTypeCorrect == RpcSpec => []RpcType
BY RpcInvariant, PTL DEF RpcSpec

(* run_turn and drain_ready_incoming: when a turn has returned Ok and no   *)
(* earlier prompt was given up, every event the server sent for it has     *)
(* been passed to on_event and none of another turn, for any number of     *)
(* turns and events, wherever the connection breaks.                       *)
THEOREM AllDelivered == RpcSpec => []EventsDelivered
BY RpcInvariant, SafeDelivers, PTL DEF RpcSpec

-----------------------------------------------------------------------------
(* What the run composes of the two.  The fairness of its specification is *)
(* not needed.                                                             *)
LEMMA ConversationParts ==
  /\ ConversationInit => Init /\ RpcInit
  /\ [ConversationNext]_conversationVars => [Next]_vars /\ [RpcNext]_rpcVars
BY DEF ConversationInit, ConversationNext, conversationVars

(* The same for the run's specification: a model call's life cycle and     *)
(* cache hints, and the events of a connection's turns (stream_with_retry, *)
(* run_turn), for every value of the constants of both.                    *)
THEOREM ConversationCorrect ==
  ConversationSpec => [](LifecycleClosed /\ MissRewrites /\ EventsDelivered)
<1>1. ConversationSpec => Spec /\ RpcInit /\ [][RpcNext]_rpcVars
  BY ConversationParts, PTL DEF ConversationSpec, Spec
<1> QED BY <1>1, LifecycleIsClosed, MissesRewritten, RpcInvariant, SafeDelivers, PTL

=============================================================================
