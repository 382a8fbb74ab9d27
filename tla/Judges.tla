------------------------------- MODULE Judges -------------------------------
(***************************************************************************)
(* Models asked to judge, and what is kept of their verdicts.              *)
(*                                                                         *)
(* Nine clients (eval-judges/src) turn an HTTP reply into a verdict, and   *)
(* retry transport errors under a token of their own.  Evaluators          *)
(* (eval/src/evaluators/mod.rs) call them through a registry with a second *)
(* retry loop and two more tokens, the registry's and that of the run in   *)
(* whose scope the thread is; a batch calls the client directly, one       *)
(* prompt after the other.                                                 *)
(*                                                                         *)
(* JudgeCache (eval/src/judge.rs) keeps verdicts in memory, gives up the   *)
(* least recently used when one too many is held, and writes them one file *)
(* each to a directory that several processes may share.  A flush is a     *)
(* series of file operations, none of them atomic, and a process may end   *)
(* between any two.                                                        *)
(***************************************************************************)
EXTENDS Naturals, Integers, Sequences, FiniteSets, Functions, FiniteSetsExt

CONSTANTS JudgeClients,   \* the clients in the instance
          ClientAttempts, \* max_attempts of the client's RetryPolicy
          CallAttempts,   \* max_attempts of the registry's RetryPolicy
          BatchPrompts    \* prompts given to judge_batch

(* JudgeRegistryBuilder::build refuses any other policy. *)
build(max_attempts) == max_attempts \in 1 .. 16

ASSUME JudgeAssumption ==
  /\ JudgeClients \subseteq {"openai", "azure", "xai", "mistral", "anthropic", "bedrock",
                             "gemini", "ollama", "proxy"}
  /\ ClientAttempts \in Nat \ {0} /\ build(CallAttempts) /\ BatchPrompts \in Nat

VARIABLES judge,     \* the client
          asker,     \* "evaluator" or "batch"
          flavor,    \* the runtime the evaluator is called in: "multi", "current" or "none"
          tokens,    \* the tokens that exist, of "client", "registry" and "scope"
          fired,     \* those cancelled
          judgeStep, \* where the call is
          calls,     \* calls of the client made for this prompt by the outer loop
          attempts,  \* requests of the current call of the client
          sent,      \* requests made for this prompt
          failure,   \* the last error of an attempt
          outcomes,  \* the results handed to the caller
          late       \* a request was begun although the call was cancelled

judgeVars == <<judge, asker, flavor, tokens, fired, judgeStep, calls, attempts, sent, failure,
               outcomes, late>>

-----------------------------------------------------------------------------
(* Replies.  A text is a verdict or something parse_verdict_text refuses;  *)
(* scores are in quarters.                                                 *)
One == 4
JudgeVerdict(score, pass) == [is |-> "verdict", score |-> score, pass |-> pass]
Failure(kind) == [is |-> kind]
NoText == [is |-> "none"]
Garbage == [is |-> "garbage"]

ClampScore(s) == IF s < 0 THEN 0 ELSE IF s > One THEN One ELSE s

parse_verdict_text(text) ==
  IF text.is = "verdict" THEN JudgeVerdict(ClampScore(text.score), text.pass)
  ELSE Failure("malformed")

(* What comes back: no response, a status, or the parts of a body that     *)
(* parsed.  A body that breaks off is malformed for every client.          *)
ReplyTexts == {NoText, Garbage, JudgeVerdict(-1, TRUE), JudgeVerdict(1, TRUE), JudgeVerdict(5, FALSE)}
ReplyBodies == {<< >>} \cup {<<a>> : a \in ReplyTexts} \cup (ReplyTexts \X ReplyTexts)
Replies == [is : {"unsent", "429", "5xx", "4xx", "broken"}] \cup [is : {"ok"}, parts : ReplyBodies]

classify_http_error(status) ==
  Failure(IF status \in {"429", "5xx"} THEN "transport" ELSE "other")

FromReply(reply, verdict) ==
  CASE reply.is = "unsent" -> Failure("transport")
    [] reply.is = "broken" -> Failure("malformed")
    [] reply.is = "ok" -> verdict
    [] OTHER -> classify_http_error(reply.is)

ReplyParts(reply) == IF reply.is = "ok" THEN reply.parts ELSE << >>

(* The first choice (openai, azure, xai, mistral), the first part of the   *)
(* first candidate (gemini), or the message (ollama).                      *)
FirstOf(parts) ==
  IF parts = << >> THEN Failure("malformed") ELSE parse_verdict_text(Head(parts))

(* The first block that is a text, wherever it stands. *)
FirstText(parts) == FirstOf(SelectSeq(parts, LAMBDA t : t # NoText))

openai_dispatch_once(reply) == FromReply(reply, FirstOf(ReplyParts(reply)))
azure_dispatch_once(reply) == FromReply(reply, FirstOf(ReplyParts(reply)))
xai_dispatch_once(reply) == FromReply(reply, FirstOf(ReplyParts(reply)))
mistral_dispatch_once(reply) == FromReply(reply, FirstOf(ReplyParts(reply)))
gemini_dispatch_once(reply) == FromReply(reply, FirstOf(ReplyParts(reply)))
ollama_dispatch_once(reply) == FromReply(reply, FirstOf(ReplyParts(reply)))
anthropic_dispatch_once(reply) == FromReply(reply, FirstText(ReplyParts(reply)))
bedrock_dispatch_once(reply) == FromReply(reply, FirstText(ReplyParts(reply)))

(* The body itself is the verdict. *)
proxy_dispatch_once(reply) ==
  FromReply(reply, IF Len(ReplyParts(reply)) = 1 THEN parse_verdict_text(ReplyParts(reply)[1])
                   ELSE Failure("malformed"))

dispatch_once(reply) ==
  CASE judge = "openai" -> openai_dispatch_once(reply)
    [] judge = "azure" -> azure_dispatch_once(reply)
    [] judge = "xai" -> xai_dispatch_once(reply)
    [] judge = "mistral" -> mistral_dispatch_once(reply)
    [] judge = "gemini" -> gemini_dispatch_once(reply)
    [] judge = "ollama" -> ollama_dispatch_once(reply)
    [] judge = "anthropic" -> anthropic_dispatch_once(reply)
    [] judge = "bedrock" -> bedrock_dispatch_once(reply)
    [] judge = "proxy" -> proxy_dispatch_once(reply)

-----------------------------------------------------------------------------
(* The call.  Steps: "idle", "calling" (the client is about to be called), *)
(* "ready" (a request is about to go out), "waiting" (for its reply),      *)
(* "pausing" (before the next request), "resting" (before the next call    *)
(* of the client).                                                         *)
JudgeInit ==
  /\ judge \in JudgeClients /\ asker \in {"evaluator", "batch"}
  /\ flavor \in {"multi", "current", "none"}
  /\ tokens \in {t \in SUBSET {"client", "registry", "scope"} :
                   "client" \in t /\ (asker = "batch" => t = {"client"})}
  /\ fired = {} /\ judgeStep = "idle" /\ calls = 0 /\ attempts = 0 /\ sent = 0
  /\ failure = Failure("none") /\ outcomes = << >> /\ late = FALSE
  /\ asker = "batch" => flavor = "none"

Prompts == IF asker = "batch" THEN BatchPrompts ELSE 1

(* drive_judge_call and block_on take the scope of the thread along to the *)
(* helper thread a current-thread runtime makes necessary.                 *)
scoped_elsewhere(t) == t \ {IF flavor = "current" THEN "scope" ELSE "nothing"}
scoped_judge_cancellation(t) == t

(* judge_with_retry races both of its tokens, the client its own. *)
CallTokens == scoped_judge_cancellation(tokens) \cap {"registry", "scope"}
CallCancelled == fired \cap CallTokens # {}
ClientCancelled == "client" \in fired

Hand(outcome) ==
  /\ outcomes' = Append(outcomes, outcome)
  /\ judgeStep' = "idle" /\ calls' = 0 /\ attempts' = 0 /\ failure' = Failure("none")
  /\ UNCHANGED <<judge, asker, flavor, tokens, fired, sent, late>>

(* A template that does not render fails the metric before any call. *)
Render ==
  /\ judgeStep = "idle" /\ Len(outcomes) < Prompts
  /\ \/ /\ judgeStep' = "calling" /\ sent' = 0
        /\ UNCHANGED <<judge, asker, flavor, tokens, fired, calls, attempts, failure,
                       outcomes, late>>
     \/ asker = "evaluator" /\ Hand(Failure("prompt"))

(* The select of judge_with_retry looks at the tokens first. *)
CallStopped ==
  /\ judgeStep # "idle" /\ asker = "evaluator" /\ CallCancelled
  /\ Hand(Failure("cancelled"))

Proceeds == asker = "evaluator" => ~CallCancelled

(* retry_with_cancel: the token before the first request, and then before  *)
(* everything else whenever it is polled.                                  *)
CallClient ==
  /\ judgeStep = "calling" /\ Proceeds
  /\ calls' = calls + 1
  /\ IF ClientCancelled
     THEN judgeStep' = "returned" /\ failure' = Failure("other") /\ UNCHANGED attempts
     ELSE judgeStep' = "ready" /\ attempts' = 0 /\ UNCHANGED failure
  /\ UNCHANGED <<judge, asker, flavor, tokens, fired, sent, outcomes, late>>

ClientStopped ==
  /\ judgeStep \in {"ready", "waiting", "pausing"} /\ Proceeds /\ ClientCancelled
  /\ judgeStep' = "returned" /\ failure' = Failure("other")
  /\ UNCHANGED <<judge, asker, flavor, tokens, fired, calls, attempts, sent, outcomes, late>>

MayRequest == judgeStep \in {"ready", "pausing"} /\ Proceeds /\ ~ClientCancelled

Request ==
  /\ MayRequest
  /\ judgeStep' = "waiting" /\ attempts' = attempts + 1 /\ sent' = sent + 1
  /\ late' = (late \/ fired # {})
  /\ UNCHANGED <<judge, asker, flavor, tokens, fired, calls, failure, outcomes>>

is_retryable(result) == result.is = "transport"

Receive ==
  /\ judgeStep = "waiting" /\ Proceeds /\ ~ClientCancelled
  /\ \E reply \in Replies : \E result \in {dispatch_once(reply)} :
       /\ failure' = result
       /\ judgeStep' = IF is_retryable(result) /\ attempts < ClientAttempts THEN "pausing"
                  ELSE "returned"
  /\ UNCHANGED <<judge, asker, flavor, tokens, fired, calls, attempts, sent, outcomes, late>>

is_retryable_judge_error(result) == result.is = "transport"

(* The outer loop of an evaluator. *)
CallAgain ==
  /\ judgeStep = "returned" /\ asker = "evaluator" /\ Proceeds
  /\ is_retryable_judge_error(failure) /\ calls < CallAttempts
  /\ judgeStep' = "calling"
  /\ UNCHANGED <<judge, asker, flavor, tokens, fired, calls, attempts, sent, failure,
                 outcomes, late>>

(* dispatch_judge clamps once more and scores against one half; a failed   *)
(* call is a failed metric.  judge_batch keeps the result as it is.        *)
Metric(result) ==
  IF result.is = "verdict"
  THEN [is |-> "metric", passed |-> ClampScore(result.score) >= One \div 2]
  ELSE result

ReturnVerdict ==
  /\ judgeStep = "returned" /\ Proceeds
  /\ asker = "evaluator" => ~(is_retryable_judge_error(failure) /\ calls < CallAttempts)
  /\ Hand(IF asker = "evaluator" THEN Metric(failure) ELSE failure)

(* Anyone who holds a token may cancel it, at any time. *)
CancelToken ==
  \E t \in tokens \ fired :
    /\ fired' = fired \cup {t}
    /\ UNCHANGED <<judge, asker, flavor, tokens, judgeStep, calls, attempts, sent, failure,
                   outcomes, late>>

JudgeNext ==
  \/ Render \/ CallStopped \/ CallClient \/ ClientStopped \/ Request \/ Receive
  \/ CallAgain \/ ReturnVerdict \/ CancelToken

JudgeSpec == JudgeInit /\ [][JudgeNext]_judgeVars

-----------------------------------------------------------------------------
(* Two retry loops around three tokens: however they nest, no request goes *)
(* out once any token of the call is cancelled, on whichever thread the    *)
(* evaluator runs; only transport errors are tried again, the requests of  *)
(* a prompt stay within the product of the two policies, and an error that *)
(* is not one ends it at its first occurrence; and every prompt gets one   *)
(* result, a passing one only from a verdict.                              *)
CallsBounded ==
  /\ ~late
  /\ sent <= ClientAttempts * (IF asker = "evaluator" THEN CallAttempts ELSE 1)
  /\ judgeStep \in {"pausing", "calling"} /\ sent > 0 => failure.is = "transport"
  /\ Len(outcomes) <= Prompts
  /\ \A i \in DOMAIN outcomes : outcomes[i].is # "none"

-----------------------------------------------------------------------------
(* The cache of verdicts.                                                  *)
CONSTANTS CacheOwners,   \* processes, each with a cache over the directory
          CacheKeys,     \* 1 .. n: keys in the order of their file names
          Capacity,      \* with_capacity, at least one is held
          MaxUses        \* bound on the keys loaded, got and put by the open caches

ASSUME CacheAssumption ==
  /\ CacheKeys \subseteq Nat /\ IsFiniteSet(CacheKeys)
  /\ Capacity \in Nat /\ MaxUses \in Nat

VARIABLES opened,   \* processes whose cache is open
          held,     \* per process: the keys with an entry
          recency,  \* per process: keys, the least recently used first
          dirty,    \* per process: a put since the last complete flush
          flushing, \* per process: the file operations of its flush still to do
          files,    \* the directory: keys with a whole file, and with a torn one
          uses      \* history per process: keys loaded, got and put

cacheVars == <<opened, held, recency, dirty, flushing, files, uses>>

CacheInit ==
  /\ opened = {} /\ files = [whole |-> {}, torn |-> {}]
  /\ held = [p \in CacheOwners |-> {}] /\ recency = [p \in CacheOwners |-> << >>]
  /\ dirty = [p \in CacheOwners |-> FALSE] /\ flushing = [p \in CacheOwners |-> << >>]
  /\ uses = [p \in CacheOwners |-> << >>]

Kept == IF Capacity = 0 THEN 1 ELSE Capacity

touch(order, k) == Append(SelectSeq(order, LAMBDA x : x # k), k)

(* evict_over_capacity, with recency naming every key held. *)
Inserted(keys, order, k) ==
  IF Cardinality(keys \cup {k}) <= Kept THEN <<keys \cup {k}, touch(order, k)>>
  ELSE <<(keys \cup {k}) \ {Head(touch(order, k))}, Tail(touch(order, k))>>

(* with_disk_path: the readable files in the order of their names. *)
Sorted(ks) ==
  CHOOSE s \in [1 .. Cardinality(ks) -> ks] :
    \A i, j \in DOMAIN s : i < j => s[i] < s[j]

Load(p) ==
  /\ p \notin opened
  /\ \E order \in {Sorted(files.whole)} :
     \E last \in {SubSeq(order, IF Len(order) > Kept THEN Len(order) - Kept + 1 ELSE 1,
                        Len(order))} :
       /\ held' = [held EXCEPT ![p] = Range(last)]
       /\ recency' = [recency EXCEPT ![p] = last]
       /\ uses' = [uses EXCEPT ![p] = order]
  /\ opened' = opened \cup {p}
  /\ dirty' = [dirty EXCEPT ![p] = FALSE]
  /\ UNCHANGED <<flushing, files>>

Uses == FoldFunctionOnSet(LAMBDA u, n : n + Len(u), 0, uses, CacheOwners)
InUse(p) == p \in opened /\ flushing[p] = << >> /\ Uses < MaxUses

(* A miss leaves the order alone. *)
GetVerdict(p, k) ==
  /\ InUse(p) /\ k \in held[p]
  /\ recency' = [recency EXCEPT ![p] = touch(recency[p], k)]
  /\ uses' = [uses EXCEPT ![p] = Append(@, k)]
  /\ UNCHANGED <<opened, held, dirty, flushing, files>>

PutVerdict(p, k) ==
  /\ InUse(p)
  /\ \E new \in {Inserted(held[p], recency[p], k)} :
       /\ held' = [held EXCEPT ![p] = new[1]]
       /\ recency' = [recency EXCEPT ![p] = new[2]]
  /\ dirty' = [dirty EXCEPT ![p] = TRUE]
  /\ uses' = [uses EXCEPT ![p] = Append(@, k)]
  /\ UNCHANGED <<opened, flushing, files>>

-----------------------------------------------------------------------------
(* flush_to_disk: the files of keys not held are removed, then every entry *)
(* is written over its file, in the order of a hash map.                   *)
Flush(p) ==
  /\ p \in opened /\ flushing[p] = << >>
  /\ flushing' = [flushing EXCEPT ![p] =
       <<[is |-> "remove", keys |-> (files.whole \cup files.torn) \ held[p]],
         [is |-> "write", keys |-> held[p]]>>]
  /\ UNCHANGED <<opened, held, recency, dirty, files, uses>>

(* One half of the flush is done. *)
Worked(p) ==
  /\ flushing[p] # << >> /\ Head(flushing[p]).keys = {}
  /\ flushing' = [flushing EXCEPT ![p] = Tail(@)]
  /\ dirty' = [dirty EXCEPT ![p] = @ /\ Len(flushing[p]) > 1]
  /\ UNCHANGED <<opened, held, recency, files, uses>>

(* Removing a file another process has removed is an error: it ends the    *)
(* flush, which leaves the cache dirty.                                    *)
FlushRemove(p) ==
  /\ flushing[p] # << >> /\ Head(flushing[p]).is = "remove"
  /\ \E k \in Head(flushing[p]).keys :
       /\ files' = [whole |-> files.whole \ {k}, torn |-> files.torn \ {k}]
       /\ flushing' = [flushing EXCEPT ![p] =
                          IF k \in files.whole \cup files.torn THEN [@ EXCEPT ![1].keys = @ \ {k}] ELSE << >>]
  /\ UNCHANGED <<opened, held, recency, dirty, uses>>

Write(p) ==
  /\ flushing[p] # << >> /\ Head(flushing[p]).is = "write"
  /\ \E k \in Head(flushing[p]).keys :
       /\ files' = [whole |-> files.whole \cup {k}, torn |-> files.torn \ {k}]
       /\ flushing' = [flushing EXCEPT ![p][1].keys = @ \ {k}]
  /\ UNCHANGED <<opened, held, recency, dirty, uses>>

(* The cache is dropped with nothing left to flush. *)
Drop(p) ==
  /\ p \in opened /\ flushing[p] = << >> /\ ~dirty[p]
  /\ opened' = opened \ {p}
  /\ held' = [held EXCEPT ![p] = {}] /\ recency' = [recency EXCEPT ![p] = << >>]
  /\ uses' = [uses EXCEPT ![p] = << >>]
  /\ UNCHANGED <<dirty, flushing, files>>

(* The process ends, perhaps in the middle of a write. *)
Crash(p) ==
  /\ p \in opened
  /\ opened' = opened \ {p}
  /\ held' = [held EXCEPT ![p] = {}] /\ recency' = [recency EXCEPT ![p] = << >>]
  /\ uses' = [uses EXCEPT ![p] = << >>] /\ dirty' = [dirty EXCEPT ![p] = FALSE]
  /\ flushing' = [flushing EXCEPT ![p] = << >>]
  /\ \/ UNCHANGED files
     \/ /\ flushing[p] # << >> /\ Head(flushing[p]).is = "write"
        /\ \E k \in Head(flushing[p]).keys :
             files' = [whole |-> files.whole \ {k}, torn |-> files.torn \cup {k}]

CacheNext ==
  \E p \in CacheOwners :
    \/ Load(p) \/ Flush(p) \/ Worked(p) \/ FlushRemove(p) \/ Write(p) \/ Drop(p) \/ Crash(p)
    \/ \E k \in CacheKeys : GetVerdict(p, k) \/ PutVerdict(p, k)

CacheSpec == CacheInit /\ [][CacheNext]_cacheVars

-----------------------------------------------------------------------------
LastUse(used, k) == Max({i \in DOMAIN used : used[i] = k})

(* The keys used last, as many as the cache keeps. *)
LastUsed(used) ==
  {k \in Range(used) :
     Cardinality({x \in Range(used) : LastUse(used, x) > LastUse(used, k)}) < Kept}

(* What the cache promises over its life on a shared directory: a cache    *)
(* holds exactly the keys used last, in that order and each once, whatever *)
(* was got, put, replaced and loaded, and whichever flushes of two         *)
(* processes interleave, fail or break off in the middle of a write.       *)
CacheExact ==
  \A p \in opened :
    /\ held[p] = LastUsed(uses[p])
    /\ Range(recency[p]) = held[p]
    /\ \A i, j \in DOMAIN recency[p] :
         i < j => LastUse(uses[p], recency[p][i]) < LastUse(uses[p], recency[p][j])
=============================================================================
