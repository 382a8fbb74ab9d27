--------------------------- MODULE ProviderRequests ---------------------------
(***************************************************************************)
(* One request of a provider adapter, from the conversation it is given to *)
(* the first event it yields (src/adapters/src/): the conversion of the    *)
(* messages, the credentials, the request raced with cancellation, the     *)
(* classification of a failure.  What follows a success is ProviderStreams. *)
(*                                                                         *)
(* A message of the conversation keeps its role, whether it has text, the  *)
(* tool calls it makes and the call it answers.  A failure's body keeps    *)
(* what the classifiers look at: whether it is JSON, its error code and    *)
(* what its message speaks of.                                             *)
(***************************************************************************)
EXTENDS Integers, Sequences, SequencesExt

CONSTANTS Adapters, MaxTurns   \* bound: turns of the conversation

OaiShells == {"openai", "azure", "mistral"}   \* adapters built on OaiAdapterShell
Credentialed == {"azure", "codex"}            \* a token is fetched for the request
ASSUME RequestAssumption ==
  /\ Adapters \subseteq OaiShells \union {"anthropic", "google", "ollama", "bedrock",
                                          "responses", "codex", "proxy"}
  /\ MaxTurns \in Nat

VARIABLES
  adapter,
  talk,        \* context.messages
  stage,       \* "build", "auth", "send", "body", "stream" or "failed"
  response,    \* the response to the request
  failure,     \* the kind of the error event yielded
  reqCancelled

requestVars == <<adapter, talk, stage, response, failure, reqCancelled>>

Codes == {"none", "context_length_exceeded", "content_filter", "rate_limit_exceeded",
          "invalid_api_key", "server_error", "model_not_found", "invalid_request_error"}
Subjects == {"plain", "overflow", "retired", "entitlement"}
ResponseStatuses == {200, 400, 401, 404, 408, 413, 429, 500, 529}
NoResponse == [status |-> 0, json |-> FALSE, code |-> "none", about |-> "plain", zero |-> FALSE]
-----------------------------------------------------------------------------
(* The conversation: turns of a user or a custom message, and of an        *)
(* assistant with the results of its calls.                                *)
CallIds == {m.of : m \in Range(talk)} \ {0}
Fresh == 1 + Len(SelectSeq(talk, LAMBDA m : m.role = "result"))
Message(role, text, calls, of) == [role |-> role, text |-> text, calls |-> calls, of |-> of]

Say ==
  /\ stage = "build" /\ Len(SelectSeq(talk, LAMBDA m : m.role # "result")) < MaxTurns
  /\ \/ \E t \in BOOLEAN : talk' = Append(talk, Message("user", t, <<>>, 0))
     \/ talk' = Append(talk, Message("custom", TRUE, <<>>, 0))
     \/ \E t \in BOOLEAN, n \in 0..2 :
          LET ids == [k \in 1..n |-> Fresh + k - 1]
          IN  talk' = Append(talk, Message("assistant", t, ids, 0))
                        \o [k \in 1..n |-> Message("result", TRUE, <<>>, ids[k])]
  /\ UNCHANGED <<adapter, stage, response, failure, reqCancelled>>
-----------------------------------------------------------------------------
(* The wire: items with a role and parts.  A part is <<"text", 0>>,        *)
(* <<"call", id>> or <<"result", id>>.                                     *)
Item(role, parts) == [role |-> role, parts |-> parts]
TextPart == <<"text", 0>>
TextIf(m) == IF m.text THEN <<TextPart>> ELSE <<>>
CallParts(m) == [k \in 1..Len(m.calls) |-> <<"call", m.calls[k]>>]
Spoken == SelectSeq(talk, LAMBDA m : m.role # "custom")   \* AgentMessage::Llm
Drop_empty(items) == SelectSeq(items, LAMBDA i : i.parts # <<>>)
Each(Convert(_)) == [k \in 1..Len(Spoken) |-> Convert(Spoken[k])]

(* OaiConverter: one message each; results have a role of their own.       *)
OaiConverter(m) ==
  CASE m.role = "user" -> Item("user", <<TextPart>>)
    [] m.role = "assistant" -> Item("assistant", TextIf(m) \o CallParts(m))
    [] m.role = "result" -> Item("tool", << <<"result", m.of>> >>)

(* OllamaConverter: calls and results go without their ids.                *)
OllamaConverter(m) ==
  CASE m.role = "user" -> Item("user", <<TextPart>>)
    [] m.role = "assistant" -> Item("assistant", TextIf(m) \o [k \in 1..Len(m.calls) |-> <<"call", 0>>])
    [] m.role = "result" -> Item("tool", << <<"result", 0>> >>)

(* ResponsesConverter: an item for the text, one for each call and result. *)
ResponsesConverter(m) ==
  CASE m.role = "user" -> << Item("user", <<TextPart>>) >>
    [] m.role = "assistant" ->
         (IF m.text THEN << Item("assistant", <<TextPart>>) >> ELSE <<>>)
           \o [k \in 1..Len(m.calls) |-> Item("assistant", << <<"call", m.calls[k]>> >>)]
    [] m.role = "result" -> << Item("tool", << <<"result", m.of>> >>) >>

(* Anthropic: results that follow each other share one user message.       *)
AllResults(item) == item.role = "user" /\ \A p \in Range(item.parts) : p[1] = "result"
anthropic_push(acc, m) ==
  CASE m.role = "user" -> Append(acc, Item("user", <<TextPart>>))
    [] m.role = "assistant" ->
         acc \o Drop_empty(<< Item("assistant", TextIf(m) \o CallParts(m)) >>)
    [] m.role = "result" ->
         IF acc # <<>> /\ AllResults(Last(acc))
         THEN [acc EXCEPT ![Len(acc)].parts = Append(@, <<"result", m.of>>)]
         ELSE Append(acc, Item("user", << <<"result", m.of>> >>))

(* Bedrock and Google: a user message of its own for each result; messages *)
(* without content are left out.                                           *)
bedrock_message(m) ==
  CASE m.role = "user" -> Item("user", TextIf(m))
    [] m.role = "assistant" -> Item("assistant", TextIf(m) \o CallParts(m))
    [] m.role = "result" -> Item("user", << <<"result", m.of>> >>)
google_message(m) ==
  CASE m.role = "user" -> Item("user", TextIf(m))
    [] m.role = "assistant" -> Item("model", TextIf(m) \o CallParts(m))
    [] m.role = "result" -> Item("user", << <<"result", m.of>> >>)

(* Mistral: its own ids, one for each id of the conversation, and a blank  *)
(* assistant message between a result and a user.                          *)
remap_to_mistral(id) == 100 + id
Remapped(item) == [item EXCEPT !.parts = [k \in 1..Len(@) |->
                     IF @[k][1] = "text" THEN @[k] ELSE <<@[k][1], remap_to_mistral(@[k][2])>>]]
convert_messages_for_mistral(items) ==
  FoldLeft(LAMBDA acc, i :
             (IF acc # <<>> /\ Last(acc).role = "tool" /\ i.role = "user"
              THEN Append(acc, Item("assistant", <<TextPart>>)) ELSE acc) \o << Remapped(i) >>,
           <<>>, items)

Wire ==
  CASE adapter \in {"openai", "azure"} -> Each(OaiConverter)
    [] adapter = "mistral"   -> convert_messages_for_mistral(Each(OaiConverter))
    [] adapter = "ollama"    -> Each(OllamaConverter)
    [] adapter \in {"responses", "codex"} -> FlattenSeq(Each(ResponsesConverter))
    [] adapter = "anthropic" -> FoldLeft(anthropic_push, <<>>, Spoken)
    [] adapter = "bedrock"   -> Drop_empty(Each(bedrock_message))
    [] adapter = "google"    -> Drop_empty(Each(google_message))
    [] adapter = "proxy"     -> Each(OaiConverter)
-----------------------------------------------------------------------------
(* Failures.                                                               *)

classify_http_status(status) ==
  CASE status \in {401, 403} -> "Auth"
    [] status = 429 -> "Throttled"
    [] status = 408 \/ status \in 500..599 -> "Network"
    [] OTHER -> "None"

is_model_retired_response(r) ==
  r.status \in {400, 404, 410} /\ (r.code = "model_not_found" \/ r.about = "retired")

error_event_from_status(r) ==
  IF classify_http_status(r.status) # "None" THEN classify_http_status(r.status)
  ELSE IF is_model_retired_response(r) THEN "ModelRetired" ELSE "Plain"

(* classify_oai_error_fields(), in the order the code asks.                *)
OfCode == [content_filter |-> "ContentFiltered", rate_limit_exceeded |-> "Throttled",
           invalid_api_key |-> "Auth", server_error |-> "Network",
           model_not_found |-> "ModelRetired"]
classify_oai_error_fields(code, about) ==
  IF code = "context_length_exceeded" \/ about = "overflow" THEN "ContextWindowExceeded"
  ELSE IF code \in DOMAIN OfCode THEN OfCode[code] ELSE "None"
classify_oai_error_body(r) ==
  IF r.status \in 400..499 /\ r.json THEN classify_oai_error_fields(r.code, r.about) ELSE "None"

classify_anthropic_error_body(r) ==
  IF r.json /\ r.code = "invalid_request_error" /\ r.about = "overflow"
  THEN "ContextWindowExceeded" ELSE "None"
classify_google_error_body(r) ==
  IF r.status = 400 /\ r.json /\ r.about = "overflow" THEN "ContextWindowExceeded" ELSE "None"
is_content_filter_error(r) == r.json /\ r.code = "content_filter"
classify_azure(r) ==
  IF is_content_filter_error(r) THEN "ContentFiltered" ELSE classify_oai_error_body(r)
classify_codex_error(r) ==
  IF r.status = 400 /\ r.about = "entitlement" THEN "ModelRetired" ELSE classify_oai_error_body(r)

(* What an adapter makes of a refusal: what its body says, then its status. *)
Otherwise(kind, r) == IF kind # "None" THEN kind ELSE error_event_from_status(r)

(* A limit of zero is not a limit to wait for.                             *)
has_zero_rate_limit_allowance(r) == r.status = 429 /\ r.zero
oai_send_and_parse(kind, r) ==
  IF kind = "None" /\ has_zero_rate_limit_allowance(r) THEN "ModelRetired" ELSE Otherwise(kind, r)

mistral_stream(r) == oai_send_and_parse(classify_oai_error_body(r), r)
azure_stream(r) == oai_send_and_parse(classify_azure(r), r)
openai_stream(r) == oai_send_and_parse(classify_oai_error_body(r), r)
anthropic_stream(r) == Otherwise(classify_anthropic_error_body(r), r)
gemini_stream(r) == Otherwise(classify_google_error_body(r), r)
ollama_stream(r) == error_event_from_status(r)
proxy_stream(r) == error_event_from_status(r)
responses_stream(r) == Otherwise(classify_oai_error_body(r), r)
codex_stream(r) == Otherwise(classify_codex_error(r), r)
send_converse_stream(r) ==
  IF r.status = 400 /\ r.about = "overflow" THEN "ContextWindowExceeded" ELSE error_event_from_status(r)

FailureKind(r) ==
  CASE adapter = "openai"    -> openai_stream(r)
    [] adapter = "mistral"   -> mistral_stream(r)
    [] adapter = "azure"     -> azure_stream(r)
    [] adapter = "anthropic" -> anthropic_stream(r)
    [] adapter = "google"    -> gemini_stream(r)
    [] adapter = "ollama"    -> ollama_stream(r)
    [] adapter = "proxy"     -> proxy_stream(r)
    [] adapter = "responses" -> responses_stream(r)
    [] adapter = "codex"     -> codex_stream(r)
    [] adapter = "bedrock"   -> send_converse_stream(r)
-----------------------------------------------------------------------------
(* Every failure before the stream is a start event and one error event.   *)
Fail(kind) == stage' = "failed" /\ failure' = kind

Submit ==
  /\ stage = "build" /\ talk # <<>>
  /\ stage' = IF adapter \in Credentialed THEN "auth" ELSE "send"
  /\ UNCHANGED <<adapter, talk, response, failure, reqCancelled>>

(* race_pre_stream_cancellation() around the credentials: a token, or the  *)
(* failure of the token endpoint or of the resolver.                       *)
token_failures == IF adapter = "codex" THEN {"Auth"}
                  ELSE {"Auth", "Throttled", "Network", "Plain"}
Authorize ==
  /\ stage = "auth"
  /\ \/ stage' = "send" /\ UNCHANGED failure
     \/ \E k \in token_failures : Fail(k)
  /\ UNCHANGED <<adapter, talk, response, reqCancelled>>

(* The response, or no connection.  A refused request has a body to read.  *)
(* What was said plays no further part.                                    *)
Responds ==
  /\ stage = "send" /\ talk' = <<>>
  /\ \/ Fail("Network") /\ UNCHANGED response
     \/ \E r \in [status : ResponseStatuses, json : {TRUE}, code : Codes, about : Subjects,
                  zero : BOOLEAN] :
          /\ r.zero => r.status = 429
          /\ r.status = 200 => r.code = "none" /\ r.about = "plain"
          /\ response' = r
          /\ stage' = IF r.status = 200 THEN "stream" ELSE "body"
          /\ UNCHANGED failure
  /\ UNCHANGED <<adapter, reqCancelled>>

(* read_error_body_or_cancelled(): all of the body, or the first           *)
(* MAX_ERROR_BODY_BYTES of it, which are not JSON.                         *)
BodyRead ==
  /\ stage = "body"
  /\ \E cut \in BOOLEAN :
       LET r == IF cut THEN [response EXCEPT !.json = FALSE] ELSE response
       IN  response' = r /\ Fail(FailureKind(r))
  /\ UNCHANGED <<adapter, talk, reqCancelled>>

(* Each of the three waits is raced with the token.                        *)
WaitCancelled ==
  /\ stage \in {"auth", "send", "body"} /\ reqCancelled
  /\ Fail("Aborted")
  /\ UNCHANGED <<adapter, talk, response, reqCancelled>>

CancelRequest ==
  /\ stage \in {"build", "auth", "send", "body"} /\ ~reqCancelled /\ reqCancelled' = TRUE
  /\ UNCHANGED <<adapter, talk, stage, response, failure>>

RequestInit ==
  /\ adapter \in Adapters
  /\ talk = <<>> /\ stage = "build" /\ response = NoResponse
  /\ failure = "none" /\ reqCancelled = FALSE

RequestNext == Say \/ Submit \/ Authorize \/ Responds \/ BodyRead \/ WaitCancelled \/ CancelRequest
RequestSpec == RequestInit /\ [][RequestNext]_requestVars
-----------------------------------------------------------------------------
(* The parts of one kind on the wire, in order.                            *)
PartsOf(kind) == SelectSeq(FlattenSeq([k \in 1..Len(Wire) |-> Wire[k].parts]),
                           LAMBDA p : p[1] = kind)
RequestMade == FlattenSeq([k \in 1..Len(talk) |-> talk[k].calls])
Calls(n) == SelectSeq(Wire[n].parts, LAMBDA p : p[1] = "call")
Results(n) == SelectSeq(Wire[n].parts, LAMBDA p : p[1] = "result")
(* The results that follow item n before anything else is said.            *)
Following(n) ==
  LET open == {k \in (n + 1)..Len(Wire) : Wire[k].parts = <<>> \/ Results(k) # Wire[k].parts}
      stop == IF open = {} THEN Len(Wire) + 1 ELSE CHOOSE k \in open : \A j \in open : k <= j
  IN  FlattenSeq([k \in 1..(stop - n - 1) |-> Results(n + k)])

(* A conversation whose calls are answered arrives so at the provider,     *)
(* whatever its adapter drops, merges, splits, renames or inserts: every   *)
(* call is sent, once, and right after a message with calls come their     *)
(* results and no others, in their order, under the ids the calls were     *)
(* sent with; for Anthropic, which demands it, in one message.             *)
RequestPaired ==
  stage \in {"auth", "send"} =>
    /\ Len(PartsOf("call")) = Len(RequestMade) /\ Len(PartsOf("result")) = Len(RequestMade)
    /\ adapter \notin {"responses", "codex"} =>
         \A n \in DOMAIN Wire : Calls(n) # <<>> =>
           [k \in 1..Len(Calls(n)) |-> Calls(n)[k][2]]
             = [k \in 1..Len(Following(n)) |-> Following(n)[k][2]]
    /\ adapter \notin {"ollama", "mistral"} =>
         \A kind \in {"call", "result"} :
           PartsOf(kind) = [k \in 1..Len(RequestMade) |-> <<kind, RequestMade[k]>>]
    /\ adapter = "anthropic" =>
         \A n \in DOMAIN Wire : Calls(n) # <<>> => Len(Results(n + 1)) = Len(Calls(n))

(* A failure the loop retries or falls back on (is_retryable) is one that  *)
(* may pass: the connection, the load or the speed, said by the status or  *)
(* by the body; never a prompt that is too long where the adapter can tell,*)
(* a limit of zero or a bad key.  A request that was not cancelled is not  *)
(* reported as aborted.                                                    *)
PermanentNotRetried ==
  stage = "failed" =>
    /\ failure \in {"Throttled", "Network"} /\ response # NoResponse =>
         /\ response.status \in {408, 429, 500, 529} \/ response.code \in {"rate_limit_exceeded", "server_error"}
         /\ ~(response.zero /\ adapter \in OaiShells /\ response.code = "none")
         /\ response.about = "overflow" /\ response.json => response.status \notin {400, 413}
    /\ failure = "Aborted" => reqCancelled

(* What reaches the provider and what comes back when it refuses.          *)
RequestFits == RequestPaired /\ PermanentNotRetried
=============================================================================
