---------------------------- MODULE TraceIngest ----------------------------
(* Reading recorded traces back for evaluation (eval/src/trace): the five      *)
(* providers that fetch one session's spans from a backend, the mappers that   *)
(* turn them into an invocation under one attribute convention, the extractors *)
(* that cut an invocation's turns into cohorts, and the calendar arithmetic    *)
(* of the RFC 3339 times.  The traced agent keeps writing while the evaluator  *)
(* reads.  A behaviour studies one subject: "ingest", "extract" or "calendar". *)
EXTENDS Integers, Sequences, SequencesExt, FiniteSetsExt

CONSTANTS TraceSessions,  \* session ids, positive numbers
          SpanShapes,     \* the spans an agent writes: [name, attrs], attrs a sequence of [key, val],
                          \* val a type and a number that stands for the value
          MaxSpans,       \* spans written in a behaviour
          HitsLimit,      \* hits_limit: the most documents an OpenSearch query returns
          TokenCap,       \* the largest u64, scaled down
          TurnShapes,     \* turns of an invocation: [calls, node], calls a sequence of tool names
          MaxTraceTurns,  \* turns of an invocation
          Anchors,        \* days the calendar walk starts from: [y, m, d, n], n days after 1970-01-01
          WalkDays        \* days walked from an anchor

VARIABLES subject,        \* what the behaviour studies
          provider,       \* the provider in front of the backend
          spans,          \* what the backend holds: [shape, own, shared, end], oldest first
          fetched,        \* the last answer of fetch_session
          mapped,         \* what a mapper made of it
          turns, swarm, graph,  \* the turns read so far and the two extractors' cohorts
          day             \* the day of the calendar walk

traceVars == <<subject, provider, spans, fetched, mapped, turns, swarm, graph, day>>

Providers == {"memory", "otlp", "langfuse", "opensearch", "cloudwatch"}
Ends == {"open", "zero", "done", "garbled"}
Nothing == [is |-> "none"]
NoValue == [t |-> "none", v |-> 0]

-----------------------------------------------------------------------------
(* Span data: what each provider makes of what the backend holds. *)

SessionPair(s) == [key |-> "session.id", val |-> [t |-> "text", v |-> s]]

\* A resource's attributes come before the span's own; an empty key or an empty value is dropped.
kv_to_keyvalue(kvs) == SelectSeq(kvs, LAMBDA kv : kv.key # "" /\ kv.val.t # "null")
SessionAttr(s) == IF s = 0 THEN <<>> ELSE <<SessionPair(s)>>
otlp_span_to_span_data(x) ==
    [name |-> x.shape.name, lasts |-> IF x.end = "done" THEN 2 ELSE 0,
     attrs |-> SessionAttr(x.shared) \o SessionAttr(x.own) \o kv_to_keyvalue(x.shape.attrs)]

\* Null values are dropped, a nested value becomes its text.
json_to_otel_value(val) == IF val.t = "nested" THEN [val EXCEPT !.t = "text"] ELSE val
JsonAttrs(attrs) == [i \in DOMAIN attrs |-> [attrs[i] EXCEPT !.val = json_to_otel_value(@)]]
NotNull(kv) == kv.val.t # "null"

\* An end that is given but cannot be read is one millisecond after the start.
Lasts(end) == CASE end = "zero" -> 0 [] end = "garbled" -> 1 [] end = "done" -> 2

observation_to_span_data(x, s) ==
    [name |-> x.shape.name, lasts |-> Lasts(x.end),
     attrs |-> <<SessionPair(s)>> \o SelectSeq(JsonAttrs(x.shape.attrs), NotNull)]
hit_to_span_data(x, s) ==
    [name |-> x.shape.name, lasts |-> Lasts(x.end),
     attrs |-> <<SessionPair(s)>> \o SelectSeq(JsonAttrs(x.shape.attrs),
                                               LAMBDA kv : NotNull(kv) /\ kv.key # "session.id")]
doc_to_span_data(x, s) == hit_to_span_data(x, s)

-----------------------------------------------------------------------------
(* fetch_session of each provider. *)

Refusal(reason) == [is |-> "refused", why |-> reason]
RawSession(s, list) == [is |-> "session", session |-> s, count |-> Len(spans), list |-> list]

BelongsTo(span, s) == \E i \in DOMAIN span.attrs : span.attrs[i] = SessionPair(s)

\* The filter, the empty case and the open case in the order the providers test them.
Judge(s, matching, Open(_)) ==
    IF matching = <<>> THEN Refusal("SessionNotFound")
    ELSE IF \E i \in DOMAIN matching : Open(matching[i]) THEN Refusal("SessionInProgress")
    ELSE RawSession(s, matching)

\* The exporter holds finished spans only, without their resource; one that ended as it started counts as open.
memory_fetch(s) ==
    Judge(s, LET all == SelectSeq(spans, LAMBDA x : x.end \in {"zero", "done"})
             IN  SelectSeq([i \in DOMAIN all |-> otlp_span_to_span_data([all[i] EXCEPT !.shared = 0])],
                           LAMBDA span : BelongsTo(span, s)),
          LAMBDA span : span.lasts = 0)

otlp_fetch_any_end(s) ==
    IF \E i \in DOMAIN spans : spans[i].end = "garbled" THEN Refusal("BackendFailure")
    ELSE Judge(s, SelectSeq([i \in DOMAIN spans |-> otlp_span_to_span_data(spans[i])],
                            LAMBDA span : BelongsTo(span, s)),
               LAMBDA span : FALSE)
\* A time that is no number fails the body as a whole.
otlp_fetch(s) ==
    IF \E i \in DOMAIN spans : spans[i].end = "garbled" THEN Refusal("BackendFailure")
    ELSE Judge(s, SelectSeq([i \in DOMAIN spans |-> otlp_span_to_span_data(spans[i])],
                            LAMBDA span : BelongsTo(span, s)),
               LAMBDA span : span.lasts = 0)

\* The service selects the session's documents; a document without an end is open.
Documents(s) == SelectSeq(spans, LAMBDA x : x.own = s)
Unended(x) == x.end = "open"
Converted(raw, Convert(_)) ==
    IF raw.is = "session" THEN [raw EXCEPT !.list = [i \in DOMAIN @ |-> Convert(@[i])]] ELSE raw

langfuse_fetch(s) == Converted(Judge(s, Documents(s), Unended), LAMBDA x : observation_to_span_data(x, s))
\* One page of hits, in no stated order: of a session with more documents some are missing.
Hits(s) ==
    LET docs == Documents(s)
        page(some) == SelectSeq([i \in DOMAIN docs |-> [at |-> i, doc |-> docs[i]]], LAMBDA d : d.at \in some)
    IN  {[i \in DOMAIN page(some) |-> page(some)[i].doc] :
            some \in kSubset(Min({HitsLimit, Len(docs)}), DOMAIN docs)}
opensearch_fetch(s) ==
    {Converted(Judge(s, hits, Unended), LAMBDA x : hit_to_span_data(x, s)) : hits \in Hits(s)}
cloudwatch_fetch(s) == Converted(Judge(s, Documents(s), Unended), LAMBDA x : doc_to_span_data(x, s))

fetch_session(s) ==
    CASE provider = "memory" -> {memory_fetch(s)}
      [] provider = "otlp" -> {otlp_fetch(s)}
      [] provider = "langfuse" -> {langfuse_fetch(s)}
      [] provider = "opensearch" -> opensearch_fetch(s)
      [] provider = "cloudwatch" -> {cloudwatch_fetch(s)}

-----------------------------------------------------------------------------
(* Mappers: one attribute convention each. *)

openinference ==
    [system |-> "llm.provider", models |-> <<"llm.model_name">>,
     input |-> "llm.token_count.prompt", output |-> "llm.token_count.completion",
     response |-> "output.value", tool |-> "tool.name", args |-> "tool.parameters", id |-> "tool.call_id"]
langchain ==
    [system |-> "langchain.llm.provider", models |-> <<"langchain.llm.model">>,
     input |-> "langchain.llm.usage.prompt_tokens", output |-> "langchain.llm.usage.completion_tokens",
     response |-> "langchain.llm.output_text", tool |-> "langchain.tool.name",
     args |-> "langchain.tool.input", id |-> "langchain.tool.run_id"]
for_version(version) ==
    [system |-> "gen_ai.system", models |-> <<"gen_ai.response.model", "gen_ai.request.model">>,
     input |-> "gen_ai.usage.input_tokens", output |-> "gen_ai.usage.output_tokens",
     response |-> IF version = "V1_27" THEN "gen_ai.completion.content" ELSE "gen_ai.output.messages",
     tool |-> "gen_ai.tool.name",
     args |-> IF version = "V1_27" THEN "gen_ai.tool.call.arguments" ELSE "gen_ai.tool.arguments",
     id |-> "gen_ai.tool.call.id"]
Conventions == {openinference, langchain} \cup {for_version(v) : v \in {"V1_27", "V1_30", "Experimental"}}

\* Every attribute of every span, in order.
Flat(list) == FlattenSeq([i \in DOMAIN list |-> list[i].attrs])
AttrsNamed(attrs, key) == SelectSeq(attrs, LAMBDA kv : kv.key = key)
first_string_attr(attrs, key) ==
    IF AttrsNamed(attrs, key) = <<>> THEN NoValue ELSE Head(AttrsNamed(attrs, key)).val

\* Counts add up to the largest u64; a negative one, a text that is no count or another type ends the sum.
IsCount(val) == val.t \in {"int", "digits"} /\ val.v >= 0
saturating_add(a, b) == Min({a + b, TokenCap})
sum_u64_attr(attrs, key) ==
    LET found == AttrsNamed(attrs, key)
    IN  IF \A i \in DOMAIN found : IsCount(found[i].val)
        THEN FoldLeft(LAMBDA sum, kv : saturating_add(sum, kv.val.v), 0, found)
        ELSE -1

extract_tool_calls(list, table) ==
    LET named == SelectSeq([i \in DOMAIN list |-> [at |-> i, span |-> list[i]]],
                           LAMBDA p : p.span.name = "tool" /\ AttrsNamed(p.span.attrs, table.tool) # <<>>)
    IN  [i \in DOMAIN named |->
            [name |-> first_string_attr(named[i].span.attrs, table.tool),
             id |-> IF AttrsNamed(named[i].span.attrs, table.id) = <<>> THEN [t |-> "span", v |-> named[i].at]
                    ELSE first_string_attr(named[i].span.attrs, table.id),
             args |-> first_string_attr(named[i].span.attrs, table.args)]]

total_duration(list) == FoldLeft(LAMBDA sum, span : sum + span.lasts, 0, list)

build_invocation(list, table, model, input, output) ==
    [is |-> "invocation", table |-> table, model |-> model, input |-> input, output |-> output,
     total |-> saturating_add(input, output), calls |-> extract_tool_calls(list, table),
     response |-> first_string_attr(Flat(list), table.response), duration |-> total_duration(list)]

MapModel(attrs, table) ==
    LET known == SelectSeq(table.models, LAMBDA key : first_string_attr(attrs, key) # NoValue)
    IN  IF known = <<>> THEN NoValue ELSE first_string_attr(attrs, Head(known))

MappingError(reason) == [is |-> "error", why |-> reason]
map(raw, table) ==
    LET attrs == Flat(raw.list)
        input == sum_u64_attr(attrs, table.input)
        output == sum_u64_attr(attrs, table.output)
    IN  IF first_string_attr(attrs, table.system) = NoValue \/ MapModel(attrs, table) = NoValue
        THEN MappingError("MissingAttribute")
        ELSE IF input < 0 \/ output < 0 THEN MappingError("InvalidAttribute")
        ELSE build_invocation(raw.list, table, MapModel(attrs, table), input, output)

-----------------------------------------------------------------------------
(* Extractors. *)

HandoffTool == "transfer_to_agent"
tool_level_extract(list) ==
    FlattenSeq([t \in DOMAIN list |-> [c \in DOMAIN list[t].calls |-> [turn |-> t, call |-> list[t].calls[c]]]])

Closed(c) == [out |-> IF c.cohort = <<>> THEN c.out ELSE Append(c.out, c.cohort), cohort |-> <<>>]

\* The swarm extractor ends a cohort after the turn that hands off.
fires_handoff(turn) == \E i \in DOMAIN turn.calls : turn.calls[i] = HandoffTool
swarm_extract(c, turn) ==
    LET joined == [c EXCEPT !.cohort = Append(@, turn)]
    IN  IF fires_handoff(turn) THEN Closed(joined) ELSE joined

\* The graph extractor ends one before the turn of another node.
graph_extract(c, turn) ==
    IF c.cohort # <<>> /\ c.cohort[1].node = turn.node
    THEN [c EXCEPT !.cohort = Append(@, turn)]
    ELSE [out |-> Closed(c).out, cohort |-> <<turn>>]

-----------------------------------------------------------------------------
(* RFC 3339 times, in minutes after the epoch; the offset is the zone the text is written in. *)

days_from_civil(y0, m, d) ==
    LET y == IF m <= 2 THEN y0 - 1 ELSE y0
        yoe == y % 400
        doy == (153 * (IF m > 2 THEN m - 3 ELSE m + 9) + 2) \div 5 + d - 1
    IN  (y \div 400) * 146097 + (yoe * 365 + yoe \div 4 - yoe \div 100 + doy) - 719468

parse_tz_offset(sign, h, m) == sign * (h * 60 + m)

\* "none" for an instant before the epoch.
parse_rfc3339(date, minute, zone) ==
    LET total == days_from_civil(date.y, date.m, date.d) * 1440 + minute
                 - parse_tz_offset(zone[1], zone[2], zone[3])
    IN  IF total < 0 THEN -1 ELSE total

-----------------------------------------------------------------------------
TraceInit ==
    /\ subject \in {"ingest", "extract", "calendar"}
    /\ provider \in IF subject = "ingest" THEN Providers ELSE {"memory"}
    /\ spans = <<>> /\ fetched = Nothing /\ mapped = Nothing
    /\ turns = <<>> /\ swarm = [out |-> <<>>, cohort |-> <<>>] /\ graph = swarm
    /\ day \in IF subject = "calendar" THEN {[at |-> a, walked |-> 0] : a \in Anchors}
               ELSE {[at |-> CHOOSE a \in Anchors : TRUE, walked |-> 0]}

ingestFrame == UNCHANGED <<subject, provider, turns, swarm, graph, day>>

\* The traced agent starts a span; the session may be named by the span, its resource or both.
StartSpan ==
    /\ subject = "ingest" /\ Len(spans) < MaxSpans
    /\ \E shape \in SpanShapes, own \in TraceSessions, shared \in TraceSessions \cup {0} :
        spans' = Append(spans, [shape |-> shape, own |-> own, shared |-> shared, end |-> "open"])
    /\ ingestFrame /\ UNCHANGED <<fetched, mapped>>

EndSpan ==
    /\ subject = "ingest"
    /\ \E i \in DOMAIN spans, end \in Ends \ {"open"} :
        spans[i].end = "open" /\ spans' = [spans EXCEPT ![i].end = end]
    /\ ingestFrame /\ UNCHANGED <<fetched, mapped>>

\* The service may also fail on its own: no connection, a status, a body that does not parse.
Fetch ==
    /\ subject = "ingest" /\ fetched = Nothing
    /\ \E s \in TraceSessions : fetched' \in fetch_session(s) \cup {Refusal("BackendFailure")}
    /\ ingestFrame /\ UNCHANGED <<spans, mapped>>

Map ==
    /\ fetched.is = "session" /\ mapped = Nothing
    /\ \E table \in Conventions : mapped' = map(fetched, table)
    /\ ingestFrame /\ UNCHANGED <<spans, fetched>>

ReadTurn ==
    /\ subject = "extract" /\ Len(turns) < MaxTraceTurns
    /\ \E turn \in TurnShapes :
        /\ turns' = Append(turns, turn)
        /\ swarm' = swarm_extract(swarm, turn)
        /\ graph' = graph_extract(graph, turn)
    /\ UNCHANGED <<subject, provider, spans, fetched, mapped, day>>

-----------------------------------------------------------------------------
(* The calendar the arithmetic is compared with. *)
Leap(y) == y % 4 = 0 /\ (y % 100 # 0 \/ y % 400 = 0)
MonthDays(y, m) == CASE m = 2 -> IF Leap(y) THEN 29 ELSE 28 [] m \in {4, 6, 9, 11} -> 30 [] OTHER -> 31
Tomorrow(a) ==
    IF a.d < MonthDays(a.y, a.m) THEN [a EXCEPT !.d = @ + 1, !.n = @ + 1]
    ELSE IF a.m < 12 THEN [a EXCEPT !.m = @ + 1, !.d = 1, !.n = @ + 1]
    ELSE [y |-> a.y + 1, m |-> 1, d |-> 1, n |-> a.n + 1]
Yesterday(a) ==
    IF a.d > 1 THEN [a EXCEPT !.d = @ - 1, !.n = @ - 1]
    ELSE IF a.m > 1 THEN [a EXCEPT !.m = @ - 1, !.d = MonthDays(a.y, a.m - 1), !.n = @ - 1]
    ELSE [y |-> a.y - 1, m |-> 12, d |-> 31, n |-> a.n - 1]

WalkDay ==
    /\ subject = "calendar" /\ day.walked < WalkDays
    /\ day' = [at |-> Tomorrow(day.at), walked |-> day.walked + 1]
    /\ UNCHANGED <<subject, provider, spans, fetched, mapped, turns, swarm, graph>>

TraceNext == StartSpan \/ EndSpan \/ Fetch \/ Map \/ ReadTurn \/ WalkDay

-----------------------------------------------------------------------------
\* The session's spans, by position, among the first n written.
Members(s, n) == {i \in 1..n : spans[i].own = s \/ (provider = "otlp" /\ spans[i].shared = s)}
Ended(i) == spans[i].end # "open"

(* A fetched session is whole: spans are written and ended while it is read,   *)
(* and what is returned has exactly the session's spans, every one ended.      *)
(* The in-memory exporter never shows an open span: there the session is       *)
(* whole up to the spans that are still running.  OpenSearch is asked for one  *)
(* page: a session with more spans comes back as a full page of them and       *)
(* nothing tells that it is cut (opensearch.rs, against what provider.rs asks  *)
(* of every provider).                                                         *)
Cut(s, n) == provider = "opensearch" /\ Cardinality(Members(s, n)) > HitsLimit
SessionWhole ==
    fetched.is = "session" =>
        LET mine == Members(fetched.session, fetched.count)
            got == Len(fetched.list)
        IN  CASE provider = "memory" -> got \in 1..Cardinality(mine) /\ \A i \in 1..got : fetched.list[i].lasts > 0
              [] Cut(fetched.session, fetched.count) -> got = HitsLimit
              [] OTHER -> got = Cardinality(mine) /\ \A i \in mine : Ended(i)

(* The mapped invocation accounts for all that was fetched: its usage is the   *)
(* sum over every span that reports tokens, no higher than a u64 can hold, its *)
(* calls are the session's tool spans, each once.                              *)
InvocationExact ==
    mapped.is = "invocation" =>
        LET list == fetched.list
            Reports(key) == {p \in UNION {{i} \X DOMAIN list[i].attrs : i \in DOMAIN list} :
                                list[p[1]].attrs[p[2]].key = key}
            Reported(key) == MapThenSumSet(LAMBDA p : list[p[1]].attrs[p[2]].val.v, Reports(key))
        IN  /\ mapped.input = Min({Reported(mapped.table.input), TokenCap})
            /\ mapped.total = Min({Reported(mapped.table.input) + Reported(mapped.table.output), TokenCap})
            /\ Len(mapped.calls) = Cardinality({i \in DOMAIN list : list[i].name = "tool"
                                                    /\ \E p \in Reports(mapped.table.tool) : p[1] = i})

(* The cohorts of both extractors are the turns, each once and in order, cut   *)
(* exactly where a turn handed off or the node changed.                        *)
CohortsExact ==
    /\ FlattenSeq(Closed(swarm).out) = turns
    /\ FlattenSeq(Closed(graph).out) = turns
    /\ \A i \in DOMAIN Closed(swarm).out :
        LET c == Closed(swarm).out[i]
        IN  /\ \A t \in 1..(Len(c) - 1) : ~fires_handoff(c[t])
            /\ i < Len(Closed(swarm).out) => fires_handoff(c[Len(c)])
    /\ \A i \in DOMAIN Closed(graph).out :
        LET c == Closed(graph).out[i]
        IN  /\ \A t \in DOMAIN c : c[t].node = c[1].node
            /\ i > 1 => Closed(graph).out[i - 1][1].node # c[1].node
    /\ [i \in DOMAIN tool_level_extract(turns) |-> tool_level_extract(turns)[i].call]
       = FlattenSeq([t \in DOMAIN turns |-> turns[t].calls])

(* One instant written in two time zones is one instant: the arithmetic agrees *)
(* with the calendar over leap years, centuries and days before the epoch.     *)
InstantsExact ==
    subject = "calendar" =>
        \A minute \in {0, 719, 1439}, zone \in {<<1, 0, 0>>, <<1, 5, 30>>, <<-1, 9, 30>>} :
            LET local == minute + zone[1] * (zone[2] * 60 + zone[3])
                date == IF local < 0 THEN Yesterday(day.at) ELSE IF local >= 1440 THEN Tomorrow(day.at) ELSE day.at
            IN  parse_rfc3339(date, local % 1440, zone) = Max({day.at.n * 1440 + minute, -1})

TracesFaithful == SessionWhole /\ InvocationExact /\ CohortsExact /\ InstantsExact
=============================================================================
