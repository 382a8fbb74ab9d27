--------------------------- MODULE ContextWindow ---------------------------
(***************************************************************************)
(* What a turn sends to the model: the sliding window over the history     *)
(* (src/src/context.rs, context_transformer.rs), the versions kept of what *)
(* it drops (context_version.rs), the injected summary (memory/src/        *)
(* compaction.rs), and the cache hints whose recorded prefix widens the    *)
(* window's anchor (context_cache.rs, loop_/turn.rs, loop_/stream.rs).     *)
(*                                                                         *)
(* A message is [id, kind, of, calls, size]: a result names the assistant  *)
(* message whose call it answers, `size` is its token count.               *)
(***************************************************************************)
EXTENDS Naturals, SequencesExt, FiniteSetsExt

CONSTANTS Transformers,    \* kinds the configuration may choose from
          Anchor,          \* first messages kept
          Budget,          \* normal_budget
          OverflowBudget,  \* overflow_budget
          Sizes,           \* token counts of a message
          MinTokens,       \* cache_config.min_tokens
          CacheIntervals,  \* cache_config.cache_intervals
          MaxMessages      \* bound on the messages appended

ASSUME WindowAssumption == Anchor \in Nat /\ Budget \in Nat /\ CacheIntervals \in Nat

VARIABLES history,    \* context_messages
          versions,   \* what each saved ContextVersion holds
          summary,    \* a summary is stored for the next compaction
          cache,      \* CacheState and whether caching is configured
          published,  \* published_prefix of the transformer
          transformer,
          phase,      \* "idle", "turn" (before the request), "sent"
          attempted,  \* overflow_recovery_attempted
          made,       \* messages appended so far
          said        \* history variable: ids of those that are not custom

windowVars == <<history, versions, summary, cache, published, transformer, phase, attempted,
                made, said>>

Tokens(s) == FoldSeq(LAMBDA m, total : m.size + total, 0, s)
IsResult(s, i) == i \in 1 .. Len(s) /\ s[i].kind = "result"

-----------------------------------------------------------------------------
(* compact_sliding_window_with *)
(* An anchor that ends inside a group of results, or on the call they      *)
(* answer, is widened to the end of the group.                             *)
\* mutant: the anchor is taken as configured
configured_anchor(s, anchor) == anchor
extend_anchor_for_tool_results(s, anchor) ==
  LET callers == {i \in 1 .. anchor : ~IsResult(s, i)}
      caller == Max(callers)
      group == Max({e \in caller .. Len(s) :
                      \A i \in caller + 1 .. e : IsResult(s, i) /\ s[i].of = s[caller].id})
  IN IF anchor = 0 \/ anchor >= Len(s) \/ callers = {} THEN anchor
     ELSE IF s[caller].calls = 0 THEN anchor
     ELSE Max({anchor, group})

(* The first kept message of the tail, Len + 1 when nothing fits.          *)
FirstThatFits(s, anchor, room) ==
  Min({i \in anchor + 1 .. Len(s) + 1 : Tokens(SubSeq(s, i, Len(s))) <= room})

AtCall(s, anchor, fits) ==
  IF fits > Len(s) THEN fits
  ELSE Max({i \in anchor + 1 .. fits : i = anchor + 1 \/ ~IsResult(s, i)})

saturating_sub(m, n) == IF m > n THEN m - n ELSE 0

TailStart(s, anchor, budget) ==
  AtCall(s, anchor,
         FirstThatFits(s, anchor, saturating_sub(budget, Tokens(SubSeq(s, 1, anchor)))))

(* What is dropped: [first, last], empty when nothing is. *)
Between(kept, tail) ==
  IF tail <= kept + 1 THEN [first |-> 1, last |-> 0] ELSE [first |-> kept + 1, last |-> tail - 1]

CutAfter(s, budget, kept) ==
  IF Tokens(s) <= budget THEN [first |-> 1, last |-> 0]
  ELSE Between(kept, TailStart(s, kept, budget))

compact_sliding_window_with(s, budget, anchor) ==
  CutAfter(s, budget, extend_anchor_for_tool_results(s, Min({anchor, Len(s)})))

Remaining(s, cut) == SubSeq(s, 1, cut.first - 1) \o SubSeq(s, cut.last + 1, Len(s))
Cut(s, cut) == SubSeq(s, cut.first, cut.last)

-----------------------------------------------------------------------------
BudgetFor(overflow) == IF overflow THEN OverflowBudget ELSE Budget

(* SlidingWindowTransformer::transform, plain or inside a                  *)
(* VersioningTransformer, whose wrapper hides it from the publication.     *)
WindowAnchor(prefix) == IF prefix > Anchor THEN prefix ELSE Anchor

Versioned(dropped) ==
  IF transformer = "versioned" /\ dropped # <<>> THEN Append(versions, dropped) ELSE versions

Windowed(cut) ==
  [history |-> Remaining(history, cut), compacted |-> cut.last > 0, summary |-> summary,
   versions |-> Versioned(SelectSeq(Cut(history, cut), LAMBDA m : m.kind # "custom"))]

transform_window(overflow, prefix) ==
  Windowed(compact_sliding_window_with(history, BudgetFor(overflow), WindowAnchor(prefix)))

(* SummarizingCompactor::compaction_fn behind the closure's transform: the *)
(* summary goes in at the configured anchor, and a history that is not     *)
(* shorter afterwards counts as not compacted.                             *)
Summary == [id |-> 0, kind |-> "assistant", of |-> 0, calls |-> 0, size |-> 1]

Summarized(short, injects) ==
  [history |-> IF injects THEN InsertAt(short, Min({Anchor, Len(short)}) + 1, Summary) ELSE short,
   compacted |-> Len(short) + (IF injects THEN 1 ELSE 0) < Len(history),
   summary |-> summary /\ ~injects, versions |-> versions]

CutAndSummarized(cut) == Summarized(Remaining(history, cut), cut.last > 0 /\ summary)

transform_summarizing(overflow) ==
  CutAndSummarized(compact_sliding_window_with(history, BudgetFor(overflow), Anchor))

run_context_transformers(overflow, prefix) ==
  IF transformer = "summarizing" THEN transform_summarizing(overflow)
  ELSE transform_window(overflow, prefix)

Transformed(t) ==
  history' = t.history /\ versions' = t.versions /\ summary' = t.summary

-----------------------------------------------------------------------------
(* The cache: [on, since, prefix]. *)
advance_turn == IF cache.since = 0 \/ cache.since >= CacheIntervals
                THEN [hint |-> "write", since |-> 1]
                ELSE [hint |-> "read", since |-> cache.since + 1]

(* The hints of a turn over the transformed history.  Below the threshold  *)
(* nothing is recorded, on a write either.                                 *)
Annotated(h) ==
  LET turn == advance_turn
      clamped == IF cache.prefix > Len(h) THEN Len(h) ELSE cache.prefix
      prefix == IF turn.hint = "write" THEN Len(h) ELSE clamped
  IN IF ~cache.on THEN cache
     ELSE IF prefix > 0 /\ Tokens(SubSeq(h, 1, prefix)) >= MinTokens
     THEN [cache EXCEPT !.since = turn.since, !.prefix = prefix]
     ELSE [cache EXCEPT !.since = turn.since]

-----------------------------------------------------------------------------
WindowInit ==
  /\ history = <<>> /\ versions = <<>> /\ summary = FALSE
  /\ \E on \in BOOLEAN : cache = [on |-> on, since |-> 0, prefix |-> 0]
  /\ published = 0 /\ transformer \in Transformers
  /\ phase = "idle" /\ attempted = FALSE
  /\ made = 0 /\ said = {}

NewMessage(n, kind, of, calls, size) ==
  [id |-> n, kind |-> kind, of |-> of, calls |-> calls, size |-> size]

(* A prompt begins a run, with a cache state of its own; a custom message  *)
(* may come with it.                                                       *)
Prompt ==
  /\ phase = "idle" /\ made < MaxMessages
  /\ \E size \in Sizes, kind \in {"user", "custom"} :
       /\ history' = Append(history, NewMessage(made + 1, kind, 0, 0, size))
       /\ said' = IF kind = "user" THEN said \cup {made + 1} ELSE said
  /\ made' = made + 1
  /\ cache' = [cache EXCEPT !.since = 0, !.prefix = 0]
  /\ phase' = "turn"
  /\ UNCHANGED <<versions, summary, published, transformer, attempted>>

Ids(s) == {s[i].id : i \in DOMAIN s}

(* run_single_turn up to the request: publish the recorded prefix,         *)
(* transform, annotate, send.                                              *)
published_prefix == IF cache.prefix > Len(history) THEN Len(history) ELSE cache.prefix

Turn ==
  /\ phase = "turn"
  /\ published' = IF cache.on /\ transformer = "window" THEN published_prefix ELSE published
  /\ Transformed(run_context_transformers(FALSE, published'))
  /\ cache' = Annotated(history')
  /\ attempted' = FALSE
  /\ phase' = "sent"
  /\ UNCHANGED <<transformer, made, said>>

(* attempt_overflow_recovery; a failed one ends the run with an error      *)
(* message in the history.                                                 *)
OverflowFails(h) ==
  /\ history' = Append(h, NewMessage(made + 1, "assistant", 0, 0, 0))
  /\ made' = made + 1 /\ said' = said \cup {made + 1}
  /\ phase' = "idle"

Recovered(t) ==
  /\ versions' = t.versions /\ summary' = t.summary
  /\ IF t.compacted THEN history' = t.history /\ UNCHANGED <<made, said, phase>>
     ELSE OverflowFails(t.history)

Overflow ==
  /\ phase = "sent" /\ made < MaxMessages
  /\ \/ ~attempted /\ Recovered(run_context_transformers(TRUE, published))
     \/ attempted /\ OverflowFails(history) /\ UNCHANGED <<versions, summary>>
  /\ attempted' = TRUE
  /\ UNCHANGED <<cache, published, transformer>>

(* The reply: text ends the run, calls are answered and the next turn      *)
(* begins.                                                                 *)
Reply ==
  /\ phase = "sent"
  /\ \E calls \in 0 .. 2 :
       /\ made + 1 + calls <= MaxMessages
       /\ \E size \in Sizes :
            history' =
              history \o <<NewMessage(made + 1, "assistant", 0, calls, size)>>
                \o [i \in 1 .. calls |-> NewMessage(made + 1 + i, "result", made + 1, 0, size)]
       /\ made' = made + 1 + calls
       /\ said' = said \cup made + 1 .. made + 1 + calls
       /\ phase' = IF calls > 0 THEN "turn" ELSE "idle"
  /\ UNCHANGED <<versions, summary, cache, published, transformer, attempted>>

(* handle_stream_error and prepare_cache_miss_retry: the request goes out  *)
(* again as a write, the recorded prefix, if there is one, is restored.    *)
CacheMiss ==
  /\ phase = "sent" /\ cache.on
  /\ cache' = [cache EXCEPT !.since = IF cache.prefix > 0 THEN 1 ELSE 0]
  /\ UNCHANGED <<history, versions, summary, published, transformer, phase, attempted,
                 made, said>>

(* Agent::compact_context, between runs. *)
CompactContext ==
  /\ phase = "idle" /\ Transformed(run_context_transformers(TRUE, published))
  /\ UNCHANGED <<cache, published, transformer, phase, attempted, made, said>>

SetSummary ==
  /\ transformer = "summarizing" /\ ~summary /\ summary' = TRUE
  /\ UNCHANGED <<history, versions, cache, published, transformer, phase, attempted, made,
                 said>>

WindowNext == Prompt \/ Turn \/ Overflow \/ Reply \/ CacheMiss
              \/ CompactContext \/ SetSummary

WindowSpec == WindowInit /\ [][WindowNext]_windowVars

-----------------------------------------------------------------------------
(* However the history is compacted, by turns, overflows or the host, a    *)
(* call stays with its results: they follow it at once, all of them        *)
(* (compact_sliding_window_with, extend_anchor_for_tool_results).          *)
PairsKept ==
  \A i \in DOMAIN history :
    /\ IsResult(history, i) =>
         \E c \in 1 .. i - 1 : /\ history[c].id = history[i].of
                               /\ \A j \in c + 1 .. i : IsResult(history, j)
    /\ \A k \in 1 .. history[i].calls : IsResult(history, i + k)

(* With versions kept, nothing the model once saw is lost or kept twice:   *)
(* every message of the conversation is in the history or in exactly one   *)
(* version (VersioningTransformer::transform).                             *)
VersionsComplete ==
  LET places(n) == {v \in DOMAIN versions : n \in Ids(versions[v])}
                     \cup {0 : i \in {i \in DOMAIN history : history[i].id = n}}
  IN transformer = "versioned" => \A n \in said : Cardinality(places(n)) = 1
=============================================================================
