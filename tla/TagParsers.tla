---------------------------- MODULE TagParsers ----------------------------
(***************************************************************************)
(* The parsers a local model's tokens go through (local-llm/src/stream.rs):*)
(* thinking tags ("think": <think> and Gemma's channel tags), Gemma's      *)
(* tagged tool calls ("gemma") and bare calls ("default").  A delimiter    *)
(* may be cut anywhere by the token boundaries, so each parser holds back  *)
(* what could still become one.                                            *)
(*                                                                         *)
(* Texts are sequences of symbols.  A delimiter is as many symbols as it   *)
(* takes to be cut and to share its beginning with others: the opening and *)
(* closing tags both begin with "<", and "c", which begins "call:", is     *)
(* also a letter of names.                                                 *)
(***************************************************************************)
EXTENDS Integers, Sequences, SequencesExt

CONSTANTS MaxText    \* bound on the symbols of the generated text

ASSUME ParsersAssumption == MaxText \in Nat

VARIABLES fed,       \* the text generated so far
          parser     \* the parser that reads it, with what it has put out

parserVars == <<fed, parser>>

Open(kind) == CASE kind = "think" -> <<"<", "t", ">">>
                [] kind = "gemma" -> <<"<", "c">>
                [] kind = "default" -> <<"c", ":">>
Close(kind) == IF kind = "think" THEN <<"<", "/", ">">> ELSE <<"<", ">">>

Symbols(kind) == CASE kind = "think" -> {"<", "t", "/", ">", "x"}
                   [] kind = "gemma" -> {"<", "c", ">", "{", "x"}
                   [] kind = "default" -> {"c", ":", " ", "{", "}", "quote", "escape"}
NameChars == {"c", "x"}

TokenTexts(kind) == {<<a>> : a \in Symbols(kind)}
                \cup {<<a, b>> : a \in Symbols(kind), b \in Symbols(kind)}

ParsersInit ==
  /\ fed = << >>
  /\ \E kind \in {"think", "gemma", "default"} :
       parser = [kind |-> kind, mode |-> "out", partial |-> FALSE, buf |-> << >>,
                 name |-> << >>, args |-> << >>, depth |-> 0, quoted |-> FALSE,
                 escaped |-> FALSE, text |-> << >>, thinking |-> << >>, calls |-> << >>]

-----------------------------------------------------------------------------
From(s, i) == SubSeq(s, i, Len(s))
Before(s, i) == SubSeq(s, 1, i - 1)
StartsWith(s, d) == Len(s) >= Len(d) /\ SubSeq(s, 1, Len(d)) = d
(* The first place of d in s, 0 when there is none. *)
Find(s, d) ==
  LET at == {i \in 1 .. Len(s) : StartsWith(From(s, i), d)}
  IN  IF at = {} THEN 0 ELSE CHOOSE i \in at : \A j \in at : i <= j

(* The longest end of s that begins d without being all of it. *)
partial_prefix_at_end(s, d) ==
  LET fits == {n \in 1 .. Len(d) - 1 : n <= Len(s) /\ StartsWith(d, From(s, Len(s) - n + 1))}
  IN  IF fits = {} THEN 0 ELSE CHOOSE n \in fits : \A m \in fits : m <= n

Delim(p) == IF p.mode \in {"in", "args"} THEN Close(p.kind) ELSE Open(p.kind)

Sink(p, s) ==
  CASE p.mode = "in" -> [p EXCEPT !.thinking = @ \o s]
    [] p.mode = "args" -> [p EXCEPT !.args = @ \o s]
    [] OTHER -> [p EXCEPT !.text = @ \o s]

Forget(p) == [p EXCEPT !.name = << >>, !.args = << >>, !.depth = 0, !.quoted = FALSE,
                       !.escaped = FALSE]
Calls(p) == [Forget(p) EXCEPT !.calls = Append(@, [name |-> p.name, args |-> p.args]),
                              !.mode = "out"]

(* The delimiter of p's mode has been read. *)
Matched(p) ==
  CASE p.kind = "think" -> [p EXCEPT !.mode = IF @ = "in" THEN "out" ELSE "in"]
    [] p.mode = "out" -> [Forget(p) EXCEPT !.mode = "name"]
    [] p.mode = "args" -> Calls(p)

flush_invalid_call(p) ==
  [Forget(p) EXCEPT !.text = @ \o Open(p.kind) \o p.name, !.mode = "out"]

(* The arguments of a bare call end where their braces balance outside of  *)
(* strings: one symbol at a time.                                          *)
consume_arg(p) ==
  LET c == Head(p.buf)
      q == [p EXCEPT !.buf = Tail(@), !.args = Append(@, c), !.escaped = FALSE]
      depth == IF c = "{" THEN p.depth + 1 ELSE IF c = "}" /\ p.depth > 0 THEN p.depth - 1
               ELSE p.depth
  IN  CASE p.escaped -> q
        [] p.quoted -> [q EXCEPT !.escaped = (c = "escape"), !.quoted = (c # "quote")]
        [] c = "quote" -> [q EXCEPT !.quoted = TRUE]
        [] c = "}" /\ depth = 0 -> Calls(q)
        [] OTHER -> [q EXCEPT !.depth = depth]

RECURSIVE Scan(_)

(* A name ends at the brace that opens the arguments; in a bare call it    *)
(* has name characters only.                                               *)
ScanName(p) ==
  LET brace == Find(p.buf, <<"{">>)
      candidate == Before(p.buf, brace)
      named == [p EXCEPT !.name = @ \o candidate, !.buf = From(@, brace), !.mode = "args"]
      strange == {i \in DOMAIN p.buf : p.buf[i] \notin NameChars}
      first == CHOOSE i \in strange : \A j \in strange : i <= j
  IN  IF brace # 0
      THEN IF p.kind = "gemma" THEN Scan(named)
           ELSE IF \E i \in DOMAIN candidate : candidate[i] \notin NameChars
           THEN Scan(flush_invalid_call(p))
           ELSE IF named.name = << >> THEN Scan(flush_invalid_call(p))
           ELSE Scan(named)
      ELSE IF p.kind = "gemma" \/ strange = {}
      THEN [p EXCEPT !.name = @ \o p.buf, !.buf = << >>]
      ELSE Scan(flush_invalid_call([p EXCEPT !.name = @ \o Before(p.buf, first),
                                             !.buf = From(@, first)]))

Scan(p) ==
  LET d == Delim(p)
      n == partial_prefix_at_end(p.buf, d)
      at == Find(p.buf, d)
  IN  CASE p.partial ->
             IF StartsWith(p.buf, d)
             THEN Scan(Matched([p EXCEPT !.buf = From(@, Len(d) + 1), !.partial = FALSE]))
             ELSE IF Len(p.buf) < Len(d) /\ StartsWith(d, p.buf) THEN p
             ELSE Scan([p EXCEPT !.partial = FALSE])
        [] p.mode = "name" -> ScanName(p)
        [] p.mode = "args" /\ p.kind = "default" ->
             IF p.buf = << >> THEN p ELSE Scan(consume_arg(p))
        [] OTHER ->
             IF at # 0
             THEN Scan(Matched([Sink(p, Before(p.buf, at)) EXCEPT !.buf = From(@, at + Len(d))]))
             ELSE IF n # 0
             THEN [Sink(p, Before(p.buf, Len(p.buf) - n + 1)) EXCEPT
                     !.buf = From(@, Len(p.buf) - n + 1), !.partial = TRUE]
             ELSE [Sink(p, p.buf) EXCEPT !.buf = << >>]

process(p, token) == Scan([p EXCEPT !.buf = @ \o token])

(* What is held back when the text ends: an unfinished call is text, or,   *)
(* when the token limit has cut it, a call with the arguments so far.      *)
(* With nothing held back there is nothing to put out, so an opening       *)
(* marker that is the last thing in the text is lost.                      *)
NothingHeld(p) == p.buf = << >> /\ p.name = << >> /\ p.args = << >>

finish(p, length) ==
  CASE NothingHeld(p) -> IF p.kind = "think" THEN p ELSE [p EXCEPT !.mode = "out"]
    [] ~NothingHeld(p) /\ length /\ p.mode = "args" /\ p.name # << >> ->
         [Calls(p) EXCEPT !.buf = << >>]
    [] OTHER ->
         [Forget(p) EXCEPT
            !.thinking = IF p.mode = "in" THEN @ \o p.buf ELSE @,
            !.text = CASE p.mode = "in" -> @
                       [] p.mode = "out" -> @ \o p.buf
                       [] OTHER -> @ \o Open(p.kind) \o p.name \o p.args \o p.buf,
            !.buf = << >>, !.mode = "out", !.partial = FALSE]

Feed(token) ==
  /\ Len(fed) + Len(token) <= MaxText
  /\ fed' = fed \o token /\ parser' = process(parser, token)

ParsersNext == \E token \in TokenTexts(parser.kind) : Feed(token)
ParsersSpec == ParsersInit /\ [][ParsersNext]_parserVars

-----------------------------------------------------------------------------
(* The whole text cut at its delimiters, one after the other. *)
RECURSIVE SplitTags(_, _)
SplitTags(s, inside) ==
  LET d == IF inside THEN Close("think") ELSE Open("think")
      at == Find(s, d)
      rest == SplitTags(From(s, at + Len(d)), ~inside)
      Put(piece, r) == IF inside THEN [r EXCEPT !.thinking = piece \o @]
                       ELSE [r EXCEPT !.text = piece \o @]
  IN  IF at = 0 THEN Put(s, [text |-> << >>, thinking |-> << >>, calls |-> << >>])
      ELSE Put(Before(s, at), rest)

RECURSIVE SplitCalls(_)
SplitCalls(s) ==
  LET at == Find(s, Open("gemma"))
      body == From(s, at + 2)
      brace == Find(body, <<"{">>)
      args == From(body, brace)
      end == Find(args, Close("gemma"))
      rest == SplitCalls(From(args, end + 2))
      OnlyText(x) == [text |-> x, thinking |-> << >>, calls |-> << >>]
  IN  IF at # 0 /\ body = << >> THEN OnlyText(Before(s, at))
      ELSE IF at = 0 \/ brace = 0 \/ end = 0 THEN OnlyText(s)
      ELSE [rest EXCEPT !.text = Before(s, at) \o @,
                        !.calls = <<[name |-> Before(body, brace),
                                     args |-> Before(args, end)]>> \o @]

Reference(kind, s) == IF kind = "think" THEN SplitTags(s, FALSE) ELSE SplitCalls(s)

RECURSIVE Total(_)
Total(calls) ==
  IF calls = << >> THEN 0
  ELSE Len(Open("default")) + Len(Head(calls).name) + Len(Head(calls).args) + Total(Tail(calls))

(* However the text is cut into tokens, a parser puts out what the whole   *)
(* text says: the same text, thinking and calls (thinking tags, Gemma      *)
(* calls), and for bare calls, where a call may begin inside what began as *)
(* another one, every symbol once, an opening marker at the very end       *)
(* excepted (process and finish of the four parsers,                       *)
(* partial_prefix_at_end).                                                 *)
TokenBoundariesHidden ==
  LET p == finish(parser, FALSE)
      cut == finish(parser, TRUE)
      Shown(q) == Len(q.text) + Total(q.calls)
      EndsWithOpen == Len(fed) >= 2 /\ From(fed, Len(fed) - 1) = Open("default")
  IN  IF p.kind = "default"
      THEN /\ Shown(p) = Shown(cut)
           /\ \/ Shown(p) = Len(fed)
              \/ EndsWithOpen /\ Shown(p) = Len(fed) - Len(Open("default"))
      ELSE [text |-> p.text, thinking |-> p.thinking, calls |-> p.calls] = Reference(p.kind, fed)
=============================================================================
