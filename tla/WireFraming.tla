----------------------------- MODULE WireFraming -----------------------------
(***************************************************************************)
(* How the adapters cut a response body into lines and events, over every  *)
(* way the network may cut it into chunks: SseStreamParser and the line    *)
(* streams of src/adapters/src/sse.rs, ndjson_lines of ollama.rs.          *)
(*                                                                         *)
(* A byte is a symbol: "data" and "event" stand for the field names with   *)
(* their colon and optional blank, "colon" for a comment's, "DONE" for     *)
(* [DONE], "x" and "y" for text ("y" closes a JSON value), "u1" "u2" for   *)
(* the two bytes of one character, "bad" for one that is never UTF-8.      *)
(***************************************************************************)
EXTENDS Integers, Sequences, SequencesExt

CONSTANT Bodies  \* the response bodies a server may send

ASSUME FramingAssumption ==
  \A b \in Bodies : b \in Seq({"data", "event", "colon", "DONE", "x", "y",
                               "u1", "u2", "bad", "cr", "nl"})

VARIABLES
  format,   \* "sse" or "ndjson"
  body,     \* what the server sends
  fed,      \* how much of it the parser has been given
  frame,    \* the parser
  lines,    \* what it has yielded
  bodyEnd   \* "open", "eof" or "broken"

framingVars == <<format, body, fed, frame, lines, bodyEnd>>

NoData == <<"none">>
NewParser == [buffer |-> <<>>, carry |-> <<>>, pending |-> NoData, poisoned |-> FALSE]
-----------------------------------------------------------------------------
(* Decoding.  A prefix is good while "u1" and "u2" come in pairs; what is  *)
(* left is an incomplete character, or bytes that never become one.        *)
GoodUpTo(s) ==
  LET Good(n) == \A i \in 1..n :
        /\ s[i] # "bad"
        /\ s[i] = "u1" => i < n /\ s[i + 1] = "u2"
        /\ s[i] = "u2" => i > 1 /\ s[i - 1] = "u1"
  IN  CHOOSE n \in 0..Len(s) : Good(n) /\ \A m \in (n + 1)..Len(s) : ~Good(m)
Incomplete(rest) == rest = <<"u1">>

Trim(s) == SelectSeq(s, LAMBDA c : c \notin {"cr", "nl"})
StripCr(line) == IF line # <<>> /\ Last(line) = "cr" THEN Front(line) ELSE line

(* process_raw_line(): pending data goes out before anything but a comment *)
(* or more data.                                                           *)
Flushed(p) == IF p.pending = NoData THEN <<>> ELSE << <<"Data", p.pending>> >>
Yield(p, out) == [p |-> [p EXCEPT !.pending = NoData], out |-> Flushed(p) \o out]

process_raw_line(p, line) ==
  IF line = <<>> THEN Yield(p, << <<"Empty", <<>> >> >>)
  ELSE LET value == Tail(line)
       IN  CASE line[1] = "colon" -> [p |-> p, out |-> <<>>]
             [] line[1] = "event" -> Yield(p, << <<"Event", value>> >>)
             [] line[1] = "data" /\ value = <<"DONE">> -> Yield(p, << <<"Done", <<>> >> >>)
             [] line[1] = "data" /\ value # <<"DONE">> ->
                  [p |-> IF value = <<>> THEN p
                         ELSE [p EXCEPT !.pending = IF @ = NoData THEN value
                                                    ELSE @ \o <<"nl">> \o value],
                   out |-> <<>>]
             [] OTHER -> Yield(p, <<>>)

(* The complete lines of a text, and what follows the last newline.        *)
NlAt(s) == SelectSeq([i \in 1..Len(s) |-> i], LAMBDA i : s[i] = "nl")
LinesOf(s) == LET ends == NlAt(s)
              IN  [k \in 1..Len(ends) |->
                     SubSeq(s, IF k = 1 THEN 1 ELSE ends[k - 1] + 1, ends[k] - 1)]
RestOf(s) == LET ends == NlAt(s)
             IN  IF ends = <<>> THEN s ELSE SubSeq(s, Last(ends) + 1, Len(s))

Process(p, ls) ==
  FoldLeft(LAMBDA acc, l : LET r == process_raw_line(acc.p, l)
                           IN  [p |-> r.p, out |-> acc.out \o r.out],
           [p |-> p, out |-> <<>>], ls)

drain_lines(p) ==
  LET ls == LinesOf(p.buffer)
  IN  Process([p EXCEPT !.buffer = RestOf(p.buffer)], [k \in 1..Len(ls) |-> StripCr(ls[k])])

protocol_error(p) == [p |-> [NewParser EXCEPT !.poisoned = TRUE],
                      out |-> Flushed(p) \o << <<"ProtocolError", <<>> >> >>]

feed_lossy(p, bytes) ==
  LET all == p.carry \o bytes
  IN  drain_lines([p EXCEPT !.buffer = @ \o SubSeq(all, 1, GoodUpTo(all)), !.carry = <<>>])

(* feed(): complete lines are yielded, even before a corrupt byte.         *)
feed(p, bytes) ==
  LET all  == p.carry \o bytes
      n    == GoodUpTo(all)
      rest == SubSeq(all, n + 1, Len(all))
      r    == drain_lines([p EXCEPT !.buffer = @ \o SubSeq(all, 1, n), !.carry = <<>>])
      bad  == protocol_error(r.p)
  IN  CASE p.poisoned -> [p |-> p, out |-> <<>>]
        [] ~p.poisoned /\ (rest = <<>> \/ Incomplete(rest)) ->
             [r EXCEPT !.p.carry = rest]
        [] OTHER -> [p |-> bad.p, out |-> r.out \o bad.out]
(* flush(): an unfinished last line counts as a line.                      *)
flush(p) ==
  CASE p.poisoned -> [p |-> p, out |-> <<>>]
    [] ~p.poisoned /\ p.carry # <<>> -> protocol_error(p)
    [] OTHER -> LET r == IF Trim(p.buffer) = <<>> THEN [p |-> p, out |-> <<>>]
                         ELSE process_raw_line(p, p.buffer)
                IN  [p |-> [r.p EXCEPT !.buffer = <<>>, !.pending = NoData],
                     out |-> r.out \o Flushed(r.p)]

(* sse_paired_events(): data gets the name of the event line before it in  *)
(* its block.                                                              *)
sse_paired_events(out) ==
  FoldLeft(LAMBDA acc, l :
             CASE l[1] \in {"Empty", "Done"} -> [acc EXCEPT !.event = NoData]
               [] l[1] = "Event" -> [acc EXCEPT !.event = l[2]]
               [] l[1] = "Data" -> [event |-> NoData, evs |-> Append(acc.evs, <<acc.event, l[2]>>)]
               [] OTHER -> [acc EXCEPT !.evs = Append(@, <<l, <<>> >>)],
           [event |-> NoData, evs |-> <<>>], out).evs

(* sse_data_lines(): what an adapter without event names sees.             *)
sse_data_lines(out) == SelectSeq(out, LAMBDA l : l[1] \notin {"Event", "Empty"})

(* ndjson_lines(): lines that are not empty, up to the first that is not   *)
(* text; at the end an unfinished frame must be complete JSON.             *)
IsText(s) == GoodUpTo(s) = Len(s)
IsJson(s) == Last(s) = "y"
NdFail == << <<"Error", <<>> >> >>

NdFeed(p, bytes) ==
  LET text == p.buffer \o bytes
      ls   == SelectSeq([k \in 1..Len(LinesOf(text)) |-> StripCr(LinesOf(text)[k])],
                        LAMBDA l : l # <<>>)
      good == SelectSeq([k \in 1..Len(ls) |-> k], LAMBDA k : \A j \in 1..k : IsText(ls[j]))
      out  == [k \in 1..Len(good) |-> <<"Data", ls[k]>>]
  IN  CASE p.poisoned -> [p |-> p, out |-> <<>>]
        [] ~p.poisoned /\ Len(good) = Len(ls) -> [p |-> [p EXCEPT !.buffer = RestOf(text)], out |-> out]
        [] OTHER -> [p |-> [NewParser EXCEPT !.poisoned = TRUE], out |-> out \o NdFail]

NdEnd(p, how) ==
  LET last == StripCr(p.buffer)
  IN  CASE p.poisoned \/ (how = "eof" /\ Trim(p.buffer) = <<>>) -> [p |-> p, out |-> <<>>]
        [] ~p.poisoned /\ how = "eof" /\ Trim(p.buffer) # <<>> /\ IsText(last) /\ IsJson(last) ->
             [p |-> NewParser, out |-> << <<"Data", last>> >>]
        [] OTHER -> [p |-> [NewParser EXCEPT !.poisoned = TRUE], out |-> NdFail]
-----------------------------------------------------------------------------
(* The network hands over the next chunk, however much of the body it is.  *)
Feed ==
  /\ bodyEnd = "open"
  /\ \E n \in (fed + 1)..Len(body) :
       LET chunk == SubSeq(body, fed + 1, n)
           r     == IF format = "sse" THEN feed(frame, chunk) ELSE NdFeed(frame, chunk)
       IN  frame' = r.p /\ lines' = lines \o r.out /\ fed' = n
  /\ UNCHANGED <<format, body, bodyEnd>>

(* sse_lines(): the body ends, or breaks off and says so after a flush.    *)
BodyEnds ==
  /\ bodyEnd = "open"
  /\ \E how \in {"eof", "broken"} :
       LET r == IF format = "sse" THEN flush(frame) ELSE NdEnd(frame, how)
       IN  /\ how = "eof" => fed = Len(body)
           /\ bodyEnd' = how
           /\ frame' = r.p
           /\ lines' = lines \o r.out \o (IF how = "broken" /\ format = "sse"
                                          THEN << <<"TransportError", <<>> >> >> ELSE <<>>)
  /\ UNCHANGED <<format, body, fed>>

FramingInit ==
  /\ format \in {"sse", "ndjson"} /\ body \in Bodies
  /\ fed = 0 /\ lines = <<>> /\ frame = NewParser /\ bodyEnd = "open"

FramingNext == Feed \/ BodyEnds
FramingSpec == FramingInit /\ [][FramingNext]_framingVars
-----------------------------------------------------------------------------
(* What was received says, read as a whole: its complete lines up to the   *)
(* first byte that is not text.                                            *)
Received == SubSeq(body, 1, fed)
Text == SubSeq(Received, 1, GoodUpTo(Received))
Corrupt == LET rest == SubSeq(Received, Len(Text) + 1, fed)
           IN  rest # <<>> /\ ~(bodyEnd = "open" /\ Incomplete(rest))
Said == LET ls   == LinesOf(Text)
            more == IF bodyEnd # "open" /\ ~Corrupt /\ Trim(RestOf(Text)) # <<>>
                    THEN << RestOf(Text) >> ELSE <<>>
        IN  [k \in 1..Len(ls) |-> StripCr(ls[k])] \o more
Values(ls) == LET vs == SelectSeq(ls, LAMBDA l : /\ l # <<>> /\ l[1] = "data"
                                                 /\ Tail(l) \notin {<<>>, <<"DONE">>})
              IN  FlattenSeq([k \in 1..Len(vs) |-> Tail(vs[k])])
Payload(out) == LET ds == SelectSeq(out, LAMBDA l : l[1] = "Data")
                IN  SelectSeq(FlattenSeq([k \in 1..Len(ds) |-> ds[k][2]]), LAMBDA c : c # "nl")
Failures == {n \in DOMAIN lines : lines[n][1] = "ProtocolError"}

(* Where the network cuts a body does not show: at every point the parser  *)
(* has yielded what it yields for the same bytes in one piece, and once    *)
(* no data is pending, its text is that of the body's data lines up to the *)
(* first byte that is not UTF-8, in order, none twice and none missing.  A *)
(* corrupt byte yields one error, with no data after it.  An adapter that  *)
(* reads named events sees the same data in the same order.                *)
ChunksHidden ==
  /\ bodyEnd = "open" =>
       lines = (IF format = "sse" THEN feed(NewParser, Received)
                                  ELSE NdFeed(NewParser, Received)).out
  /\ format = "sse" =>
       /\ frame.pending = NoData => Payload(lines) = Values(Said)
       /\ LET named == SelectSeq(sse_paired_events(lines), LAMBDA e : e[2] # <<>>)
          IN  [k \in 1..Len(named) |-> <<"Data", named[k][2]>>]
                = SelectSeq(sse_data_lines(lines), LAMBDA l : l[1] = "Data")
       /\ (Failures # {}) = Corrupt
       /\ \A n \in Failures : \A k \in (n + 1)..Len(lines) : lines[k][1] = "TransportError"
=============================================================================
