-------------------------------- MODULE MCWire --------------------------------
(***************************************************************************)
(* Where the agent meets other machines, one subject at a time: a          *)
(* behaviour is one of `part` (the bodies of responses, the requests to    *)
(* providers, the web, signing in and the keychain), and the others stay   *)
(* in an initial state.                                                    *)
(***************************************************************************)
EXTENDS WireFraming, ProviderRequests, WebTools, SignIn

VARIABLE part

Parts == {"framing", "requests", "web", "signin"}

wireVars == <<part, framingVars, requestVars, webVars, signInVars>>

WireInit ==
  /\ part \in Parts
  /\ IF part = "framing" THEN FramingInit
     ELSE /\ format = "sse" /\ body = << >> /\ fed = 0 /\ lines = << >>
          /\ frame = NewParser /\ bodyEnd = "open"
  /\ RequestInit /\ (part # "requests" => adapter = "openai")
  /\ WebInit
  /\ part # "web" => webFilter = CHOOSE f \in WebFilters : TRUE
  /\ part # "web" => rateLimit = 1
  /\ SignInInit /\ (part # "signin" => limited)

WireNext ==
  /\ UNCHANGED part
  /\ \/ part = "framing" /\ FramingNext
     \/ part # "framing" /\ UNCHANGED framingVars
  /\ \/ part = "requests" /\ RequestNext
     \/ part # "requests" /\ UNCHANGED requestVars
  /\ \/ part = "web" /\ WebNext
     \/ part # "web" /\ UNCHANGED webVars
  /\ \/ part = "signin" /\ SignInNext
     \/ part # "signin" /\ UNCHANGED signInVars

WireSpec == WireInit /\ [][WireNext]_wireVars

-----------------------------------------------------------------------------
(* The instance. *)
FrameLines ==
  {<<"data", "x", "nl">>, <<"data", "y", "cr", "nl">>, <<"event", "x", "nl">>, <<"nl">>,
   <<"data", "DONE", "nl">>, <<"colon", "x", "nl">>, <<"x", "nl">>, <<"data", "u1", "u2", "nl">>,
   <<"data", "x", "bad", "nl">>, <<"data", "x", "u1">>, <<"y", "cr">>, <<"data", "nl">>}
FrameBodies == {FlattenSeq(s) : s \in UNION {[1..n -> FrameLines] : n \in 1..3}}

NamedHost(h) == [is |-> "name", host |-> h]
Ip(a) == [is |-> "ip", host |-> a]
MCUrls ==
  {[is |-> "bad"], [is |-> "other"], NamedHost(<<"a", "x">>), NamedHost(<<"b", "x">>),
   Ip(<<172, 31, 0, 1>>), Ip(<<100, 128, 0, 1>>), Ip(<<64768, 0, 0, 0, 0, 0, 0, 1>>)}
MCLookups == {<< >>, <<<<8, 8, 8, 8>>>>, <<<<8, 8, 8, 8>>, <<198, 19, 0, 1>>>>}
MCFilters ==
  {[allow |-> {}, deny |-> {}, private |-> TRUE],
   [allow |-> {[star |-> TRUE, name |-> <<"x">>]},
    deny |-> {[star |-> FALSE, name |-> <<"b", "x">>]}, private |-> TRUE],
   [allow |-> {}, deny |-> {[star |-> FALSE, name |-> <<"x">>]}, private |-> FALSE],
   [allow |-> {[star |-> FALSE, name |-> <<"a", "x">>]}, deny |-> {}, private |-> FALSE]}

MCWidths == {<<1>>, <<1, 2, 1>>}

-----------------------------------------------------------------------------
(* What goes to a provider is a request it accepts, of the conversation as *)
(* it is, and what comes back is framed the same however the body was cut  *)
(* into chunks (the adapters' conversions, SseStreamParser).               *)
TrafficSound == ChunksHidden /\ RequestFits
=============================================================================
