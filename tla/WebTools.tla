------------------------------- MODULE WebTools -------------------------------
(***************************************************************************)
(* The web plugin (plugins/web).  A call passes the domain filter and the  *)
(* rate limit, then fetches a page hop by hop, searches, or has a browser  *)
(* behind a Node process show it.  The process is shared: one call at a    *)
(* time holds it, writes a request line and reads one answer line, and a   *)
(* call may time out, be cancelled or be dropped between the two.          *)
(***************************************************************************)
EXTENDS Integers, Sequences, FiniteSets, SequencesExt

CONSTANTS WebCalls,      \* the calls
          WebUrls,       \* the addresses a model or a page may name
          WebFilters,    \* configurations of the domain filter
          Lookups,       \* what the resolver may answer for a name
          RateWindow,    \* length of the rate limiter's window
          MaxClock,      \* bound on the clock
          MaxHops,       \* the plugin's max_redirects
          MaxBody        \* chunks a body may have

ASSUME WebAssumption == RateWindow \in Nat \ {0} /\ MaxHops \in Nat /\ MaxBody \in Nat

NoCall == "no call"
NoPage == [is |-> "none"]
NoBridge == [up |-> FALSE, next |-> 1]

VARIABLES webFilter, rateLimit,   \* the plugin's configuration
          clock, stamps,          \* the rate limiter's window
          visit,                  \* per call, where it is
          bridge, holder,         \* the shared browser process, and who has locked it
          asked, replies          \* requests the process works on, answer lines it has written

webVars == <<webFilter, rateLimit, clock, stamps, visit, bridge, holder, asked, replies>>

NewVisit == [pc |-> "idle", tool |-> "none", url |-> NoPage, addr |-> NoPage, hops |-> 0,
             size |-> 0, id |-> 0, at |-> -1, got |-> NoCall]

WebInit ==
  /\ webFilter \in WebFilters /\ rateLimit \in {1, 2}
  /\ clock = 0 /\ stamps = << >>
  /\ visit = [c \in WebCalls |-> NewVisit]
  /\ bridge = NoBridge /\ holder = NoCall /\ asked = {} /\ replies = << >>

-----------------------------------------------------------------------------
(* Addresses: four octets, or eight segments. *)
is_private_ipv4(o) ==
  \/ o[1] \in {0, 127, 10}
  \/ o[1] = 172 /\ o[2] \in 16 .. 31
  \/ o[1] = 192 /\ o[2] = 168
  \/ o[1] = 169 /\ o[2] = 254
  \/ o[1] = 100 /\ o[2] \in 64 .. 127
  \/ o[1] = 198 /\ o[2] \in 18 .. 19
  \/ SubSeq(o, 1, 3) \in {<<192, 0, 2>>, <<198, 51, 100>>, <<203, 0, 113>>}
  \/ o[1] >= 224

Ipv4Of(s) == <<s[7] \div 256, s[7] % 256, s[8] \div 256, s[8] % 256>>
Zeros(s, n) == \A i \in 1 .. n : s[i] = 0

is_private_ipv6(s) ==
  IF Zeros(s, 5) /\ s[6] = 65535 THEN is_private_ipv4(Ipv4Of(s))
  ELSE \/ Zeros(s, 7) /\ s[8] \in {0, 1}
       \/ s[1] \div 512 = 126      \* fc00::/7
       \/ s[1] \div 64 = 1018      \* fe80::/10
       \/ s[1] \div 256 = 255      \* ff00::/8
       \/ s[1] = 8193 /\ s[2] = 3512

is_private_ip(a) == IF Len(a) = 4 THEN is_private_ipv4(a) ELSE is_private_ipv6(a)

(* The browser's own filter also unwraps IPv4-compatible addresses. *)
isBlockedPrivateHost(a) ==
  \/ is_private_ip(a)
  \/ Len(a) = 8 /\ Zeros(a, 6) /\ is_private_ipv4(Ipv4Of(a))

(* Names are sequences of labels; an entry stands for itself and for what  *)
(* is below it, a starred one only for what is below it.                   *)
is_subdomain_of(host, suffix) == Len(host) > Len(suffix) /\ IsSuffix(suffix, host)

host_matches_entry(host, entry) ==
  is_subdomain_of(host, entry.name) \/ (~entry.star /\ host = entry.name)

host_matches_any(entries, url) ==
  url.is = "name" /\ \E e \in entries : host_matches_entry(url.host, e)

\* mutant: the allow list is forgotten
check_deny_list(f, url) ==
  CASE url.is = "other" -> "scheme"
    [] host_matches_any(f.deny, url) -> "denied"
    [] ~f.private -> "unchecked"
    [] url.is = "ip" -> IF is_private_ip(url.host) THEN "private" ELSE "unchecked"
    [] OTHER -> "lookup"
check_without_dns(f, url) ==
  CASE url.is = "other" -> "scheme"          \* neither http nor https
    [] f.allow # {} /\ ~host_matches_any(f.allow, url) -> "unlisted"
    [] host_matches_any(f.deny, url) -> "denied"
    [] ~f.private -> "unchecked"
    [] url.is = "ip" -> IF is_private_ip(url.host) THEN "private" ELSE "unchecked"
    [] OTHER -> "lookup"

Refusals == {"scheme", "unlisted", "denied", "private"}

(* One private address among those of a name refuses the name. *)
first_public_addr(found) ==
  IF found = << >> \/ \E i \in DOMAIN found : is_private_ip(found[i]) THEN NoPage
  ELSE [is |-> "address", of |-> Head(found)]

(* The addresses a request may go to: the one that was checked, pinned to  *)
(* the name, or where the name or the address itself leads.                *)
validate_and_resolve(f, url) ==
  CASE check_without_dns(f, url) \in Refusals -> {NoPage}
    [] check_without_dns(f, url) = "lookup" -> {first_public_addr(l) : l \in Lookups}
    [] url.is = "ip" -> {[is |-> "address", of |-> url.host]}
    [] OTHER -> {[is |-> "address", of |-> l[i]] : l \in {m \in Lookups : m # << >>}, i \in {1}}

-----------------------------------------------------------------------------
(* Before a call runs. *)
prune_expired(times) == SelectSeq(times, LAMBDA t : t >= clock - RateWindow)

Done(c, how) == visit' = [visit EXCEPT ![c] = [NewVisit EXCEPT !.pc = how, !.at = visit[c].at]]

DomainPolicy(tool, url) ==
  tool = "search" \/ (url.is # "bad" /\ check_without_dns(webFilter, url) \notin Refusals)

Dispatch(c, tool, url) ==
  /\ visit[c].pc = "idle"
  /\ tool = "search" <=> url = NoPage
  /\ \/ /\ ~DomainPolicy(tool, url)
        /\ Done(c, "refused") /\ UNCHANGED stamps
     \/ /\ DomainPolicy(tool, url)
        /\ \E recent \in {prune_expired(stamps)} :
             \/ /\ Len(recent) >= rateLimit
                /\ stamps' = recent /\ Done(c, "refused")
             \/ /\ Len(recent) < rateLimit
                /\ stamps' = Append(recent, clock)
                /\ visit' = [visit EXCEPT ![c] = [NewVisit EXCEPT
                     !.pc = IF tool = "search" THEN "search" ELSE "resolve",
                     !.tool = tool, !.url = url, !.at = clock]]
  /\ UNCHANGED <<webFilter, rateLimit, clock, bridge, holder, asked, replies>>

Tick ==
  /\ clock < MaxClock /\ clock' = clock + 1
  /\ \E c \in WebCalls : visit[c].pc = "idle"   \* nobody else looks at it
  /\ UNCHANGED <<webFilter, rateLimit, stamps, visit, bridge, holder, asked, replies>>

(* What a search comes to.  Two of the three providers want a key, which   *)
(* the service may refuse; a body that cannot be read is an error for them *)
(* and a page without results for the third.                               *)
Providers3 == {"duckduckgo", "brave", "tavily"}
Statuses == {"ok", "too_many", "unauthorized", "other", "unreachable", "unreadable"}

search(provider, keyed, status) ==
  CASE provider # "duckduckgo" /\ ~keyed -> "failed"
    [] status = "ok" -> "shown"
    [] status = "unreadable" /\ provider = "duckduckgo" -> "shown"
    [] OTHER -> "failed"

Search(c) ==
  /\ visit[c].pc = "search"
  /\ \/ Done(c, "failed")                     \* no query, or cancelled
     \/ \E provider \in Providers3, keyed \in BOOLEAN, status \in Statuses :
          Done(c, search(provider, keyed, status))
  /\ UNCHANGED <<webFilter, rateLimit, clock, stamps, bridge, holder, asked, replies>>

Resolve(c) ==
  /\ visit[c].pc = "resolve"
  /\ \E addr \in validate_and_resolve(webFilter, visit[c].url) :
       \/ addr = NoPage /\ Done(c, "failed")
       \/ /\ addr # NoPage
          /\ visit' = [visit EXCEPT ![c].pc = IF visit[c].tool = "fetch" THEN "send" ELSE "lock",
                                    ![c].addr = IF visit[c].tool = "fetch" THEN addr ELSE NoPage]
  /\ UNCHANGED <<webFilter, rateLimit, clock, stamps, bridge, holder, asked, replies>>

-----------------------------------------------------------------------------
(* FetchTool: send_get_following_checked_redirects and the body. *)
Redirected(c, location) ==
  IF location.is = "bad" \/ visit[c].hops = MaxHops THEN Done(c, "failed")
  ELSE visit' = [visit EXCEPT ![c].pc = "resolve", ![c].url = location,
                              ![c].addr = NoPage, ![c].hops = @ + 1]

FetchSend(c) ==
  /\ visit[c].pc = "send"
  /\ \/ Done(c, "failed")                     \* cancelled, a network error, a status
     \/ Done(c, "other")                      \* not HTML
     \/ \E location \in WebUrls : Redirected(c, location)
     \/ visit' = [visit EXCEPT ![c].pc = "body", ![c].url = NoPage, ![c].addr = NoPage]
  /\ UNCHANGED <<webFilter, rateLimit, clock, stamps, bridge, holder, asked, replies>>

read_body_with_cap(c) ==
  /\ visit[c].pc = "body"
  /\ \/ Done(c, "failed")                     \* cancelled, cut, or no readable text
     \/ Done(c, "shown")
     \/ visit[c].size = MaxBody /\ Done(c, "failed")
     \/ visit[c].size < MaxBody /\ visit' = [visit EXCEPT ![c].size = @ + 1]
  /\ UNCHANGED <<webFilter, rateLimit, clock, stamps, bridge, holder, asked, replies>>

-----------------------------------------------------------------------------
(* ScreenshotTool and ExtractTool, over the shared process. *)
KillBridge == bridge' = NoBridge /\ asked' = {} /\ replies' = << >>
KeepBridge == UNCHANGED <<bridge, asked, replies>>

LockBridge(c) ==
  /\ visit[c].pc = "lock"
  /\ \/ /\ holder = NoCall /\ holder' = c
        /\ visit' = [visit EXCEPT ![c].pc = IF bridge.up THEN "ask" ELSE "start"]
     \/ Done(c, "failed") /\ UNCHANGED holder \* cancelled
  /\ UNCHANGED <<webFilter, rateLimit, clock, stamps>> /\ KeepBridge

(* The new process has answered a ping, or is killed again. *)
StartBridge(c) ==
  /\ visit[c].pc = "start"
  /\ \/ /\ bridge' = [up |-> TRUE, next |-> 2]
        /\ visit' = [visit EXCEPT ![c].pc = "ask"]
        /\ UNCHANGED holder
     \/ Done(c, "failed") /\ holder' = NoCall /\ UNCHANGED bridge
  /\ UNCHANGED <<webFilter, rateLimit, clock, stamps, asked, replies>>

Ask(c) ==
  /\ visit[c].pc = "ask"
  /\ asked' = asked \cup {[id |-> bridge.next, from |-> c, url |-> visit[c].url, addr |-> NoPage,
                           redirected |-> FALSE]}
  /\ bridge' = [bridge EXCEPT !.next = @ + 1]
  /\ visit' = [visit EXCEPT ![c].pc = "answer", ![c].id = bridge.next, ![c].url = NoPage]
  /\ UNCHANGED <<webFilter, rateLimit, clock, stamps, holder, replies>>

(* The process works on its requests side by side.  A filter in the page's *)
(* context looks at an address the page goes to, but the browser does not  *)
(* show it where a redirect leads.  When private addresses are blocked all *)
(* connections go through a proxy, which looks at each again and connects  *)
(* to the address it has looked up.                                        *)
blockedByFilter(url) ==
  \/ url.is = "bad" \/ check_without_dns(webFilter, url) \in Refusals
  \/ webFilter.private /\ url.is = "ip" /\ isBlockedPrivateHost(url.host)

resolveProxyTarget(url) ==
  CASE blockedByFilter(url) -> {}
    [] ~blockedByFilter(url) /\ url.is = "ip" -> {url.host}
    [] OTHER -> {Head(l) : l \in {m \in Lookups : m # << >> /\ \A i \in DOMAIN m : ~isBlockedPrivateHost(m[i])}}

Connections(url) ==
  CASE webFilter.private -> resolveProxyTarget(url)
    [] ~webFilter.private /\ url.is = "ip" -> {url.host}
    [] ~webFilter.private /\ url.is = "name" -> {Head(l) : l \in Lookups \ {<< >>}}
    [] OTHER -> {}

Connect(r, url) ==
  /\ \E a \in Connections(url) :
       asked' = (asked \ {r}) \cup {[r EXCEPT !.url = url, !.addr = [is |-> "address", of |-> a],
                                             !.redirected = (r.addr # NoPage)]}
  /\ UNCHANGED <<webFilter, rateLimit, clock, stamps, visit, bridge, holder, replies>>

Navigate(r) ==
  \/ r.addr = NoPage /\ ~blockedByFilter(r.url) /\ Connect(r, r.url)
  \/ r.addr # NoPage /\ \E location \in WebUrls : Connect(r, location)

Answer(r) ==
  /\ \/ replies' = Append(replies, [id |-> r.id, from |-> r.from, ok |-> FALSE, url |-> NoPage])
     \/ /\ r.addr # NoPage
        /\ replies' = Append(replies, [id |-> r.id, from |-> r.from, ok |-> TRUE, url |-> r.url])
  /\ asked' = asked \ {r}
  /\ UNCHANGED <<webFilter, rateLimit, clock, stamps, visit, bridge, holder>>

Mismatch(c, reply) == reply.id # visit[c].id
(* An answer to another request, an unreadable one or the end of the       *)
(* stream leaves the process in doubt, and it is replaced.                 *)
ReadAnswer(c) ==
  /\ visit[c].pc = "answer" /\ replies # << >>
  /\ \E reply \in {Head(replies)} :
       \/ /\ Mismatch(c, reply) /\ Done(c, "failed") /\ holder' = NoCall /\ KillBridge
       \/ /\ ~Mismatch(c, reply) /\ ~reply.ok
          /\ Done(c, "failed") /\ holder' = NoCall
          /\ replies' = Tail(replies) /\ UNCHANGED <<bridge, asked>>
       \/ /\ ~Mismatch(c, reply) /\ reply.ok
          /\ visit' = [visit EXCEPT ![c].pc = "final", ![c].url = reply.url, ![c].got = reply.from]
          /\ replies' = Tail(replies) /\ UNCHANGED <<bridge, asked, holder>>
  /\ UNCHANGED <<webFilter, rateLimit, clock, stamps>>

reset_kept == KeepBridge
reset_bridge_after_ambiguous_playwright_error == KillBridge

(* The tool's timeout, the bridge's own, a cancellation, a lost process. *)
GiveUp(c) ==
  /\ visit[c].pc = "answer"
  /\ Done(c, "failed") /\ holder' = NoCall
  /\ reset_bridge_after_ambiguous_playwright_error
  /\ UNCHANGED <<webFilter, rateLimit, clock, stamps>>

(* build_screenshot_result, build_extract_result: where the page ended up  *)
(* is looked at once more.                                                 *)
BuildResult(c) ==
  /\ visit[c].pc = "final"
  /\ \E addr \in validate_and_resolve(webFilter, visit[c].url) :
       IF addr = NoPage THEN Done(c, "failed")
       ELSE visit' = [visit EXCEPT ![c] = [NewVisit EXCEPT !.pc = "shown", !.url = visit[c].url,
                                                           !.at = visit[c].at]]
  /\ holder' = NoCall
  /\ UNCHANGED <<webFilter, rateLimit, clock, stamps>> /\ KeepBridge

(* The task of a call is dropped wherever it waits. *)
DropCall(c) ==
  /\ visit[c].pc \in {"resolve", "send", "body", "lock", "start", "answer", "final"}
  /\ Done(c, "dropped")
  /\ holder' = IF holder = c THEN NoCall ELSE holder
  /\ UNCHANGED <<webFilter, rateLimit, clock, stamps>> /\ KeepBridge

(* A screenshot and an extraction take the same steps. *)
Browse(c) ==
  LockBridge(c) \/ StartBridge(c) \/ Ask(c) \/ ReadAnswer(c) \/ GiveUp(c) \/ BuildResult(c)

WebToolNames == {"fetch", "search", "browse"}

WebNext ==
  \/ Tick
  \/ \E c \in WebCalls :
       \/ \E tool \in WebToolNames, url \in WebUrls \cup {NoPage} : Dispatch(c, tool, url)
       \/ Search(c) \/ Resolve(c) \/ FetchSend(c) \/ read_body_with_cap(c)
       \/ Browse(c) \/ DropCall(c)
  \/ \E r \in asked : Navigate(r) \/ Answer(r)

WebSpec == WebInit /\ [][WebNext]_webVars

-----------------------------------------------------------------------------
(* The reserved blocks of the IPv4 space, by their first three octets and  *)
(* their length, and those of the IPv6 space by their first segment.       *)
Block(a, b, c, bits) == [at |-> (a * 256 + b) * 256 + c, size |-> 2 ^ (24 - bits)]
ReservedBlocks ==
  {Block(0, 0, 0, 8), Block(10, 0, 0, 8), Block(127, 0, 0, 8), Block(172, 16, 0, 12),
   Block(192, 168, 0, 16), Block(169, 254, 0, 16), Block(100, 64, 0, 10), Block(198, 18, 0, 15),
   Block(192, 0, 2, 24), Block(198, 51, 100, 24), Block(203, 0, 113, 24), Block(224, 0, 0, 3)}

Reserved(a) ==
  IF Len(a) = 4
  THEN \E b \in ReservedBlocks :
         (a[1] * 256 + a[2]) * 256 + a[3] \in b.at .. b.at + b.size - 1
  ELSE \/ a[1] \in 64512 .. 65023 \/ a[1] \in 65152 .. 65215 \/ a[1] \in 65280 .. 65535
       \/ a = <<0, 0, 0, 0, 0, 0, 0, 1>>

(* What the lists admit, said without the code's order of checks: a name   *)
(* is covered by an entry for itself or for a name above it.               *)
Covers(e, host) == IsSuffix(e.name, host) /\ (e.star => host # e.name)
Listed(entries, url) == url.is = "name" /\ \E e \in entries : Covers(e, url.host)
Admits(url) ==
  /\ url.is \in {"name", "ip"}
  /\ webFilter.allow = {} \/ Listed(webFilter.allow, url)
  /\ ~Listed(webFilter.deny, url)
MayGo(url, addr) == Admits(url) /\ (webFilter.private => ~Reserved(addr.of))

(* What the plugin promises of any number of calls that share one limiter, *)
(* one browser and one filter, however they are cancelled, timed out or    *)
(* dropped: no window holds more calls than the limit; a fetch goes out,   *)
(* on the first hop and on every redirect, and a browser on the first hop  *)
(* and, behind the proxy, on every other, only to a host both lists admit  *)
(* and never to a reserved address when those are blocked; a page that is  *)
(* shown is one the lists admit, and is shown only to the call that asked  *)
(* for it; and the process that is left to the next call has nothing of an *)
(* earlier one in it, unless that was dropped.                             *)
WebCallsKept ==
  /\ \A t \in 0 .. clock : Cardinality({c \in WebCalls : visit[c].at \in t - RateWindow .. t /\ visit[c].at >= 0})
                             <= rateLimit
  /\ \A c \in WebCalls :
       /\ visit[c].pc = "send" => MayGo(visit[c].url, visit[c].addr)
       /\ visit[c].pc = "shown" => visit[c].url = NoPage \/ Admits(visit[c].url)
       /\ visit[c].pc = "final" => visit[c].got = c
       /\ visit[c].pc \in {"start", "ask", "answer", "final"} => holder = c
  /\ \A r \in asked : r.addr # NoPage /\ (webFilter.private \/ ~r.redirected) => MayGo(r.url, r.addr)
  /\ (\A c \in WebCalls : visit[c].pc # "dropped") /\ holder = NoCall =>
       asked = {} /\ replies = << >>
=============================================================================
