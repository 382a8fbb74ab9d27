---------------------------- MODULE Credentials ----------------------------
(***************************************************************************)
(* DefaultCredentialResolver for one key (auth/src/resolver.rs) over its   *)
(* SingleFlightTokenSource (auth/src/token_source.rs): concurrent callers  *)
(* read the store, and those that find an expired or missing credential    *)
(* share one future that refreshes it or asks the user.  The future runs   *)
(* only while a caller polls it, and stays where it is when the last one   *)
(* times out or is dropped.                                                *)
(*                                                                         *)
(* A refresh token is a number.  Steps between two awaits of the code are  *)
(* one action unless another thread can see the state in between.          *)
(***************************************************************************)
EXTENDS Naturals, FiniteSets

CONSTANTS Resolvers,       \* concurrent callers of resolve
          MaxGenerations,  \* bound on the shared futures started
          MaxTokens,       \* bound on the refresh tokens issued
          Interactive,     \* whether a handler is configured for the key
          HostWrites       \* whether the host also writes the store

ASSUME CredentialsAssumption ==
  /\ MaxGenerations \in Nat /\ MaxTokens \in Nat
  /\ Interactive \in BOOLEAN /\ HostWrites \in BOOLEAN

VARIABLES stored,      \* the credential in the store
          cached,      \* "none", "fresh" or "expired": the source's value
          inFlight,    \* {} or {the generation of the current future}
          nextGen,     \* next_generation
          future,      \* per generation: the shared future
          resolver,    \* per caller: where its resolve is
          issued,      \* refresh tokens issued so far
          spent        \* history: tokens exchanged for a stored successor

credentialVars == <<stored, cached, inFlight, nextGen, future, resolver, issued,
                    spent>>

Credential(kind, token) == [kind |-> kind, token |-> token]
NoCredential == Credential("none", 0)

(* ApiKey and unexpired tokens resolve at once.  A Bearer token is an      *)
(* OAuth2 credential without a refresh token, which is token 0.            *)
Usable(cred) == cred.kind \in {"apikey", "oauth2"}
Refreshable(cred) == cred.kind = "expired" /\ cred.token # 0

At(phase, flow, gen) == [phase |-> phase, flow |-> flow, gen |-> gen]
Outside == At("outside", "stored", 0)

Job(flow, pc, token, result) ==
  [flow |-> flow, pc |-> pc, token |-> token, result |-> result]

Gone == Job("none", "done", 0, "none")

CredentialsInit ==
  /\ stored \in {NoCredential, Credential("expired", 1)}
  /\ cached = "none" /\ inFlight = {} /\ nextGen = 0
  /\ future = [g \in 0 .. MaxGenerations - 1 |-> Gone]
  /\ resolver = [c \in Resolvers |-> Outside]
  /\ issued = 1 /\ spent = {}

(* Whose result a caller is still to use. *)
Holds(at, g) == at.phase \in {"await", "release"} /\ at.gen = g

(* A future lives while the slot or a caller holds it. *)
DropUnheld ==
  future' = [g \in DOMAIN future |->
               IF g \in inFlight' \/ \E c \in Resolvers : Holds(resolver'[c], g)
               THEN future[g] ELSE Gone]

Goes(c, at) == resolver' = [resolver EXCEPT ![c] = at]
SourceUnchanged == UNCHANGED <<cached, inFlight, nextGen, future>>
StoreUnchanged == UNCHANGED <<stored, issued, spent>>

-----------------------------------------------------------------------------
(* The callers. *)
Resolve(c) ==
  /\ resolver[c].phase = "outside"
  /\ Goes(c, At("lookup", "stored", 0))
  /\ SourceUnchanged /\ StoreUnchanged

(* NotFound falls through to the interactive flow, if there is one. *)
NotFound(c) ==
  Goes(c, IF Interactive THEN At("clear", "authorize", 0) ELSE Outside)

(* The store's answer; a failed lookup is an error. *)
resolve_stored(c) ==
  /\ resolver[c].phase = "lookup"
  /\ \/ Usable(stored) /\ Goes(c, Outside)
     \/ Refreshable(stored) /\ Goes(c, At("clear", "refresh", 0))
     \/ stored.kind = "none" /\ NotFound(c)
     \/ Goes(c, Outside)
  /\ SourceUnchanged /\ StoreUnchanged

clear_cached(c) ==
  /\ resolver[c].phase = "clear"
  /\ cached' = "none"
  /\ Goes(c, At("cached", resolver[c].flow, 0))
  /\ UNCHANGED <<inFlight, nextGen, future>> /\ StoreUnchanged

(* Another caller may have filled the cache since. *)
ReadCache(c) ==
  /\ resolver[c].phase = "cached"
  /\ Goes(c, IF cached = "fresh" THEN Outside ELSE At("join", resolver[c].flow, 0))
  /\ SourceUnchanged /\ StoreUnchanged

Joins(c, g) == Goes(c, At("await", resolver[c].flow, g))

(* get_or_start_with, whatever flow the current future is of. *)
JoinFlight(c) ==
  /\ resolver[c].phase = "join"
  /\ \E g \in inFlight : Joins(c, g)
  /\ SourceUnchanged /\ StoreUnchanged

StartFlight(c) ==
  /\ resolver[c].phase = "join" /\ inFlight = {} /\ nextGen < MaxGenerations
  /\ inFlight' = {nextGen} /\ nextGen' = nextGen + 1
  /\ future' = [future EXCEPT ![nextGen] = Job(resolver[c].flow, "start", 0, "none")]
  /\ Joins(c, nextGen)
  /\ UNCHANGED <<cached>> /\ StoreUnchanged

(* The future's result is copied to the cache. *)
FillCache(c) ==
  /\ resolver[c].phase = "await" /\ future[resolver[c].gen].pc = "done"
  /\ cached' = IF future[resolver[c].gen].result = "ok" THEN "fresh" ELSE cached
  /\ Goes(c, At("release", resolver[c].flow, resolver[c].gen))
  /\ UNCHANGED <<inFlight, nextGen, future>> /\ StoreUnchanged

\* mutant: the slot is emptied whoever holds it
clear_any_generation(gen) == {}
clear_generation(gen) == inFlight \ {gen}

(* ... and the slot is released; resolve_stored may still say NotFound. *)
Release(c) ==
  /\ resolver[c].phase = "release"
  /\ inFlight' = clear_generation(resolver[c].gen)
  /\ IF resolver[c].flow = "refresh" /\ future[resolver[c].gen].result = "notfound"
     THEN NotFound(c) ELSE Goes(c, Outside)
  /\ DropUnheld
  /\ UNCHANGED <<cached, nextGen>> /\ StoreUnchanged

(* The timeout of resolve, or the caller's own future dropped, at any of   *)
(* its awaits, the lock of the slot included: then a finished future stays *)
(* in the slot for the next caller.                                        *)
GivesUp(c) ==
  /\ resolver[c].phase \in {"lookup", "join", "await", "release"}
  /\ Goes(c, Outside)
  /\ UNCHANGED inFlight /\ DropUnheld
  /\ UNCHANGED <<cached, nextGen>> /\ StoreUnchanged

-----------------------------------------------------------------------------
(* The shared future: resolve_refreshable, or the interactive flow.        *)
Polled(g) == \E c \in Resolvers : resolver[c].phase = "await" /\ resolver[c].gen = g

FutureAt(g, flow, pc) == Polled(g) /\ future[g].flow = flow /\ future[g].pc = pc
Becomes(g, job) == future' = [future EXCEPT ![g] = job]
Result(g, r) == Becomes(g, Job(future[g].flow, "done", future[g].token, r))

(* The store is read again; an expired token is presented to the server.   *)
RefreshLookup(g) ==
  /\ FutureAt(g, "refresh", "start")
  /\ \/ Usable(stored) /\ Result(g, "ok")
     \/ Refreshable(stored) /\ Becomes(g, Job("refresh", "sent", stored.token, "none"))
     \/ stored.kind = "none" /\ Result(g, "notfound")
     \/ Result(g, "error")
  /\ UNCHANGED <<cached, inFlight, nextGen, resolver>> /\ StoreUnchanged

(* The user is asked. *)
Ask(g) ==
  /\ FutureAt(g, "authorize", "start")
  /\ Becomes(g, Job("authorize", "sent", 0, "none"))
  /\ UNCHANGED <<cached, inFlight, nextGen, resolver>> /\ StoreUnchanged

(* A refused, failed or late answer of the server, the user or the handler *)
Unanswered(g) ==
  /\ Polled(g) /\ future[g].pc = "sent"
  /\ Result(g, "error")
  /\ UNCHANGED <<cached, inFlight, nextGen, resolver>> /\ StoreUnchanged

(* The answer's tokens go to the store, and only then to the callers.  A   *)
(* server that sends no new refresh token leaves the old one in use.       *)
StoreAnswer(g) ==
  /\ Polled(g) /\ future[g].pc = "sent"
  /\ \/ /\ issued < MaxTokens /\ issued' = issued + 1
        /\ stored' = Credential("oauth2", issued + 1)
        /\ spent' = spent \cup {future[g].token}
     \/ /\ stored' = Credential("oauth2", future[g].token)
        /\ UNCHANGED <<issued, spent>>
  /\ Result(g, "ok")
  /\ UNCHANGED <<cached, inFlight, nextGen, resolver>>

-----------------------------------------------------------------------------
(* Time passes: tokens expire, in the cache too unless it holds the answer *)
(* of an interactive flow, which is cached for a year.                     *)
Expire ==
  /\ stored.kind = "oauth2"
  /\ stored' = Credential("expired", stored.token)
  /\ cached' \in {cached, IF cached = "fresh" THEN "expired" ELSE cached}
  /\ UNCHANGED <<inFlight, nextGen, future, resolver, issued, spent>>

(* The host replaces or deletes the credential in the store. *)
HostWrite ==
  /\ HostWrites
  /\ \/ stored' \in {NoCredential, Credential("apikey", 0)} /\ UNCHANGED issued
     \/ /\ issued < MaxTokens /\ issued' = issued + 1
        /\ stored' = Credential("oauth2", issued + 1)
  /\ stored' # stored
  /\ UNCHANGED <<spent, resolver>> /\ SourceUnchanged

CallerSteps(c) ==
  \/ Resolve(c) \/ resolve_stored(c) \/ clear_cached(c) \/ ReadCache(c)
  \/ JoinFlight(c) \/ StartFlight(c) \/ FillCache(c) \/ Release(c) \/ GivesUp(c)

FutureSteps(g) == RefreshLookup(g) \/ Ask(g) \/ Unanswered(g) \/ StoreAnswer(g)

CredentialsNext ==
  \/ \E c \in Resolvers : CallerSteps(c)
  \/ \E g \in 0 .. nextGen - 1 : FutureSteps(g)
  \/ Expire \/ HostWrite

CredentialsSpec == CredentialsInit /\ [][CredentialsNext]_credentialVars

-----------------------------------------------------------------------------
(* One future at a time, whatever callers of earlier futures are slow to   *)
(* release the slot, time out or start again; so a refresh token that has  *)
(* been exchanged for a successor is never presented again, which a server *)
(* that rotates tokens answers by revoking the whole family                *)
(* (get_or_start_with, clear_generation).                                  *)
PresentedOnce ==
  /\ Cardinality({g \in DOMAIN future : future[g].pc # "done"}) <= 1
  /\ \A g \in DOMAIN future : future[g].pc = "sent" /\ future[g].flow = "refresh"
                                => future[g].token \notin spent
=============================================================================
