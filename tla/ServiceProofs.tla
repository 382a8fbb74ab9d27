--------------------------- MODULE ServiceProofs ---------------------------
(***************************************************************************)
(* Proofs about the services that callers share: the credential resolver   *)
(* (types; a refresh token is presented once), the artifact store (types;  *)
(* a version that was saved stays) and the local model cache (types; a     *)
(* file under its final name is whole), and about the checkpoint policies  *)
(* (the rolling checkpoint only moves forward).  They hold for any number  *)
(* of callers, tools, tasks, processes and turns, and any bounds.          *)
(***************************************************************************)
EXTENDS Credentials, ArtifactVersions, LocalModel, Policies, FiniteSetTheorems, TLAPS

-----------------------------------------------------------------------------
(* The credential resolver (Credentials).                                  *)
Generations == 0 .. MaxGenerations - 1

StoredType ==
  /\ stored \in [kind : {"none", "apikey", "oauth2", "expired"}, token : Nat]
  /\ issued \in Nat /\ spent \subseteq Nat
SlotType ==
  /\ cached \in {"none", "fresh", "expired"}
  /\ nextGen \in 0 .. MaxGenerations /\ inFlight \subseteq 0 .. nextGen - 1
FutureType ==
  future \in [Generations -> [flow : {"none", "stored", "refresh", "authorize"},
                              pc : {"start", "sent", "done"}, token : Nat,
                              result : {"none", "ok", "notfound", "error"}]]
CallerType ==
  resolver \in [Resolvers -> [phase : {"outside", "lookup", "clear", "cached", "join",
                                       "await", "release"},
                              flow : {"stored", "refresh", "authorize"}, gen : Nat]]

(* The store, the slot, the shared futures and the callers hold values the *)
(* code's types allow, and the slot only a generation that was started.    *)
CredentialsType == StoredType /\ SlotType /\ FutureType /\ CallerType

(* The strengthening that makes PresentedOnce inductive.  A future that is *)
(* still running is the one in the slot ...                                *)
OneRunning ==
  /\ \A g, h \in inFlight : g = h
  /\ \A g \in Generations : future[g].pc # "done" => g \in inFlight
(* ... because a caller releases the slot only of a future that is done,   *)
(* and never of one that is yet to start ...                               *)
ReleasedDone ==
  \A c \in Resolvers :
    /\ resolver[c].phase \in {"await", "release"} => resolver[c].gen < nextGen
    /\ resolver[c].phase = "release" => future[resolver[c].gen].pc = "done"
(* ... and neither the store nor a running future holds a spent token.     *)
Unspent(token) == token <= issued /\ (token # 0 => token \notin spent)
TokensUnspent ==
  /\ \A t \in spent : t <= issued
  /\ Unspent(stored.token)
  /\ \A g \in Generations :
       future[g].pc = "sent" =>
         Unspent(future[g].token) /\ (future[g].flow = "refresh" => future[g].token # 0)
SingleFlight == OneRunning /\ ReleasedDone /\ TokensUnspent

(* The types hold in every state.                                          *)
THEOREM CredentialsTypeCorrect == CredentialsSpec => []CredentialsType
<1>1. CredentialsInit => CredentialsType
  BY CredentialsAssumption DEF CredentialsInit, CredentialsType, StoredType,
     SlotType, FutureType, CallerType, Generations, NoCredential, Credential,
     Gone, Job, Outside, At
<1>2. CredentialsType /\ [CredentialsNext]_credentialVars => CredentialsType'
  <2> SUFFICES ASSUME CredentialsType, [CredentialsNext]_credentialVars
               PROVE  CredentialsType'
    OBVIOUS
  <2>1. ASSUME NEW c \in Resolvers, Resolve(c) PROVE CredentialsType'
    <3>1. CallerType'
      BY <2>1, CredentialsAssumption DEF CredentialsType, Resolve, Goes, At,
         SourceUnchanged, StoreUnchanged, CallerType, StoredType, SlotType,
         FutureType
    <3> QED BY <2>1, <3>1 DEF CredentialsType, Resolve, SourceUnchanged,
       StoreUnchanged, StoredType, SlotType, FutureType
  <2>2. ASSUME NEW c \in Resolvers, resolve_stored(c) PROVE CredentialsType'
    <3>1. CallerType'
      BY <2>2, CredentialsAssumption DEF CredentialsType, resolve_stored,
         Usable, Goes, Outside, At, Refreshable, NotFound, SourceUnchanged,
         StoreUnchanged, CallerType, StoredType, SlotType, FutureType
    <3> QED BY <2>2, <3>1 DEF CredentialsType, resolve_stored,
       SourceUnchanged, StoreUnchanged, StoredType, SlotType, FutureType
  <2>3. ASSUME NEW c \in Resolvers, clear_cached(c) PROVE CredentialsType'
    <3>1. SlotType'
      BY <2>3, CredentialsAssumption DEF CredentialsType, clear_cached, Goes,
         At, StoreUnchanged, SlotType, StoredType, FutureType, CallerType
    <3>2. CallerType'
      BY <2>3, CredentialsAssumption DEF CredentialsType, clear_cached, Goes,
         At, StoreUnchanged, CallerType, StoredType, SlotType, FutureType
    <3> QED BY <2>3, <3>1, <3>2 DEF CredentialsType, clear_cached,
       StoreUnchanged, StoredType, FutureType
  <2>4. ASSUME NEW c \in Resolvers, ReadCache(c) PROVE CredentialsType'
    <3>1. CallerType'
      BY <2>4, CredentialsAssumption DEF CredentialsType, ReadCache, Goes,
         Outside, At, SourceUnchanged, StoreUnchanged, CallerType, StoredType,
         SlotType, FutureType
    <3> QED BY <2>4, <3>1 DEF CredentialsType, ReadCache, SourceUnchanged,
       StoreUnchanged, StoredType, SlotType, FutureType
  <2>5. ASSUME NEW c \in Resolvers, JoinFlight(c) PROVE CredentialsType'
    <3>1. CallerType'
      BY <2>5, CredentialsAssumption DEF CredentialsType, JoinFlight, Joins,
         Goes, At, SourceUnchanged, StoreUnchanged, CallerType, StoredType,
         SlotType, FutureType
    <3> QED BY <2>5, <3>1 DEF CredentialsType, JoinFlight, SourceUnchanged,
       StoreUnchanged, StoredType, SlotType, FutureType
  <2>6. ASSUME NEW c \in Resolvers, StartFlight(c) PROVE CredentialsType'
    <3>1. SlotType'
      BY <2>6, CredentialsAssumption DEF CredentialsType, StartFlight, Job,
         Joins, Goes, At, StoreUnchanged, SlotType, StoredType, FutureType,
         CallerType
    <3>2. FutureType'
      BY <2>6, CredentialsAssumption DEF CredentialsType, StartFlight, Job,
         Joins, Goes, At, StoreUnchanged, FutureType, Generations, StoredType,
         SlotType, CallerType
    <3>3. CallerType'
      BY <2>6, CredentialsAssumption DEF CredentialsType, StartFlight, Job,
         Joins, Goes, At, StoreUnchanged, CallerType, StoredType, SlotType,
         FutureType
    <3> QED BY <2>6, <3>1, <3>2, <3>3 DEF CredentialsType, StartFlight,
       StoreUnchanged, StoredType
  <2>7. ASSUME NEW c \in Resolvers, FillCache(c) PROVE CredentialsType'
    <3>1. SlotType'
      BY <2>7, CredentialsAssumption DEF CredentialsType, FillCache, Goes, At,
         StoreUnchanged, SlotType, StoredType, FutureType, CallerType
    <3>2. CallerType'
      BY <2>7, CredentialsAssumption DEF CredentialsType, FillCache, Goes, At,
         StoreUnchanged, CallerType, StoredType, SlotType, FutureType
    <3> QED BY <2>7, <3>1, <3>2 DEF CredentialsType, FillCache,
       StoreUnchanged, StoredType, FutureType
  <2>8. ASSUME NEW c \in Resolvers, Release(c) PROVE CredentialsType'
    <3>1. SlotType'
      BY <2>8, CredentialsAssumption DEF CredentialsType, Release,
         clear_generation, NotFound, Goes, At, Outside, DropUnheld, Holds,
         Gone, Job, StoreUnchanged, SlotType, StoredType, FutureType,
         CallerType
    <3>2. FutureType'
      BY <2>8, CredentialsAssumption DEF CredentialsType, Release,
         clear_generation, NotFound, Goes, At, Outside, DropUnheld, Holds,
         Gone, Job, StoreUnchanged, FutureType, Generations, StoredType,
         SlotType, CallerType
    <3>3. CallerType'
      BY <2>8, CredentialsAssumption DEF CredentialsType, Release,
         clear_generation, NotFound, Goes, At, Outside, DropUnheld, Holds,
         Gone, Job, StoreUnchanged, CallerType, StoredType, SlotType,
         FutureType
    <3> QED BY <2>8, <3>1, <3>2, <3>3 DEF CredentialsType, Release,
       StoreUnchanged, StoredType
  <2>9. ASSUME NEW c \in Resolvers, GivesUp(c) PROVE CredentialsType'
    <3>1. SlotType'
      BY <2>9, CredentialsAssumption DEF CredentialsType, GivesUp, Goes,
         Outside, At, DropUnheld, Holds, Gone, Job, StoreUnchanged, SlotType,
         StoredType, FutureType, CallerType
    <3>2. FutureType'
      BY <2>9, CredentialsAssumption DEF CredentialsType, GivesUp, Goes,
         Outside, At, DropUnheld, Holds, Gone, Job, StoreUnchanged,
         FutureType, Generations, StoredType, SlotType, CallerType
    <3>3. CallerType'
      BY <2>9, CredentialsAssumption DEF CredentialsType, GivesUp, Goes,
         Outside, At, DropUnheld, Holds, Gone, Job, StoreUnchanged,
         CallerType, StoredType, SlotType, FutureType
    <3> QED BY <2>9, <3>1, <3>2, <3>3 DEF CredentialsType, GivesUp,
       StoreUnchanged, StoredType
  <2>10. ASSUME NEW g \in 0 .. nextGen - 1, RefreshLookup(g)
        PROVE  CredentialsType'
    <3>1. FutureType'
      BY <2>10, CredentialsAssumption DEF CredentialsType, RefreshLookup,
         FutureAt, Polled, Usable, Result, Becomes, Job, Refreshable,
         StoreUnchanged, FutureType, Generations, StoredType, SlotType,
         CallerType
    <3> QED BY <2>10, <3>1 DEF CredentialsType, RefreshLookup, StoreUnchanged,
       StoredType, SlotType, CallerType
  <2>11. ASSUME NEW g \in 0 .. nextGen - 1, Ask(g) PROVE CredentialsType'
    <3>1. FutureType'
      BY <2>11, CredentialsAssumption DEF CredentialsType, Ask, FutureAt,
         Polled, Becomes, Job, StoreUnchanged, FutureType, Generations,
         StoredType, SlotType, CallerType
    <3> QED BY <2>11, <3>1 DEF CredentialsType, Ask, StoreUnchanged,
       StoredType, SlotType, CallerType
  <2>12. ASSUME NEW g \in 0 .. nextGen - 1, Unanswered(g)
        PROVE  CredentialsType'
    <3>1. FutureType'
      BY <2>12, CredentialsAssumption DEF CredentialsType, Unanswered, Polled,
         Result, Becomes, Job, StoreUnchanged, FutureType, Generations,
         StoredType, SlotType, CallerType
    <3> QED BY <2>12, <3>1 DEF CredentialsType, Unanswered, StoreUnchanged,
       StoredType, SlotType, CallerType
  <2>13. ASSUME NEW g \in 0 .. nextGen - 1, StoreAnswer(g)
        PROVE  CredentialsType'
    <3>1. StoredType'
      <4>1. future[g].token \in Nat
        BY CredentialsAssumption DEF CredentialsType, SlotType, FutureType,
           Generations
      <4>2. issued \in Nat /\ spent \subseteq Nat
        BY DEF CredentialsType, StoredType
      <4>3. /\ issued' \in {issued, issued + 1}
            /\ spent' \in {spent, spent \cup {future[g].token}}
        BY <2>13 DEF StoreAnswer
      <4>4. \E t \in Nat : stored' = Credential("oauth2", t)
        BY <2>13, <4>1, <4>2 DEF StoreAnswer
      <4> QED BY <4>1, <4>2, <4>3, <4>4 DEF Credential, StoredType
    <3>2. FutureType'
      BY <2>13, CredentialsAssumption DEF CredentialsType, StoreAnswer,
         Polled, Credential, Result, Becomes, Job, FutureType, Generations,
         StoredType, SlotType, CallerType
    <3> QED BY <2>13, <3>1, <3>2 DEF CredentialsType, StoreAnswer, SlotType,
       CallerType
  <2>14. CASE Expire
    <3>1. StoredType'
      BY <2>14, CredentialsAssumption DEF CredentialsType, Expire, Credential,
         StoredType, SlotType, FutureType, CallerType
    <3>2. SlotType'
      BY <2>14, CredentialsAssumption DEF CredentialsType, Expire, Credential,
         SlotType, StoredType, FutureType, CallerType
    <3> QED BY <2>14, <3>1, <3>2 DEF CredentialsType, Expire, FutureType,
       CallerType
  <2>15. CASE HostWrite
    <3>1. StoredType'
      BY <2>15, CredentialsAssumption DEF CredentialsType, HostWrite,
         NoCredential, Credential, SourceUnchanged, StoredType, SlotType,
         FutureType, CallerType
    <3> QED BY <2>15, <3>1 DEF CredentialsType, HostWrite, SourceUnchanged,
       SlotType, FutureType, CallerType
  <2>16. CASE UNCHANGED credentialVars
    BY <2>16 DEF credentialVars, CredentialsType, StoredType, SlotType,
       FutureType, CallerType
  <2> QED BY <2>1, <2>2, <2>3, <2>4, <2>5, <2>6, <2>7, <2>8, <2>9, <2>10,
     <2>11, <2>12, <2>13, <2>14, <2>15, <2>16 DEF CredentialsNext,
     CallerSteps, FutureSteps
<1> QED BY <1>1, <1>2, PTL DEF CredentialsSpec

(* Dropping futures nobody holds lets none of them run again.              *)
LEMMA DropStops ==
  ASSUME CredentialsType, DropUnheld
  PROVE  \A g \in Generations : future'[g] = future[g] \/ future'[g].pc = "done"
BY DEF CredentialsType, FutureType, DropUnheld, Gone, Job

(* One step of a caller, of the future or of the environment keeps it.     *)
LEMMA SingleFlightStep ==
  ASSUME CredentialsType, CredentialsType', SingleFlight,
         [CredentialsNext]_credentialVars
  PROVE  SingleFlight'
<1>1. ASSUME NEW c \in Resolvers, Resolve(c) PROVE SingleFlight'
  <2>1. ReleasedDone'
    BY <1>1, CredentialsAssumption DEF SingleFlight, Resolve, Goes, At,
       SourceUnchanged, StoreUnchanged, ReleasedDone, CredentialsType,
       StoredType, SlotType, FutureType, CallerType
  <2> QED BY <1>1, <2>1 DEF SingleFlight, Resolve, SourceUnchanged,
     StoreUnchanged, OneRunning, TokensUnspent, Unspent
<1>2. ASSUME NEW c \in Resolvers, resolve_stored(c) PROVE SingleFlight'
  <2>1. ReleasedDone'
    BY <1>2, CredentialsAssumption DEF SingleFlight, resolve_stored, Usable,
       Goes, Outside, At, Refreshable, NotFound, SourceUnchanged,
       StoreUnchanged, ReleasedDone, CredentialsType, StoredType, SlotType,
       FutureType, CallerType
  <2> QED BY <1>2, <2>1 DEF SingleFlight, resolve_stored, SourceUnchanged,
     StoreUnchanged, OneRunning, TokensUnspent, Unspent
<1>3. ASSUME NEW c \in Resolvers, clear_cached(c) PROVE SingleFlight'
  <2>1. ReleasedDone'
    BY <1>3, CredentialsAssumption DEF SingleFlight, clear_cached, Goes, At,
       StoreUnchanged, ReleasedDone, CredentialsType, StoredType, SlotType,
       FutureType, CallerType
  <2> QED BY <1>3, <2>1 DEF SingleFlight, clear_cached, StoreUnchanged,
     OneRunning, TokensUnspent, Unspent
<1>4. ASSUME NEW c \in Resolvers, ReadCache(c) PROVE SingleFlight'
  <2>1. ReleasedDone'
    BY <1>4, CredentialsAssumption DEF SingleFlight, ReadCache, Goes, Outside,
       At, SourceUnchanged, StoreUnchanged, ReleasedDone, CredentialsType,
       StoredType, SlotType, FutureType, CallerType
  <2> QED BY <1>4, <2>1 DEF SingleFlight, ReadCache, SourceUnchanged,
     StoreUnchanged, OneRunning, TokensUnspent, Unspent
<1>5. ASSUME NEW c \in Resolvers, JoinFlight(c) PROVE SingleFlight'
  <2>1. ReleasedDone'
    BY <1>5, CredentialsAssumption DEF SingleFlight, JoinFlight, Joins, Goes,
       At, SourceUnchanged, StoreUnchanged, ReleasedDone, CredentialsType,
       StoredType, SlotType, FutureType, CallerType
  <2> QED BY <1>5, <2>1 DEF SingleFlight, JoinFlight, SourceUnchanged,
     StoreUnchanged, OneRunning, TokensUnspent, Unspent
<1>6. ASSUME NEW c \in Resolvers, StartFlight(c) PROVE SingleFlight'
  <2>1. OneRunning'
    BY <1>6, CredentialsAssumption DEF SingleFlight, StartFlight, Job, Joins,
       Goes, At, StoreUnchanged, OneRunning, Generations, CredentialsType,
       StoredType, SlotType, FutureType, CallerType
  <2>2. ReleasedDone'
    BY <1>6, CredentialsAssumption DEF SingleFlight, StartFlight, Job, Joins,
       Goes, At, StoreUnchanged, ReleasedDone, CredentialsType, StoredType,
       SlotType, FutureType, CallerType
  <2>3. TokensUnspent'
    BY <1>6, CredentialsAssumption DEF SingleFlight, StartFlight, Job, Joins,
       Goes, At, StoreUnchanged, TokensUnspent, Unspent, Generations,
       CredentialsType, StoredType, SlotType, FutureType, CallerType
  <2> QED BY <1>6, <2>1, <2>2, <2>3 DEF SingleFlight
<1>7. ASSUME NEW c \in Resolvers, FillCache(c) PROVE SingleFlight'
  <2>1. ReleasedDone'
    BY <1>7, CredentialsAssumption DEF SingleFlight, FillCache, Goes, At,
       StoreUnchanged, ReleasedDone, CredentialsType, StoredType, SlotType,
       FutureType, CallerType
  <2> QED BY <1>7, <2>1 DEF SingleFlight, FillCache, StoreUnchanged,
     OneRunning, TokensUnspent, Unspent
<1>8. ASSUME NEW c \in Resolvers, Release(c) PROVE SingleFlight'
  <2>1. OneRunning'
    <3>1. \A g \in Generations : future'[g] = future[g] \/ future'[g].pc = "done"
      BY <1>8, DropStops DEF Release
    <3>2. future[resolver[c].gen].pc = "done"
      BY <1>8 DEF Release, SingleFlight, ReleasedDone
    <3>3. inFlight' = inFlight \ {resolver[c].gen}
      BY <1>8 DEF Release, clear_generation
    <3> QED BY <3>1, <3>2, <3>3 DEF SingleFlight, OneRunning
  <2>2. ReleasedDone'
    <3>1. \A g \in Generations : future'[g] = future[g] \/ future'[g].pc = "done"
      BY <1>8, DropStops DEF Release
    <3>2. /\ resolver'[c].phase \notin {"await", "release"}
          /\ \A d \in Resolvers : d # c => resolver'[d] = resolver[d]
      BY <1>8 DEF Release, NotFound, Goes, Outside, At, CredentialsType, CallerType
    <3>3. \A d \in Resolvers :
            resolver[d].phase \in {"await", "release"} => resolver[d].gen \in Generations
      BY CredentialsAssumption DEF SingleFlight, ReleasedDone, Generations,
         CredentialsType, SlotType, CallerType
    <3> QED BY <1>8, <3>1, <3>2, <3>3 DEF Release, SingleFlight, ReleasedDone
  <2>3. TokensUnspent'
    BY <1>8, CredentialsAssumption DEF SingleFlight, Release,
       clear_generation, NotFound, Goes, At, Outside, DropUnheld, Holds, Gone,
       Job, StoreUnchanged, TokensUnspent, Unspent, Generations,
       CredentialsType, StoredType, SlotType, FutureType, CallerType
  <2> QED BY <1>8, <2>1, <2>2, <2>3 DEF SingleFlight
<1>9. ASSUME NEW c \in Resolvers, GivesUp(c) PROVE SingleFlight'
  <2>1. OneRunning'
    BY <1>9, CredentialsAssumption DEF SingleFlight, GivesUp, Goes, Outside,
       At, DropUnheld, Holds, Gone, Job, StoreUnchanged, OneRunning,
       Generations, CredentialsType, StoredType, SlotType, FutureType,
       CallerType
  <2>2. ReleasedDone'
    <3>1. \A g \in Generations : future'[g] = future[g] \/ future'[g].pc = "done"
      BY <1>9, DropStops DEF GivesUp
    <3>2. /\ resolver'[c].phase \notin {"await", "release"}
          /\ \A d \in Resolvers : d # c => resolver'[d] = resolver[d]
      BY <1>9 DEF GivesUp, Goes, Outside, At, CredentialsType, CallerType
    <3>3. \A d \in Resolvers :
            resolver[d].phase \in {"await", "release"} => resolver[d].gen \in Generations
      BY CredentialsAssumption DEF SingleFlight, ReleasedDone, Generations,
         CredentialsType, SlotType, CallerType
    <3> QED BY <1>9, <3>1, <3>2, <3>3 DEF GivesUp, SingleFlight, ReleasedDone
  <2>3. TokensUnspent'
    BY <1>9, CredentialsAssumption DEF SingleFlight, GivesUp, Goes, Outside,
       At, DropUnheld, Holds, Gone, Job, StoreUnchanged, TokensUnspent,
       Unspent, Generations, CredentialsType, StoredType, SlotType,
       FutureType, CallerType
  <2> QED BY <1>9, <2>1, <2>2, <2>3 DEF SingleFlight
<1>10. ASSUME NEW g \in 0 .. nextGen - 1, RefreshLookup(g) PROVE SingleFlight'
  <2>1. OneRunning'
    BY <1>10, CredentialsAssumption, SMTT(40) DEF SingleFlight, RefreshLookup,
       FutureAt, Polled, Usable, Result, Becomes, Job, Refreshable,
       StoreUnchanged, OneRunning, Generations, CredentialsType, StoredType,
       SlotType, FutureType, CallerType
  <2>2. ReleasedDone'
    <3>1. g \in Generations
      BY CredentialsAssumption DEF Generations, CredentialsType, SlotType
    <3>2. \E job : future' = [future EXCEPT ![g] = job]
      BY <1>10 DEF RefreshLookup, Result, Becomes
    <3>3. future[g].pc = "start"
      BY <1>10 DEF RefreshLookup, FutureAt
    <3> QED BY <1>10, <3>1, <3>2, <3>3 DEF RefreshLookup, SingleFlight,
       ReleasedDone, CredentialsType, FutureType
  <2>3. TokensUnspent'
    <3>1. g \in Generations
      BY CredentialsAssumption DEF Generations, CredentialsType, SlotType
    <3>2. UNCHANGED <<stored, issued, spent>>
      BY <1>10 DEF RefreshLookup, StoreUnchanged
    <3>3. \/ \E r : future' = [future EXCEPT ![g] = Job(future[g].flow, "done", future[g].token, r)]
          \/ /\ Refreshable(stored)
             /\ future' = [future EXCEPT ![g] = Job("refresh", "sent", stored.token, "none")]
      BY <1>10 DEF RefreshLookup, Result, Becomes
    <3>4. CASE \E r : future' = [future EXCEPT ![g] = Job(future[g].flow, "done", future[g].token, r)]
      BY <3>1, <3>2, <3>4 DEF Job, SingleFlight, TokensUnspent, Unspent,
         CredentialsType, FutureType
    <3>5. CASE /\ Refreshable(stored)
               /\ future' = [future EXCEPT ![g] = Job("refresh", "sent", stored.token, "none")]
      BY <3>1, <3>2, <3>5 DEF Job, Refreshable, SingleFlight, TokensUnspent,
         Unspent, CredentialsType, FutureType
    <3> QED BY <3>3, <3>4, <3>5
  <2> QED BY <1>10, <2>1, <2>2, <2>3 DEF SingleFlight
<1>11. ASSUME NEW g \in 0 .. nextGen - 1, Ask(g) PROVE SingleFlight'
  <2>1. OneRunning'
    BY <1>11, CredentialsAssumption DEF SingleFlight, Ask, FutureAt, Polled,
       Becomes, Job, StoreUnchanged, OneRunning, Generations, CredentialsType,
       StoredType, SlotType, FutureType, CallerType
  <2>2. ReleasedDone'
    BY <1>11, CredentialsAssumption DEF SingleFlight, Ask, FutureAt, Polled,
       Becomes, Job, StoreUnchanged, ReleasedDone, CredentialsType,
       StoredType, SlotType, FutureType, CallerType
  <2>3. TokensUnspent'
    BY <1>11, CredentialsAssumption DEF SingleFlight, Ask, FutureAt, Polled,
       Becomes, Job, StoreUnchanged, TokensUnspent, Unspent, Generations,
       CredentialsType, StoredType, SlotType, FutureType, CallerType
  <2> QED BY <1>11, <2>1, <2>2, <2>3 DEF SingleFlight
<1>12. ASSUME NEW g \in 0 .. nextGen - 1, Unanswered(g) PROVE SingleFlight'
  <2>1. OneRunning'
    BY <1>12, CredentialsAssumption DEF SingleFlight, Unanswered, Polled,
       Result, Becomes, Job, StoreUnchanged, OneRunning, Generations,
       CredentialsType, StoredType, SlotType, FutureType, CallerType
  <2>2. ReleasedDone'
    BY <1>12, CredentialsAssumption DEF SingleFlight, Unanswered, Polled,
       Result, Becomes, Job, StoreUnchanged, ReleasedDone, CredentialsType,
       StoredType, SlotType, FutureType, CallerType
  <2>3. TokensUnspent'
    BY <1>12, CredentialsAssumption DEF SingleFlight, Unanswered, Polled,
       Result, Becomes, Job, StoreUnchanged, TokensUnspent, Unspent,
       Generations, CredentialsType, StoredType, SlotType, FutureType,
       CallerType
  <2> QED BY <1>12, <2>1, <2>2, <2>3 DEF SingleFlight
<1>13. ASSUME NEW g \in 0 .. nextGen - 1, StoreAnswer(g) PROVE SingleFlight'
  <2>1. OneRunning'
    BY <1>13, CredentialsAssumption DEF SingleFlight, StoreAnswer, Polled,
       Credential, Result, Becomes, Job, OneRunning, Generations,
       CredentialsType, StoredType, SlotType, FutureType, CallerType
  <2>2. ReleasedDone'
    BY <1>13, CredentialsAssumption DEF SingleFlight, StoreAnswer, Polled,
       Credential, Result, Becomes, Job, ReleasedDone, CredentialsType,
       StoredType, SlotType, FutureType, CallerType
  <2>3. TokensUnspent'
    <3>1. g \in Generations
      BY CredentialsAssumption DEF Generations, CredentialsType, SlotType
    <3>2. /\ future[g].token \in Nat /\ issued \in Nat /\ spent \subseteq Nat
          /\ \A t \in spent : t <= issued
          /\ Unspent(future[g].token)
      BY <1>13, <3>1 DEF StoreAnswer, SingleFlight, TokensUnspent,
         CredentialsType, FutureType, StoredType
    <3>3. \A h \in Generations : future'[h].pc # "sent"
      BY <1>13, <3>1 DEF StoreAnswer, Result, Becomes, Job, SingleFlight,
         OneRunning, CredentialsType, FutureType
    <3>4. CASE /\ issued' = issued + 1 /\ stored' = Credential("oauth2", issued + 1)
               /\ spent' = spent \cup {future[g].token}
      <4>1. stored'.token = issued + 1
        BY <3>4 DEF Credential
      <4>2. \A t \in spent' : t <= issued
        BY <3>2, <3>4 DEF Unspent
      <4>3. issued + 1 \notin spent'
        BY <3>2, <4>2
      <4> QED BY <3>2, <3>3, <3>4, <4>1, <4>2, <4>3 DEF TokensUnspent, Unspent
    <3>5. CASE /\ stored' = Credential("oauth2", future[g].token)
               /\ UNCHANGED <<issued, spent>>
      <4>1. stored'.token = future[g].token
        BY <3>5 DEF Credential
      <4> QED BY <3>2, <3>3, <3>5, <4>1 DEF TokensUnspent, Unspent
    <3> QED BY <1>13, <3>4, <3>5 DEF StoreAnswer
  <2> QED BY <1>13, <2>1, <2>2, <2>3 DEF SingleFlight
<1>14. CASE Expire
  <2>1. TokensUnspent'
    BY <1>14, CredentialsAssumption DEF SingleFlight, Expire, Credential,
       TokensUnspent, Unspent, Generations, CredentialsType, StoredType,
       SlotType, FutureType, CallerType
  <2> QED BY <1>14, <2>1 DEF SingleFlight, Expire, OneRunning, ReleasedDone
<1>15. CASE HostWrite
  <2>1. TokensUnspent'
    BY <1>15, CredentialsAssumption DEF SingleFlight, HostWrite, NoCredential,
       Credential, SourceUnchanged, TokensUnspent, Unspent, Generations,
       CredentialsType, StoredType, SlotType, FutureType, CallerType
  <2> QED BY <1>15, <2>1 DEF SingleFlight, HostWrite, SourceUnchanged,
     OneRunning, ReleasedDone
<1>16. CASE UNCHANGED credentialVars
  BY <1>16 DEF credentialVars, SingleFlight, OneRunning, ReleasedDone,
     TokensUnspent, Unspent
<1> QED BY <1>1, <1>2, <1>3, <1>4, <1>5, <1>6, <1>7, <1>8, <1>9, <1>10, <1>11,
   <1>12, <1>13, <1>14, <1>15, <1>16 DEF CredentialsNext, CallerSteps,
   FutureSteps

(* At most one future runs, and no spent token is presented.               *)
THEOREM TokensPresentedOnce == CredentialsSpec => []PresentedOnce
<1>1. CredentialsInit => SingleFlight
  BY CredentialsAssumption DEF CredentialsInit, SingleFlight, OneRunning,
     ReleasedDone, TokensUnspent, Unspent, Generations, NoCredential,
     Credential, Gone, Job, Outside, At
<1>2. CredentialsType /\ CredentialsType' /\ SingleFlight
        /\ [CredentialsNext]_credentialVars => SingleFlight'
  BY SingleFlightStep
<1>3. CredentialsType /\ SingleFlight => PresentedOnce
  <2> SUFFICES ASSUME CredentialsType, SingleFlight PROVE PresentedOnce
    OBVIOUS
  <2> DEFINE Running == {g \in DOMAIN future : future[g].pc # "done"}
  <2>1. Running = {} \/ \E g : Running = {g}
    BY DEF SingleFlight, OneRunning, CredentialsType, FutureType
  <2> HIDE DEF Running
  <2>2. Cardinality(Running) <= 1
    <3>1. CASE Running = {}
      BY <3>1, FS_EmptySet
    <3>2. ASSUME NEW g, Running = {g} PROVE Cardinality(Running) <= 1
      <4>1. Cardinality({g}) = 1
        BY FS_Singleton
      <4> QED BY <3>2, <4>1
    <3> QED BY <2>1, <3>1, <3>2
  <2>3. DOMAIN future = Generations
    BY DEF CredentialsType, FutureType
  <2>4. \A g \in Generations : future[g].pc = "sent" /\ future[g].flow = "refresh"
                                => future[g].token \notin spent
    BY DEF SingleFlight, TokensUnspent, Unspent
  <2> QED BY <2>2, <2>3, <2>4 DEF PresentedOnce, Running
<1> QED BY <1>1, <1>2, <1>3, CredentialsTypeCorrect, PTL DEF CredentialsSpec

-----------------------------------------------------------------------------
(* The artifact store (ArtifactVersions).                                  *)
Records == Seq(Nat)
Places == {"idle", "save", "save_check", "content", "content_written", "meta", "meta_written",
           "load", "load_check", "load_read", "delete"}
Calls == [pc : Places, save : Nat, meta : Records]
Numbered(f) == DOMAIN f \subseteq Nat /\ \A v \in DOMAIN f : f[v] \in Nat
StoreType == meta \in Records /\ Numbered(files) /\ Numbered(acked)
CallsType == holder \in Tools \cup {"free"} /\ call \in [Tools -> Calls]
Pending == [of : Tools, save : Nat, what : {"content", "meta"}, meta : Records]
PendingType == pendingWrites \subseteq Pending
FaultsType == saves \in Nat /\ faults \in Nat /\ abandons \in Nat /\ exposed \subseteq Nat

(* Artifact, callers, writes and counters hold values the code's types     *)
(* allow.                                                                  *)
ArtifactType == StoreType /\ CallsType /\ PendingType /\ FaultsType

(* The strengthening for VersionsImmutable.  A tool without the locks is   *)
(* in no call, saves have their numbers, and a write is out for the save   *)
(* its holder waits in or for a save that was dropped ...                  *)
Held == \A t \in Tools : holder # t => call[t] = NoCall
Adding == {"content", "content_written", "meta", "meta_written"}
SavesNumbered ==
  /\ \A t \in Tools : call[t].save <= saves
  /\ \A t \in Tools : call[t].pc \in Adding \cup {"save", "save_check"} => call[t].save > 0
  /\ \A w \in pendingWrites : w.save > 0 /\ w.save <= saves
Stray(w) == call[w.of].save # w.save
Owned ==
  \A w \in pendingWrites : ~Stray(w) =>
    /\ holder = w.of /\ call[w.of].pc \in {"content", "meta"}
    /\ w = Write(w.of, call[w.of].pc)
(* ... a stray write is for an exposed version.  A stray record is one too *)
(* long for the metadata and has its content, so next_version lets no save *)
(* pass until it is added, which takes nothing away ...                    *)
StraysExposed == \A w \in pendingWrites : Stray(w) => Len(w.meta) \in exposed
NextRecord(w) ==
  /\ \A t \in Tools : call[t].pc \notin Adding
  /\ Len(w.meta) = Len(meta) + 1 /\ Len(w.meta) \in DOMAIN files
  /\ \A v \in DOMAIN acked : w.meta[v] = acked[v]
  /\ \A x \in pendingWrites : x.what = "meta" => x = w
StrayRecord == \A w \in pendingWrites : Stray(w) /\ w.what = "meta" => NextRecord(w)
(* ... so what a save that passed read of the metadata is what is there    *)
(* until its own record is added, and then its content is there too, unless*)
(* a stray write of the same version replaced it ...                       *)
StillSo ==
  \A t \in Tools :
    /\ call[t].pc = "save_check" =>
         call[t].meta = meta \/ ~(DOMAIN files \subseteq DOMAIN call[t].meta)
    /\ call[t].pc \in {"content", "content_written", "meta"} => call[t].meta = meta
    /\ call[t].pc = "meta_written" => meta = Append(call[t].meta, call[t].save)
Stored(v, save) == v \in DOMAIN files /\ (v \notin exposed => files[v] = save)
ContentThere ==
  \A t \in Tools :
    call[t].pc \in {"content_written", "meta", "meta_written"} =>
      Stored(Len(call[t].meta) + 1, call[t].save)
(* ... and nothing is promised or out any more where the artifact is       *)
(* deleted.                                                                *)
Deleting ==
  \A t \in Tools : call[t].pc = "delete" => DOMAIN acked = {} /\ pendingWrites = {}
Acked == \A v \in DOMAIN acked : v \in DOMAIN meta /\ meta[v] = acked[v] /\ Stored(v, acked[v])
VersionsSafe ==
  /\ Held /\ SavesNumbered /\ Owned
  /\ Everything \notin exposed =>
       StraysExposed /\ StrayRecord /\ StillSo /\ ContentThere /\ Deleting /\ Acked

-----------------------------------------------------------------------------
(* What calls, files and records look like.                                *)
LEMMA Called ==
  /\ \A pc, s, read : Call(pc, s, read).pc = pc /\ Call(pc, s, read).save = s
                      /\ Call(pc, s, read).meta = read
  /\ \A pc \in Places : \A s \in Nat : \A read \in Records : Call(pc, s, read) \in Calls
  /\ \A c \in Calls : c.pc \in Places /\ c.save \in Nat /\ c.meta \in Records
  /\ << >> \in Records /\ NoCall \in Calls /\ NoCall.pc = "idle" /\ 0 \in Nat
  /\ "idle" \in Places /\ "save" \in Places /\ "save_check" \in Places
  /\ "content" \in Places
  /\ "content_written" \in Places /\ "meta" \in Places /\ "meta_written" \in Places
  /\ "load" \in Places /\ "load_check" \in Places /\ "load_read" \in Places
  /\ "delete" \in Places
BY DEF Call, NoCall, Calls, Records, Places

LEMMA Moved ==
  ASSUME call \in [Tools -> Calls], NEW t \in Tools, NEW pc \in Places, NEW s \in Nat,
         NEW read \in Records, call' = [call EXCEPT ![t] = Call(pc, s, read)]
  PROVE  /\ call' \in [Tools -> Calls] /\ \A u \in Tools \ {t} : call'[u] = call[u]
         /\ call'[t].pc = pc /\ call'[t].save = s /\ call'[t].meta = read
BY Called

LEMMA Returned ==
  ASSUME call \in [Tools -> Calls], NEW t \in Tools, Return(t)
  PROVE  /\ call' \in [Tools -> Calls] /\ \A u \in Tools \ {t} : call'[u] = call[u]
         /\ call'[t] = NoCall /\ holder' = "free"
BY Called DEF Return

LEMMA WriteTyped ==
  ASSUME call \in [Tools -> Calls], NEW t \in Tools, NEW what \in {"content", "meta"}
  PROVE  Write(t, what) \in Pending
<1>1. call[t].save \in Nat /\ call[t].meta \in Records
  BY Called
<1>2. Append(call[t].meta, call[t].save) \in Records
  BY <1>1 DEF Records
<1> QED BY <1>1, <1>2 DEF Write, Pending

LEMMA Unfiled ==
  ASSUME NEW f, NEW v
  PROVE  DOMAIN ButFor(f, v) = DOMAIN f \ {v} /\ \A u \in DOMAIN f \ {v} : ButFor(f, v)[u] = f[u]
BY DEF ButFor

LEMMA NothingFiled == DOMAIN NoFile = {}
BY DEF NoFile

LEMMA Renumbered ==
  ASSUME NEW f, Numbered(f)
  PROVE  /\ \A v, s \in Nat : Numbered(With(f, v, s))
         /\ \A v : Numbered(ButFor(f, v))
BY DEF Numbered, With, ButFor

LEMMA Recorded ==
  ASSUME NEW read \in Records, NEW s \in Nat
  PROVE  /\ Append(read, s) \in Records /\ Len(read) \in Nat /\ DOMAIN read = 1 .. Len(read)
         /\ Len(Append(read, s)) = Len(read) + 1
         /\ DOMAIN Append(read, s) = 1 .. Len(read) + 1
         /\ \A v \in DOMAIN read : Append(read, s)[v] = read[v]
         /\ Append(read, s)[Len(read) + 1] = s
BY DEF Records

(* The types are kept.                                                     *)
THEOREM ArtifactTypeCorrect == ArtifactSpec => []ArtifactType
<1> USE ArtifactAssumption
<1>1. ArtifactInit => ArtifactType
  BY Called, NothingFiled DEF ArtifactInit, ArtifactType, StoreType, CallsType,
     PendingType, FaultsType, Numbered
<1>2. ArtifactType /\ [ArtifactNext]_artifactVars => ArtifactType'
  <2> SUFFICES ASSUME ArtifactType, [ArtifactNext]_artifactVars PROVE ArtifactType'
    OBVIOUS
  <2>1. ASSUME NEW t \in Tools, BeginArtifactSave(t) PROVE ArtifactType'
    <3>1. call' \in [Tools -> Calls] /\ holder' \in Tools \cup {"free"}
      BY <2>1, Called, Moved DEF BeginArtifactSave, Lock, ArtifactType,
         CallsType, FaultsType
    <3>2. StoreType'
      BY <2>1 DEF BeginArtifactSave, ArtifactType, StoreType
    <3>3. CallsType'
      BY <3>1 DEF ArtifactType, CallsType
    <3>4. PendingType'
      BY <2>1 DEF BeginArtifactSave, ArtifactType, PendingType
    <3>5. FaultsType'
      BY <2>1 DEF BeginArtifactSave, Lock, CountersUnchanged, ArtifactType,
         FaultsType
    <3> QED BY <3>2, <3>3, <3>4, <3>5 DEF ArtifactType
  <2>2. ASSUME NEW t \in Tools, BeginLoad(t) PROVE ArtifactType'
    <3>1. call' \in [Tools -> Calls] /\ holder' \in Tools \cup {"free"}
      BY <2>2, Called, Moved DEF BeginLoad, Lock, ArtifactType, CallsType,
         FaultsType
    <3>2. StoreType'
      BY <2>2 DEF BeginLoad, ArtifactType, StoreType
    <3>3. CallsType'
      BY <3>1 DEF ArtifactType, CallsType
    <3>4. PendingType'
      BY <2>2 DEF BeginLoad, ArtifactType, PendingType
    <3>5. FaultsType'
      BY <2>2 DEF BeginLoad, Lock, CountersUnchanged, ArtifactType, FaultsType
    <3> QED BY <3>2, <3>3, <3>4, <3>5 DEF ArtifactType
  <2>3. ASSUME NEW t \in Tools, BeginDelete(t) PROVE ArtifactType'
    <3>1. call' \in [Tools -> Calls] /\ holder' \in Tools \cup {"free"}
      BY <2>3, Called, Moved DEF BeginDelete, Lock, ArtifactType, CallsType,
         FaultsType
    <3>2. StoreType'
      BY <2>3, NothingFiled DEF BeginDelete, ArtifactType, StoreType, Numbered
    <3>3. CallsType'
      BY <3>1 DEF ArtifactType, CallsType
    <3>4. PendingType'
      BY <2>3 DEF BeginDelete, ArtifactType, PendingType
    <3>5. FaultsType'
      BY <2>3 DEF BeginDelete, Lock, Everything, ArtifactType, FaultsType
    <3> QED BY <3>2, <3>3, <3>4, <3>5 DEF ArtifactType
  <2>4. ASSUME NEW t \in Tools, ReadMeta(t) PROVE ArtifactType'
    <3>1. call' \in [Tools -> Calls] /\ holder' \in Tools \cup {"free"}
      BY <2>4, Called, Moved DEF ReadMeta, ArtifactType, CallsType, StoreType
    <3>2. StoreType'
      BY <2>4 DEF ReadMeta, ArtifactType, StoreType
    <3>3. CallsType'
      BY <3>1 DEF ArtifactType, CallsType
    <3>4. PendingType'
      BY <2>4 DEF ReadMeta, ArtifactType, PendingType
    <3>5. FaultsType'
      BY <2>4 DEF ReadMeta, Lock, CountersUnchanged, ArtifactType, FaultsType
    <3> QED BY <3>2, <3>3, <3>4, <3>5 DEF ArtifactType
  <2>5. ASSUME NEW t \in Tools, next_version(t) PROVE ArtifactType'
    <3>1. call' \in [Tools -> Calls] /\ holder' \in Tools \cup {"free"}
      BY <2>5, Called, Moved, Returned DEF next_version, Goto, ArtifactType,
         CallsType
    <3>2. Write(t, "content") \in Pending /\ Write(t, "meta") \in Pending
      BY WriteTyped DEF ArtifactType, CallsType
    <3>3. call' \in [Tools -> Calls] /\ holder' \in Tools \cup {"free"}
      BY <3>1
    <3>4. StoreType'
      BY <2>5 DEF next_version, ArtifactType, StoreType
    <3>5. CallsType'
      BY <3>3 DEF ArtifactType, CallsType
    <3>6. PendingType'
      BY <2>5, <3>2 DEF next_version, Spawn, ArtifactType, PendingType
    <3>7. FaultsType'
      BY <2>5 DEF next_version, Lock, CountersUnchanged, ArtifactType, FaultsType
    <3> QED BY <3>4, <3>5, <3>6, <3>7 DEF ArtifactType
  <2>6. ASSUME NEW t \in Tools, ContentWritten(t) PROVE ArtifactType'
    <3>1. call' \in [Tools -> Calls] /\ holder' \in Tools \cup {"free"}
      BY <2>6, Called, Moved, Returned DEF ContentWritten, Goto, ArtifactType,
         CallsType
    <3>2. Write(t, "content") \in Pending /\ Write(t, "meta") \in Pending
      BY WriteTyped DEF ArtifactType, CallsType
    <3>3. call' \in [Tools -> Calls] /\ holder' \in Tools \cup {"free"}
      BY <3>1
    <3>4. StoreType'
      BY <2>6 DEF ContentWritten, ArtifactType, StoreType
    <3>5. CallsType'
      BY <3>3 DEF ArtifactType, CallsType
    <3>6. PendingType'
      BY <2>6, <3>2 DEF ContentWritten, Spawn, ArtifactType, PendingType
    <3>7. FaultsType'
      BY <2>6 DEF ContentWritten, Lock, CountersUnchanged, ArtifactType, FaultsType
    <3> QED BY <3>4, <3>5, <3>6, <3>7 DEF ArtifactType
  <2>7. ASSUME NEW t \in Tools, SaveReturns(t) PROVE ArtifactType'
    <3>1. call' \in [Tools -> Calls] /\ holder' \in Tools \cup {"free"}
      BY <2>7, Called, Moved, Returned DEF SaveReturns, Goto, ArtifactType,
         CallsType
    <3>2. StoreType'
      <4>1. Len(call[t].meta) + 1 \in Nat /\ call[t].save \in Nat
        BY Called DEF ArtifactType, CallsType, Records
      <4>2. Numbered(With(acked, Len(call[t].meta) + 1, call[t].save))
        BY <4>1, Renumbered DEF ArtifactType, StoreType
      <4> QED BY <2>7, <4>2 DEF SaveReturns, ArtifactType, StoreType
    <3>3. CallsType'
      BY <3>1 DEF ArtifactType, CallsType
    <3>4. PendingType'
      BY <2>7 DEF SaveReturns, ArtifactType, PendingType
    <3>5. FaultsType'
      BY <2>7 DEF SaveReturns, Lock, CountersUnchanged, ArtifactType, FaultsType
    <3> QED BY <3>2, <3>3, <3>4, <3>5 DEF ArtifactType
  <2>8. ASSUME NEW t \in Tools, LoadChecks(t) PROVE ArtifactType'
    <3>1. call' \in [Tools -> Calls] /\ holder' \in Tools \cup {"free"}
      BY <2>8, Called, Moved, Returned DEF LoadChecks, Goto, ArtifactType, CallsType
    <3>2. StoreType'
      BY <2>8 DEF LoadChecks, ArtifactType, StoreType
    <3>3. CallsType'
      BY <3>1 DEF ArtifactType, CallsType
    <3>4. PendingType'
      BY <2>8 DEF LoadChecks, ArtifactType, PendingType
    <3>5. FaultsType'
      BY <2>8 DEF LoadChecks, Lock, CountersUnchanged, ArtifactType, FaultsType
    <3> QED BY <3>2, <3>3, <3>4, <3>5 DEF ArtifactType
  <2>9. ASSUME NEW t \in Tools, LoadReturns(t) PROVE ArtifactType'
    <3>1. call' \in [Tools -> Calls] /\ holder' \in Tools \cup {"free"}
      BY <2>9, Called, Moved, Returned DEF LoadReturns, Goto, ArtifactType,
         CallsType
    <3>2. StoreType'
      BY <2>9 DEF LoadReturns, ArtifactType, StoreType
    <3>3. CallsType'
      BY <3>1 DEF ArtifactType, CallsType
    <3>4. PendingType'
      BY <2>9 DEF LoadReturns, ArtifactType, PendingType
    <3>5. FaultsType'
      BY <2>9 DEF LoadReturns, Lock, CountersUnchanged, ArtifactType, FaultsType
    <3> QED BY <3>2, <3>3, <3>4, <3>5 DEF ArtifactType
  <2>10. ASSUME NEW t \in Tools, DeleteEntry(t) PROVE ArtifactType'
    <3>1. call' \in [Tools -> Calls] /\ holder' \in Tools \cup {"free"}
      BY <2>10, Called, Moved, Returned DEF DeleteEntry, Goto, ArtifactType,
         CallsType
    <3>2. StoreType'
      <4>1. << >> \in Records /\ \A v : Numbered(ButFor(files, v))
        BY Called, Renumbered DEF ArtifactType, StoreType
      <4>2. meta' \in {meta, << >>} /\ (files' = files \/ \E v : files' = ButFor(files, v)) /\ acked' = acked
        BY <2>10 DEF DeleteEntry
      <4> QED BY <4>1, <4>2 DEF ArtifactType, StoreType
    <3>3. CallsType'
      BY <3>1 DEF ArtifactType, CallsType
    <3>4. PendingType'
      BY <2>10 DEF DeleteEntry, ArtifactType, PendingType
    <3>5. FaultsType'
      BY <2>10 DEF DeleteEntry, Lock, CountersUnchanged, ArtifactType, FaultsType
    <3> QED BY <3>2, <3>3, <3>4, <3>5 DEF ArtifactType
  <2>11. ASSUME NEW t \in Tools, Abandon(t) PROVE ArtifactType'
    <3>1. call' \in [Tools -> Calls] /\ holder' \in Tools \cup {"free"}
      BY <2>11, Called, Moved, Returned DEF Abandon, Goto, ArtifactType, CallsType
    <3>2. StoreType'
      BY <2>11 DEF Abandon, ArtifactType, StoreType
    <3>3. CallsType'
      BY <3>1 DEF ArtifactType, CallsType
    <3>4. PendingType'
      BY <2>11 DEF Abandon, ArtifactType, PendingType
    <3>5. FaultsType'
      <4>1. Len(call[t].meta) + 1 \in Nat
        BY Called, Recorded DEF ArtifactType, CallsType
      <4>2. /\ exposed' = exposed \/ exposed' = exposed \cup {Len(call[t].meta) + 1}
            /\ abandons' = abandons \/ abandons' = abandons + 1
        <5>1. CASE WriteOut(t)
          BY <2>11, <5>1 DEF Abandon
        <5>2. CASE ~WriteOut(t)
          BY <2>11, <5>2 DEF Abandon
        <5> QED BY <5>1, <5>2
      <4>3. UNCHANGED <<saves, faults>>
        BY <2>11 DEF Abandon
      <4>4. exposed' \subseteq Nat
        BY <4>1, <4>2, Zenon DEF ArtifactType, FaultsType
      <4>5. saves' \in Nat /\ faults' \in Nat /\ abandons' \in Nat
        BY <4>2, <4>3 DEF ArtifactType, FaultsType
      <4> QED BY <4>4, <4>5 DEF FaultsType
    <3> QED BY <3>2, <3>3, <3>4, <3>5 DEF ArtifactType
  <2>12. ASSUME NEW t \in Tools, ArtifactCrash(t) PROVE ArtifactType'
    <3>1. call' \in [Tools -> Calls] /\ holder' \in Tools \cup {"free"}
      BY <2>12, Called, Moved, Returned DEF ArtifactCrash, Goto, ArtifactType,
         CallsType
    <3>2. StoreType'
      BY <2>12 DEF ArtifactCrash, ArtifactType, StoreType
    <3>3. CallsType'
      BY <3>1 DEF ArtifactType, CallsType
    <3>4. PendingType'
      BY <2>12 DEF ArtifactCrash, ArtifactType, PendingType
    <3>5. FaultsType'
      BY <2>12 DEF ArtifactCrash, Lock, CountersUnchanged, ArtifactType, FaultsType
    <3> QED BY <3>2, <3>3, <3>4, <3>5 DEF ArtifactType
  <2>13. ASSUME NEW w \in pendingWrites, WriteLands(w) PROVE ArtifactType'
    <3>1. /\ w.of \in Tools /\ w.save \in Nat /\ w.meta \in Records
          /\ w.what \in {"content", "meta"}
          /\ Len(w.meta) \in Nat
      BY Recorded DEF ArtifactType, PendingType, Pending
    <3>2. call' \in [Tools -> Calls] /\ holder' \in Tools \cup {"free"}
      BY <2>13, <3>1, Called, Moved, SMTT(40) DEF WriteLands, Goto, Landed,
         ArtifactType, CallsType
    <3>3. StoreType'
      <4>1. Numbered(With(files, Len(w.meta), w.save))
        BY <3>1, Renumbered DEF ArtifactType, StoreType
      <4>2. /\ meta' \in {meta, w.meta}
            /\ files' \in {files, With(files, Len(w.meta), w.save)}
            /\ acked' = acked
        BY <2>13 DEF WriteLands
      <4> QED BY <3>1, <4>1, <4>2 DEF ArtifactType, StoreType
    <3>4. CallsType'
      BY <3>2 DEF ArtifactType, CallsType
    <3>5. PendingType'
      BY <2>13 DEF WriteLands, ArtifactType, PendingType
    <3>6. FaultsType'
      BY <2>13 DEF WriteLands, Lock, CountersUnchanged, ArtifactType, FaultsType
    <3> QED BY <3>3, <3>4, <3>5, <3>6 DEF ArtifactType
  <2>14. ASSUME NEW w \in pendingWrites, WriteFails(w) PROVE ArtifactType'
    <3>1. /\ w.of \in Tools /\ w.save \in Nat /\ w.meta \in Records
          /\ w.what \in {"content", "meta"}
          /\ Len(w.meta) \in Nat
      BY Recorded DEF ArtifactType, PendingType, Pending
    <3>2. call' \in [Tools -> Calls] /\ holder' \in Tools \cup {"free"}
      BY <2>14, <3>1, Returned DEF WriteFails, ArtifactType, CallsType
    <3>3. StoreType'
      <4>1. \A v : Numbered(ButFor(files, v))
        BY Renumbered DEF ArtifactType, StoreType
      <4>2. /\ meta' = meta /\ files' \in {files, ButFor(files, Len(w.meta))}
            /\ acked' = acked
        BY <2>14 DEF WriteFails
      <4> QED BY <4>1, <4>2 DEF ArtifactType, StoreType
    <3>4. CallsType'
      BY <3>2 DEF ArtifactType, CallsType
    <3>5. PendingType'
      BY <2>14 DEF WriteFails, ArtifactType, PendingType
    <3>6. FaultsType'
      BY <2>14 DEF WriteFails, Lock, CountersUnchanged, ArtifactType, FaultsType
    <3> QED BY <3>3, <3>4, <3>5, <3>6 DEF ArtifactType
  <2>15. CASE UNCHANGED artifactVars
    BY <2>15 DEF artifactVars, ArtifactType, StoreType, CallsType,
       PendingType, FaultsType
  <2> QED BY <2>1, <2>2, <2>3, <2>4, <2>5, <2>6, <2>7, <2>8, <2>9, <2>10,
     <2>11, <2>12, <2>13, <2>14, <2>15 DEF ArtifactNext
<1> QED BY <1>1, <1>2, PTL DEF ArtifactSpec

(* What a stray write is depends on its caller's call alone, and a write   *)
(* nobody waits for stays one.                                             *)
LEMMA StaysStray ==
  ASSUME ArtifactType, SavesNumbered, NEW t \in Tools, NEW w \in pendingWrites, Stray(w),
         \A u \in Tools \ {t} : call'[u] = call[u],
         \/ call'[t].save = call[t].save \/ call'[t].save = 0 \/ call'[t].save = saves + 1
  PROVE  Stray(w)'
<1>1. w.of \in Tools /\ w.save \in Nat /\ w.save > 0 /\ w.save <= saves /\ saves \in Nat
  BY DEF ArtifactType, PendingType, Pending, FaultsType, SavesNumbered
<1>2. CASE w.of = t
  BY <1>1, <1>2 DEF Stray
<1>3. CASE w.of # t
  BY <1>1, <1>3 DEF Stray
<1> QED BY <1>2, <1>3

(* A tool that moves to a place where it adds nothing, with no write out,  *)
(* or returns, disturbs nothing that was saved.                            *)
LEMMA CallMoves ==
  ASSUME ArtifactType, VersionsSafe, NEW t \in Tools, NEW c \in Calls, call' = [call EXCEPT ![t] = c],
         holder \in {"free", t}, holder' = t \/ (holder' = "free" /\ c = NoCall),
         UNCHANGED <<meta, files, acked, exposed>>,
         pendingWrites' \subseteq pendingWrites, \A w \in pendingWrites' : Stray(w),
         saves' \in {saves, saves + 1}, c.save <= saves',
         c.save \in {0, call[t].save} \/ c.save = saves + 1,
         c.pc \in {"save", "save_check"} => c.save > 0,
         \/ c.pc \in {"idle", "save", "load", "load_check", "load_read"}
         \/ c.pc = "save_check" /\ c.meta = meta
  PROVE  VersionsSafe'
<1> USE ArtifactAssumption
<1>1. /\ call' \in [Tools -> Calls] /\ call'[t] = c /\ \A u \in Tools \ {t} : call'[u] = call[u]
      /\ saves \in Nat /\ call \in [Tools -> Calls]
  BY DEF ArtifactType, CallsType, FaultsType
<1>2. \A u \in Tools \ {t} : call'[u] = NoCall
  BY <1>1 DEF VersionsSafe, Held
<1>3. Held'
  BY <1>1, <1>2 DEF Held
<1>4. \A w \in pendingWrites' : Stray(w)'
  BY <1>1, StaysStray DEF VersionsSafe
<1>5. SavesNumbered'
  <2>1. \A u \in Tools : call'[u].save <= saves'
    BY <1>1, <1>2 DEF NoCall, Call
  <2>2. \A u \in Tools : call'[u].pc \in Adding \cup {"save", "save_check"} => call'[u].save > 0
    BY <1>1, <1>2 DEF NoCall, Call, Adding
  <2>3. \A w \in pendingWrites' : w.save > 0 /\ w.save <= saves'
    BY <1>1 DEF VersionsSafe, SavesNumbered, ArtifactType, PendingType, Pending
  <2> QED BY <2>1, <2>2, <2>3 DEF SavesNumbered
<1>6. Owned'
  BY <1>4 DEF Owned
<1>7. ASSUME Everything \notin exposed'
      PROVE  /\ StraysExposed' /\ StrayRecord' /\ StillSo' /\ ContentThere' /\ Deleting' /\ Acked'
  <2>1. StraysExposed /\ StrayRecord /\ Acked
    BY <1>7 DEF VersionsSafe
  <2>2. StraysExposed'
    BY <2>1 DEF StraysExposed
  <2>3. \A u \in Tools : call'[u].pc \notin Adding \cup {"delete"}
    BY <1>1, <1>2 DEF Adding, NoCall, Call
  <2>4. StrayRecord'
    BY <2>1, <2>3 DEF StrayRecord, NextRecord
  <2>5. StillSo' /\ ContentThere' /\ Deleting'
    BY <1>1, <1>2, <2>3 DEF StillSo, ContentThere, Deleting, Adding, NoCall, Call
  <2>6. Acked'
    BY <2>1 DEF Acked, Stored
  <2> QED BY <2>2, <2>4, <2>5, <2>6
<1> QED BY <1>3, <1>5, <1>6, <1>7 DEF VersionsSafe

(* Outside "content" and "meta" a tool with the locks waits for no write.  *)
LEMMA AllStray ==
  ASSUME ArtifactType, VersionsSafe, NEW t \in Tools, holder \in {"free", t},
         call[t].pc \notin {"content", "meta"}
  PROVE  \A w \in pendingWrites : Stray(w)
<1> SUFFICES ASSUME NEW w \in pendingWrites, ~Stray(w) PROVE FALSE
  OBVIOUS
<1>1. holder = w.of /\ call[w.of].pc \in {"content", "meta"} /\ w.of \in Tools
  BY DEF VersionsSafe, Owned, ArtifactType, PendingType, Pending
<1> QED BY <1>1, ArtifactAssumption

(* A call that returns with no write out disturbs nothing either.          *)
LEMMA StepsBack ==
  ASSUME ArtifactType, VersionsSafe, NEW t \in Tools, holder = t, Return(t),
         UNCHANGED <<meta, files, acked, exposed, saves>>,
         pendingWrites' \subseteq pendingWrites, \A w \in pendingWrites' : Stray(w)
  PROVE  VersionsSafe'
<1>1. NoCall \in Calls /\ NoCall.pc = "idle" /\ NoCall.save = 0
  BY Called DEF NoCall
<1>2. call' = [call EXCEPT ![t] = NoCall] /\ holder' = "free" /\ NoCall.save <= saves'
  BY <1>1 DEF Return, ArtifactType, FaultsType
<1> QED BY <1>1, <1>2, CallMoves

(* A version save() returned stays, record and content, until the artifact *)
(* is deleted (VersionsImmutable).                                         *)
THEOREM VersionsStay == ArtifactSpec => []VersionsImmutable
<1> USE ArtifactAssumption
<1>1. ArtifactInit => VersionsSafe
  BY Called, NothingFiled DEF ArtifactInit, VersionsSafe, Held, SavesNumbered, Owned, StraysExposed,
     StrayRecord, StillSo, ContentThere, Deleting, Acked, Adding, NoCall, Call
<1>2. ArtifactType /\ VersionsSafe /\ [ArtifactNext]_artifactVars => VersionsSafe'
  <2> SUFFICES ASSUME ArtifactType, VersionsSafe, [ArtifactNext]_artifactVars PROVE VersionsSafe'
    OBVIOUS
  <2> /\ call \in [Tools -> Calls] /\ holder \in Tools \cup {"free"} /\ saves \in Nat
      /\ meta \in Records
    BY DEF ArtifactType, CallsType, FaultsType, StoreType
  <2>1. ASSUME NEW t \in Tools, BeginArtifactSave(t) PROVE VersionsSafe'
    <3> DEFINE c == Call("save", saves + 1, << >>)
    <3>1. c \in Calls /\ c.pc = "save" /\ c.save = saves + 1
      <4>1. saves + 1 \in Nat
        OBVIOUS
      <4> QED BY <4>1 DEF Call, Calls, Places, Records
    <3>2. /\ holder = "free" /\ holder' = t /\ call' = [call EXCEPT ![t] = c]
          /\ saves' = saves + 1 /\ UNCHANGED <<meta, files, acked, exposed, pendingWrites>>
          /\ call[t].pc = "idle"
      BY <2>1, Called DEF BeginArtifactSave, Lock
    <3> HIDE DEF c
    <3>3. \A w \in pendingWrites' : Stray(w)
      BY <3>2, AllStray
    <3>4. saves' \in {saves, saves + 1} /\ c.save <= saves' /\ c.save > 0
      BY <3>1, <3>2
    <3> QED BY <3>1, <3>2, <3>3, <3>4, CallMoves
  <2>2. ASSUME NEW t \in Tools, BeginLoad(t) PROVE VersionsSafe'
    <3> DEFINE c == Call("load", 0, << >>)
    <3>1. c \in Calls /\ c.pc = "load" /\ c.save = 0
      BY DEF Call, Calls, Places, Records
    <3>2. /\ holder = "free" /\ holder' = t /\ call' = [call EXCEPT ![t] = c]
          /\ saves' = saves /\ UNCHANGED <<meta, files, acked, exposed, pendingWrites>>
          /\ call[t].pc = "idle"
      BY <2>2, Called DEF BeginLoad, Lock
    <3> HIDE DEF c
    <3>3. \A w \in pendingWrites' : Stray(w)
      BY <3>2, AllStray
    <3>4. saves' \in {saves, saves + 1} /\ c.save <= saves'
      BY <3>1, <3>2
    <3> QED BY <3>1, <3>2, <3>3, <3>4, CallMoves
  <2>3. ASSUME NEW t \in Tools, BeginDelete(t) PROVE VersionsSafe'
    <3> DEFINE c == Call("delete", 0, << >>)
    <3>1. c \in Calls /\ c.pc = "delete" /\ c.save = 0
      BY DEF Call, Calls, Places, Records
    <3>2. /\ holder = "free" /\ holder' = t /\ call' = [call EXCEPT ![t] = c]
          /\ acked' = NoFile /\ UNCHANGED <<meta, files, saves, pendingWrites>>
          /\ call[t].pc = "idle"
      BY <2>3, Called DEF BeginDelete, Lock
    <3>3. Everything \notin exposed' => pendingWrites = {}
      BY <2>3 DEF BeginDelete
    <3> HIDE DEF c
    <3>4. call'[t] = c /\ \A u \in Tools \ {t} : call'[u] = NoCall /\ call[u] = NoCall
      BY <3>2 DEF VersionsSafe, Held
    <3>5. \A w \in pendingWrites' : Stray(w)'
      <4>1. \A u \in Tools \ {t} : call'[u] = call[u]
        BY <3>4
      <4> QED BY <3>1, <3>2, <3>4, <4>1, AllStray, StaysStray DEF VersionsSafe
    <3>6. Held' /\ Owned'
      BY <3>2, <3>4, <3>5 DEF Held, Owned
    <3>7. SavesNumbered'
      BY <3>1, <3>2, <3>4 DEF VersionsSafe, SavesNumbered, Adding, NoCall, Call
    <3>8. DOMAIN acked' = {}
      BY <3>2, NothingFiled
    <3>9. ASSUME Everything \notin exposed'
          PROVE  /\ StraysExposed' /\ StrayRecord' /\ StillSo' /\ ContentThere' /\ Deleting' /\ Acked'
      <4>1. pendingWrites' = {}
        BY <3>2, <3>3, <3>9
      <4>2. StraysExposed' /\ StrayRecord' /\ Deleting' /\ Acked'
        BY <3>8, <4>1 DEF StraysExposed, StrayRecord, Deleting, Acked
      <4>3. StillSo' /\ ContentThere'
        BY <3>1, <3>4 DEF StillSo, ContentThere, NoCall, Call
      <4> QED BY <4>2, <4>3
    <3> QED BY <3>6, <3>7, <3>9 DEF VersionsSafe
  <2>4. ASSUME NEW t \in Tools, ReadMeta(t) PROVE VersionsSafe'
    <3>1. /\ holder = t /\ holder' = t /\ saves' = saves
          /\ UNCHANGED <<meta, files, acked, exposed, pendingWrites>>
      BY <2>4 DEF ReadMeta, CallAt, CountersUnchanged
    <3>2. CASE CallAt(t, "save") /\ call' = [call EXCEPT ![t] = Call("save_check", call[t].save, meta)]
      <4> DEFINE c == Call("save_check", call[t].save, meta)
      <4>1. c \in Calls /\ c.pc = "save_check" /\ c.save = call[t].save /\ c.meta = meta
        BY DEF Call, Calls, Places, Records
      <4>2. call' = [call EXCEPT ![t] = c] /\ c.save > 0 /\ c.save <= saves'
        BY <3>1, <3>2, <4>1 DEF CallAt, VersionsSafe, SavesNumbered
      <4> HIDE DEF c
      <4>3. \A w \in pendingWrites' : Stray(w)
        BY <3>1, <3>2, AllStray DEF CallAt
      <4> QED BY <3>1, <4>1, <4>2, <4>3, CallMoves
    <3>3. CASE CallAt(t, "load") /\ call' = [call EXCEPT ![t] = Call("load_check", 0, meta)]
      <4> DEFINE c == Call("load_check", 0, meta)
      <4>1. c \in Calls /\ c.pc = "load_check" /\ c.save = 0
        BY DEF Call, Calls, Places, Records
      <4>2. call' = [call EXCEPT ![t] = c]
        BY <3>3
      <4> HIDE DEF c
      <4>3. \A w \in pendingWrites' : Stray(w)
        BY <3>1, <3>3, AllStray DEF CallAt
      <4>4. saves' \in {saves, saves + 1} /\ c.save <= saves'
        BY <3>1, <4>1
      <4> QED BY <3>1, <4>1, <4>2, <4>3, <4>4, CallMoves
    <3>4. \/ CallAt(t, "save") /\ call' = [call EXCEPT ![t] = Call("save_check", call[t].save, meta)]
          \/ CallAt(t, "load") /\ call' = [call EXCEPT ![t] = Call("load_check", 0, meta)]
      BY <2>4 DEF ReadMeta
    <3> QED BY <3>2, <3>3, <3>4
  <2>5. ASSUME NEW t \in Tools, next_version(t) PROVE VersionsSafe'
    <3>1. /\ holder = t /\ call[t].pc = "save_check" /\ call[t].save \in Nat
          /\ call[t].meta \in Records
          /\ UNCHANGED <<meta, files, acked, exposed, saves>>
          /\ \A w \in pendingWrites : Stray(w)
      BY <2>5, Called, AllStray DEF next_version, CallAt, CountersUnchanged
    <3>2. CASE ~Matches(t) /\ Return(t) /\ UNCHANGED pendingWrites
      BY <3>1, <3>2, StepsBack
    <3>3. CASE Matches(t) /\ Goto(t, "content") /\ Spawn(t, "content") /\ UNCHANGED holder
      <4> DEFINE x == Write(t, "content")
      <4>1. /\ holder' = t /\ call' \in [Tools -> Calls] /\ call'[t].pc = "content"
            /\ call'[t].save = call[t].save /\ call'[t].meta = call[t].meta
            /\ \A u \in Tools \ {t} : call'[u] = call[u] /\ call[u] = NoCall
        BY <3>1, <3>3, Called, Moved DEF Goto, VersionsSafe, Held
      <4>2. /\ pendingWrites' = pendingWrites \cup {x} /\ x.of = t /\ x.save = call[t].save
            /\ x.what = "content" /\ x' = x
        BY <3>3, <4>1 DEF Spawn, Write
      <4>3. Held' /\ SavesNumbered'
        BY <3>1, <4>1, <4>2 DEF VersionsSafe, Held, SavesNumbered, Adding, NoCall, Call
      <4> HIDE DEF x
      <4>4. \A w \in pendingWrites : Stray(w)'
        BY <3>1, <4>1, StaysStray DEF VersionsSafe
      <4>5. Owned'
        <5>1. x' = Write(t, "content")'
          BY DEF x
        <5> QED BY <4>1, <4>2, <4>4, <5>1 DEF Owned
      <4>6. ASSUME Everything \notin exposed'
            PROVE  /\ StraysExposed' /\ StrayRecord' /\ StillSo' /\ ContentThere' /\ Deleting' /\ Acked'
        <5>1. StraysExposed /\ StrayRecord /\ StillSo /\ Acked
          BY <3>1, <4>6 DEF VersionsSafe
        <5>2. ~Stray(x)'
          BY <4>1, <4>2 DEF Stray
        <5>3. StraysExposed'
          BY <3>1, <4>2, <5>1, <5>2 DEF StraysExposed
        <5>4. call[t].meta = meta /\ DOMAIN files = DOMAIN meta
          BY <3>1, <3>3, <5>1 DEF StillSo, Matches
        <5>5. \A w \in pendingWrites : w.what # "meta"
          <6> SUFFICES ASSUME NEW w \in pendingWrites, w.what = "meta" PROVE FALSE
            OBVIOUS
          <6>1. Len(meta) + 1 \in DOMAIN files
            BY <3>1, <5>1 DEF StrayRecord, NextRecord
          <6> QED BY <5>4, <6>1, Recorded
        <5>6. StrayRecord'
          BY <4>2, <5>5 DEF StrayRecord
        <5>7. StillSo' /\ ContentThere' /\ Deleting'
          BY <3>1, <4>1, <5>4 DEF StillSo, ContentThere, Deleting, NoCall, Call
        <5>8. Acked'
          BY <3>1, <5>1 DEF Acked, Stored
        <5> QED BY <5>3, <5>6, <5>7, <5>8
      <4> QED BY <4>3, <4>5, <4>6 DEF VersionsSafe
    <3> QED BY <2>5, <3>2, <3>3 DEF next_version
  <2>6. ASSUME NEW t \in Tools, ContentWritten(t) PROVE VersionsSafe'
    <3> DEFINE x == Write(t, "meta")
    <3>1. /\ holder = t /\ call[t].pc = "content_written" /\ call[t].save \in Nat
          /\ call[t].meta \in Records
          /\ UNCHANGED <<meta, files, acked, exposed, saves, holder>>
          /\ \A w \in pendingWrites : Stray(w)
      BY <2>6, Called, AllStray DEF ContentWritten, CallAt, CountersUnchanged
    <3>2. /\ holder' = t /\ call' \in [Tools -> Calls] /\ call'[t].pc = "meta"
          /\ call'[t].save = call[t].save /\ call'[t].meta = call[t].meta
          /\ \A u \in Tools \ {t} : call'[u] = call[u] /\ call[u] = NoCall
      BY <2>6, <3>1, Called, Moved DEF ContentWritten, Goto, VersionsSafe, Held
    <3>3. /\ pendingWrites' = pendingWrites \cup {x} /\ x.of = t /\ x.save = call[t].save
          /\ x.what = "meta" /\ x' = x
      BY <2>6, <3>2 DEF ContentWritten, Spawn, Write
    <3>4. Held' /\ SavesNumbered'
      BY <3>1, <3>2, <3>3 DEF VersionsSafe, Held, SavesNumbered, Adding, NoCall, Call
    <3> HIDE DEF x
    <3>5. \A w \in pendingWrites : Stray(w)'
      BY <3>1, <3>2, StaysStray DEF VersionsSafe
    <3>6. Owned'
      <4>1. x' = Write(t, "meta")'
        BY DEF x
      <4> QED BY <3>2, <3>3, <3>5, <4>1 DEF Owned
    <3>7. ASSUME Everything \notin exposed'
          PROVE  /\ StraysExposed' /\ StrayRecord' /\ StillSo' /\ ContentThere' /\ Deleting' /\ Acked'
      <4>1. StraysExposed /\ StrayRecord /\ StillSo /\ ContentThere /\ Acked
        BY <3>1, <3>7 DEF VersionsSafe
      <4>2. ~Stray(x)'
        BY <3>2, <3>3 DEF Stray
      <4>3. StraysExposed'
        BY <3>1, <3>3, <4>1, <4>2 DEF StraysExposed
      <4>4. \A w \in pendingWrites : w.what # "meta"
        BY <3>1, <4>1 DEF StrayRecord, NextRecord, Adding
      <4>5. StrayRecord'
        BY <3>3, <4>2, <4>4 DEF StrayRecord
      <4>6. StillSo' /\ Deleting'
        BY <3>1, <3>2, <4>1 DEF StillSo, Deleting, NoCall, Call
      <4>7. ContentThere'
        BY <3>1, <3>2, <4>1 DEF ContentThere, Stored, NoCall, Call
      <4>8. Acked'
        BY <3>1, <4>1 DEF Acked, Stored
      <4> QED BY <4>3, <4>5, <4>6, <4>7, <4>8
    <3> QED BY <3>4, <3>6, <3>7 DEF VersionsSafe
  <2>7. ASSUME NEW t \in Tools, SaveReturns(t) PROVE VersionsSafe'
    <3> DEFINE v == Len(call[t].meta) + 1
    <3>1. /\ holder = t /\ call[t].pc = "meta_written" /\ call[t].save \in Nat
          /\ call[t].meta \in Records /\ acked' = With(acked, v, call[t].save)
          /\ UNCHANGED <<meta, files, pendingWrites, exposed, saves>>
          /\ \A w \in pendingWrites : Stray(w)
      BY <2>7, Called, AllStray DEF SaveReturns, CallAt, CountersUnchanged
    <3>2. /\ holder' = "free" /\ call' \in [Tools -> Calls] /\ \A u \in Tools : call'[u] = NoCall
      BY <2>7, <3>1, Returned DEF SaveReturns, VersionsSafe, Held
    <3>3. Held' /\ SavesNumbered'
      BY <3>1, <3>2 DEF VersionsSafe, Held, SavesNumbered, Adding, NoCall, Call
    <3>4. \A w \in pendingWrites : Stray(w)'
      BY <3>1, <3>2, Returned, <2>7, StaysStray DEF SaveReturns, VersionsSafe, NoCall, Call
    <3>5. Owned'
      BY <3>1, <3>4 DEF Owned
    <3>6. ASSUME Everything \notin exposed'
          PROVE  /\ StraysExposed' /\ StrayRecord' /\ StillSo' /\ ContentThere' /\ Deleting' /\ Acked'
      <4>1. StraysExposed /\ StrayRecord /\ StillSo /\ ContentThere /\ Acked
        BY <3>1, <3>6 DEF VersionsSafe
      <4>2. StraysExposed'
        BY <3>1, <4>1 DEF StraysExposed
      <4>3. StrayRecord'
        BY <3>1, <4>1 DEF StrayRecord, NextRecord, Adding
      <4>4. StillSo' /\ ContentThere' /\ Deleting'
        BY <3>2 DEF StillSo, ContentThere, Deleting, NoCall, Call
      <4>5. Stored(v, call[t].save) /\ meta = Append(call[t].meta, call[t].save)
        BY <3>1, <4>1 DEF ContentThere, StillSo
      <4>6. v \in DOMAIN meta /\ meta[v] = call[t].save
        <5>1. Len(call[t].meta) \in Nat
          BY <3>1, Recorded
        <5>2. v \in 1 .. v
          BY <5>1
        <5> QED BY <3>1, <4>5, <5>2, Recorded, Zenon
      <4>7. /\ DOMAIN acked' = DOMAIN acked \cup {v} /\ acked'[v] = call[t].save
            /\ \A u \in DOMAIN acked : u # v => acked'[u] = acked[u]
        <5>1. /\ DOMAIN With(acked, v, call[t].save) = DOMAIN acked \cup {v}
              /\ With(acked, v, call[t].save)[v] = call[t].save
              /\ \A u \in DOMAIN acked : u # v => With(acked, v, call[t].save)[u] = acked[u]
          BY DEF With
        <5> QED BY <3>1, <5>1
      <4> HIDE DEF v
      <4>8. Acked'
        BY <3>1, <4>1, <4>5, <4>6, <4>7 DEF Acked, Stored
      <4> QED BY <4>2, <4>3, <4>4, <4>8
    <3> QED BY <3>3, <3>5, <3>6 DEF VersionsSafe
  <2>8. ASSUME NEW t \in Tools, LoadChecks(t) PROVE VersionsSafe'
    <3>1. /\ holder = t /\ call[t].pc = "load_check" /\ call[t].save \in Nat
          /\ call[t].meta \in Records
          /\ UNCHANGED <<meta, files, pendingWrites, acked, exposed, saves>>
          /\ \A w \in pendingWrites : Stray(w)
      BY <2>8, Called, AllStray DEF LoadChecks, CallAt, CountersUnchanged
    <3>2. CASE Return(t)
      BY <3>1, <3>2, StepsBack
    <3>3. CASE Goto(t, "load_read") /\ UNCHANGED holder
      <4> DEFINE c == Call("load_read", call[t].save, call[t].meta)
      <4>1. c \in Calls /\ c.pc = "load_read" /\ c.save = call[t].save
        BY <3>1, Called
      <4>2. call' = [call EXCEPT ![t] = c] /\ c.save <= saves' /\ holder' = t
        BY <3>1, <3>3, <4>1 DEF Goto, VersionsSafe, SavesNumbered
      <4> HIDE DEF c
      <4> QED BY <3>1, <4>1, <4>2, CallMoves
    <3> QED BY <2>8, <3>2, <3>3 DEF LoadChecks
  <2>9. ASSUME NEW t \in Tools, LoadReturns(t) PROVE VersionsSafe'
    <3>1. /\ holder = t /\ call[t].pc = "load_read" /\ Return(t)
          /\ UNCHANGED <<meta, files, pendingWrites, acked, exposed, saves>>
      BY <2>9 DEF LoadReturns, CallAt, CountersUnchanged
    <3>2. \A w \in pendingWrites : Stray(w)
      BY <3>1, AllStray
    <3> QED BY <3>1, <3>2, StepsBack
  <2>10. ASSUME NEW t \in Tools, DeleteEntry(t) PROVE VersionsSafe'
    <3>1. /\ holder = t /\ call[t].pc = "delete"
          /\ UNCHANGED <<pendingWrites, acked, exposed, saves>>
          /\ \A w \in pendingWrites : Stray(w)
      BY <2>10, AllStray DEF DeleteEntry, CallAt, CountersUnchanged
    <3>2. CASE Return(t) /\ UNCHANGED <<meta, files>>
      BY <3>1, <3>2, StepsBack
    <3>3. CASE UNCHANGED <<call, holder>>
      <4>1. Held' /\ SavesNumbered' /\ Owned' /\ \A w \in pendingWrites' : Stray(w)'
        BY <3>1, <3>3 DEF VersionsSafe, Held, SavesNumbered, Owned, Stray
      <4>2. ASSUME Everything \notin exposed'
            PROVE  /\ StraysExposed' /\ StrayRecord' /\ StillSo' /\ ContentThere' /\ Deleting' /\ Acked'
        <5>1. Deleting /\ DOMAIN acked' = {} /\ pendingWrites' = {}
          BY <3>1, <4>2 DEF VersionsSafe, Deleting
        <5>2. StraysExposed' /\ StrayRecord' /\ Deleting' /\ Acked'
          BY <3>1, <5>1 DEF StraysExposed, StrayRecord, Deleting, Acked
        <5>3. StillSo' /\ ContentThere'
          BY <3>1, <3>3 DEF VersionsSafe, Held, StillSo, ContentThere, NoCall, Call
        <5> QED BY <5>2, <5>3
      <4> QED BY <4>1, <4>2 DEF VersionsSafe
    <3>4. (Return(t) /\ UNCHANGED <<meta, files>>) \/ UNCHANGED <<call, holder>>
      BY <2>10 DEF DeleteEntry
    <3> QED BY <3>2, <3>3, <3>4
  <2>11. ASSUME NEW t \in Tools, Abandon(t) PROVE VersionsSafe'
    <3>1. /\ holder = t /\ Return(t) /\ UNCHANGED <<meta, files, pendingWrites, acked, saves>>
          /\ call[t].save \in Nat /\ call[t].meta \in Records
      BY <2>11, Called DEF Abandon
    <3>2. CASE ~WriteOut(t)
      <4>1. UNCHANGED exposed
        BY <2>11, <3>2 DEF Abandon
      <4>2. \A w \in pendingWrites : Stray(w)
        <5> SUFFICES ASSUME NEW w \in pendingWrites, ~Stray(w) PROVE FALSE
          OBVIOUS
        <5>1. w.of = t /\ call[t].pc = w.what /\ call[t].save = w.save
          BY <3>1 DEF VersionsSafe, Owned, Write, Stray
        <5> QED BY <3>1, <3>2, <5>1 DEF WriteOut, Awaited, CallAt
      <4> QED BY <3>1, <4>1, <4>2, StepsBack
    <3>3. CASE WriteOut(t)
      <4> DEFINE v == Len(call[t].meta) + 1
      <4>1. exposed' = exposed \cup {v}
        BY <2>11, <3>3 DEF Abandon
      <4>2. PICK x \in pendingWrites : x.of = t /\ call[t].pc = x.what /\ call[t].save = x.save
        BY <3>3 DEF WriteOut, Awaited, CallAt
      <4>3. call[t].pc \in {"content", "meta"} /\ x = Write(t, call[t].pc)
        BY <4>2 DEF VersionsSafe, Owned, Stray
      <4>4. /\ x.meta = Append(call[t].meta, call[t].save) /\ Len(x.meta) = v
            /\ x.what = call[t].pc
        BY <3>1, <4>3, Recorded DEF Write
      <4> HIDE DEF v
      <4>5. holder' = "free" /\ \A u \in Tools : call'[u] = NoCall
        BY <3>1, Returned DEF VersionsSafe, Held
      <4>6. Held' /\ SavesNumbered'
        BY <3>1, <4>5 DEF VersionsSafe, Held, SavesNumbered, Adding, NoCall, Call
      <4>7. \A w \in pendingWrites' : Stray(w)'
        BY <3>1, <4>5 DEF Stray, NoCall, Call, VersionsSafe, SavesNumbered, ArtifactType, PendingType,
           Pending
      <4>8. Owned'
        BY <4>7 DEF Owned
      <4>9. ASSUME Everything \notin exposed'
             PROVE  /\ StraysExposed' /\ StrayRecord' /\ StillSo' /\ ContentThere' /\ Deleting' /\ Acked'
        <5>1. StraysExposed /\ StrayRecord /\ StillSo /\ ContentThere /\ Acked
          BY <4>1, <4>9 DEF VersionsSafe
        <5>2. \A w \in pendingWrites : Stray(w) \/ w = x
          BY <3>1, <4>2, <4>3 DEF VersionsSafe, Owned
        <5>3. StraysExposed'
          BY <3>1, <4>1, <4>4, <5>1, <5>2 DEF StraysExposed
        <5>4. StillSo' /\ ContentThere' /\ Deleting'
          BY <4>5 DEF StillSo, ContentThere, Deleting, NoCall, Call
        <5>5. Acked'
          BY <3>1, <4>1, <5>1 DEF Acked, Stored
        <5>6. \A w \in pendingWrites : w.what = "meta" => w = x
          BY <4>3, <5>1, <5>2 DEF StrayRecord, NextRecord, Adding
        <5>7. x.what = "meta" =>
                /\ Len(x.meta) = Len(meta) + 1 /\ Len(x.meta) \in DOMAIN files
                /\ \A u \in DOMAIN acked : x.meta[u] = acked[u]
          <6> SUFFICES ASSUME x.what = "meta" PROVE
                /\ Len(x.meta) = Len(meta) + 1 /\ Len(x.meta) \in DOMAIN files
                /\ \A u \in DOMAIN acked : x.meta[u] = acked[u]
            OBVIOUS
          <6>1. call[t].meta = meta /\ v \in DOMAIN files
            BY <4>4, <5>1 DEF StillSo, ContentThere, Stored, v
          <6>2. \A u \in DOMAIN meta : x.meta[u] = meta[u]
            <7>1. \A u \in DOMAIN meta : Append(meta, call[t].save)[u] = meta[u]
              BY <3>1, Recorded
            <7> QED BY <4>4, <6>1, <7>1, Zenon
          <6>3. \A u \in DOMAIN acked : x.meta[u] = acked[u]
            BY <5>1, <6>2 DEF Acked
          <6> QED BY <4>4, <6>1, <6>3 DEF v
        <5>8. StrayRecord'
          BY <3>1, <4>5, <5>6, <5>7 DEF StrayRecord, NextRecord, Adding, NoCall, Call
        <5> QED BY <5>3, <5>4, <5>5, <5>8
      <4> QED BY <4>6, <4>8, <4>9 DEF VersionsSafe
    <3> QED BY <3>2, <3>3
  <2>12. ASSUME NEW t \in Tools, ArtifactCrash(t) PROVE VersionsSafe'
    <3>1. /\ holder = t /\ Return(t) /\ UNCHANGED <<meta, files, acked, exposed, saves>>
          /\ pendingWrites' = {w \in pendingWrites : w.of # t}
      BY <2>12 DEF ArtifactCrash
    <3>2. pendingWrites' \subseteq pendingWrites /\ \A w \in pendingWrites' : Stray(w)
      BY <3>1 DEF VersionsSafe, Owned
    <3> QED BY <3>1, <3>2, StepsBack
  <2>13. ASSUME NEW w \in pendingWrites, WriteLands(w) PROVE VersionsSafe'
    <3> DEFINE t == w.of
               v == Len(w.meta)
    <3>1. /\ t \in Tools /\ w.save \in Nat /\ w.what \in {"content", "meta"}
          /\ w.meta \in Records /\ v \in Nat
      BY Recorded DEF ArtifactType, PendingType, Pending
    <3>2. pendingWrites' = pendingWrites \ {w} /\ UNCHANGED <<holder, acked, exposed, saves>>
      BY <2>13 DEF WriteLands, CountersUnchanged
    <3>3. /\ w.what = "content" => meta' = meta /\ files' = With(files, v, w.save)
          /\ w.what = "meta" => meta' = w.meta /\ files' = files
      BY <2>13 DEF WriteLands
    <3>4. /\ DOMAIN With(files, v, w.save) = DOMAIN files \cup {v}
          /\ With(files, v, w.save)[v] = w.save
          /\ \A u \in DOMAIN files : u # v => With(files, v, w.save)[u] = files[u]
      BY DEF With
    <3>5. CASE Stray(w)
      <4>1. UNCHANGED call
        BY <2>13, <3>5 DEF WriteLands, Awaited, Stray
      <4>2. Held' /\ SavesNumbered' /\ Owned'
        BY <3>2, <4>1 DEF VersionsSafe, Held, SavesNumbered, Owned, Stray, Write
      <4>3. ASSUME Everything \notin exposed'
            PROVE  /\ StraysExposed' /\ StrayRecord' /\ StillSo' /\ ContentThere' /\ Deleting' /\ Acked'
        <5>1. StraysExposed /\ StrayRecord /\ StillSo /\ ContentThere /\ Deleting /\ Acked /\ v \in exposed
          BY <3>2, <3>5, <4>3 DEF VersionsSafe, StraysExposed
        <5>2. StraysExposed' /\ Deleting'
          BY <3>2, <4>1, <5>1 DEF StraysExposed, Deleting, Stray
        <5>3. CASE w.what = "content"
          <6>1. /\ meta' = meta /\ DOMAIN files \subseteq DOMAIN files'
                /\ \A u \in DOMAIN files : u \notin exposed => files'[u] = files[u]
            BY <3>3, <3>4, <5>1, <5>3
          <6>2. StrayRecord'
            BY <3>2, <4>1, <5>1, <6>1 DEF StrayRecord, NextRecord, Stray
          <6>3. \A n, save : Stored(n, save) => Stored(n, save)'
            BY <3>2, <6>1 DEF Stored
          <6>4. StillSo'
            BY <4>1, <5>1, <6>1 DEF StillSo
          <6>5. ContentThere'
            BY <4>1, <5>1, <6>3 DEF ContentThere
          <6>6. Acked'
            BY <3>2, <5>1, <6>1, <6>3 DEF Acked
          <6> QED BY <5>2, <6>2, <6>4, <6>5, <6>6
        <5>4. CASE w.what = "meta"
          <6>1. /\ meta' = w.meta /\ files' = files /\ v = Len(meta) + 1 /\ v \in DOMAIN files
                /\ \A u \in Tools : call[u].pc \notin Adding
                /\ \A u \in DOMAIN acked : w.meta[u] = acked[u]
                /\ \A x \in pendingWrites : x.what = "meta" => x = w
            BY <3>3, <3>5, <5>1, <5>4 DEF StrayRecord, NextRecord
          <6>2. StrayRecord'
            BY <3>2, <6>1 DEF StrayRecord
          <6>3. ContentThere'
            BY <4>1, <6>1 DEF ContentThere, Adding
          <6>4. v \notin DOMAIN meta /\ DOMAIN meta \subseteq DOMAIN meta'
            <7>1. /\ DOMAIN meta = 1 .. Len(meta) /\ Len(meta) \in Nat
                  /\ DOMAIN w.meta = 1 .. v
              BY <3>1, Recorded
            <7>2. Len(meta) + 1 \notin 1 .. Len(meta) /\ 1 .. Len(meta) \subseteq 1 .. Len(meta) + 1
              BY <7>1
            <7> QED BY <6>1, <7>1, <7>2
          <6>5. StillSo'
            <7>1. \A u \in Tools : call[u].pc = "save_check" => ~(DOMAIN files \subseteq DOMAIN call[u].meta)
              BY <5>1, <6>1, <6>4 DEF StillSo
            <7> QED BY <4>1, <6>1, <7>1 DEF StillSo, Adding
          <6>6. Acked'
            BY <3>2, <5>1, <6>1, <6>4 DEF Acked, Stored
          <6> QED BY <5>2, <6>2, <6>3, <6>5, <6>6
        <5> QED BY <3>1, <5>3, <5>4
      <4> QED BY <4>2, <4>3 DEF VersionsSafe
    <3>6. CASE ~Stray(w)
      <4>1. /\ holder = t /\ call[t].pc = w.what /\ w = Write(t, w.what) /\ call[t].save = w.save
            /\ w.meta = Append(call[t].meta, w.save) /\ call[t].meta \in Records
            /\ v = Len(call[t].meta) + 1
        <5>1. holder = t /\ call[t].pc \in {"content", "meta"} /\ w = Write(t, call[t].pc)
          BY <3>6 DEF VersionsSafe, Owned
        <5>2. call[t].meta \in Records /\ call[t].save \in Nat
          BY <3>1, Called
        <5>3. /\ w.what = call[t].pc /\ w.save = call[t].save
              /\ w.meta = Append(call[t].meta, call[t].save)
          BY <5>1 DEF Write
        <5>4. Len(Append(call[t].meta, call[t].save)) = Len(call[t].meta) + 1
          BY <5>2, Recorded
        <5> QED BY <5>1, <5>2, <5>3, <5>4
      <4>2. Goto(t, Landed(w.what))
        BY <2>13, <4>1 DEF WriteLands, Awaited, CallAt
      <4>3. /\ call' \in [Tools -> Calls] /\ call'[t].pc = Landed(w.what) /\ call'[t].save = w.save
            /\ call'[t].meta = call[t].meta
            /\ \A u \in Tools \ {t} : call'[u] = call[u] /\ call[u] = NoCall
        <5>1. Landed(w.what) \in Places
          BY Called DEF Landed
        <5>2. call' = [call EXCEPT ![t] = Call(Landed(w.what), call[t].save, call[t].meta)]
          BY <4>2 DEF Goto
        <5>3. \A u \in Tools \ {t} : call[u] = NoCall
          BY <4>1 DEF VersionsSafe, Held
        <5>4. call[t].save \in Nat /\ call[t].meta \in Records /\ t \in Tools
          BY <3>1, Called
        <5> DEFINE pc == Landed(w.what)
                   s == call[t].save
                   read == call[t].meta
        <5>5. pc \in Places /\ s \in Nat /\ read \in Records /\ call' = [call EXCEPT ![t] = Call(pc, s, read)]
          BY <5>1, <5>2, <5>4
        <5> HIDE DEF pc, s, read, t
        <5>6. /\ call' \in [Tools -> Calls] /\ \A u \in Tools \ {t} : call'[u] = call[u]
              /\ call'[t].pc = pc /\ call'[t].save = s /\ call'[t].meta = read
          BY <5>4, <5>5, Called, SMTT(40)
        <5> QED BY <4>1, <5>3, <5>6 DEF pc, s, read
      <4>4. \A x \in pendingWrites' : Stray(x)
        BY <3>2, <4>1 DEF VersionsSafe, Owned, Write
      <4>5. \A x \in pendingWrites' : Stray(x)'
        BY <3>1, <3>2, <4>1, <4>3, <4>4, StaysStray DEF VersionsSafe
      <4> HIDE DEF t, v
      <4>6. Held' /\ Owned'
        BY <3>2, <4>1, <4>3, <4>5 DEF Held, Owned
      <4>7. SavesNumbered'
        BY <3>1, <3>2, <4>1, <4>3 DEF VersionsSafe, SavesNumbered, Adding, NoCall, Call
      <4>8. ASSUME Everything \notin exposed'
            PROVE  /\ StraysExposed' /\ StrayRecord' /\ StillSo' /\ ContentThere' /\ Deleting' /\ Acked'
        <5>1. StraysExposed /\ StrayRecord /\ StillSo /\ ContentThere /\ Acked /\ call[t].meta = meta
          BY <3>1, <3>2, <4>1, <4>8 DEF VersionsSafe, StillSo
        <5>2. StraysExposed'
          BY <3>2, <4>4, <5>1 DEF StraysExposed
        <5>3. \A x \in pendingWrites' : x.what # "meta"
          BY <3>1, <3>2, <4>1, <4>4, <5>1 DEF StrayRecord, NextRecord, Adding
        <5>4. StrayRecord'
          BY <5>3 DEF StrayRecord
        <5>5. Deleting'
          BY <3>1, <4>3 DEF Deleting, Landed, NoCall, Call
        <5>6. v \notin DOMAIN acked /\ \A u \in DOMAIN acked : w.meta[u] = acked[u] /\ u \in DOMAIN w.meta
          <6>1. /\ DOMAIN meta = 1 .. Len(meta) /\ Len(meta) \in Nat
                /\ DOMAIN w.meta = 1 .. Len(meta) + 1
                /\ \A u \in DOMAIN meta : w.meta[u] = meta[u]
            <7>1. /\ DOMAIN meta = 1 .. Len(meta) /\ Len(meta) \in Nat
                  /\ DOMAIN Append(meta, w.save) = 1 .. Len(meta) + 1
                  /\ \A u \in DOMAIN meta : Append(meta, w.save)[u] = meta[u]
              BY <3>1, Recorded
            <7> QED BY <4>1, <5>1, <7>1, Zenon
          <6>2. Len(meta) + 1 \notin 1 .. Len(meta) /\ 1 .. Len(meta) \subseteq 1 .. Len(meta) + 1
            BY <6>1
          <6> QED BY <4>1, <5>1, <6>1, <6>2 DEF Acked
        <5>7. CASE w.what = "content"
          <6>1. /\ meta' = meta /\ v \in DOMAIN files' /\ files'[v] = w.save
                /\ \A u \in DOMAIN files : u # v => u \in DOMAIN files' /\ files'[u] = files[u]
            BY <3>3, <3>4, <5>7
          <6>2. StillSo' /\ ContentThere'
            BY <3>1, <4>1, <4>3, <5>1, <5>7, <6>1 DEF StillSo, ContentThere, Stored, Landed, NoCall, Call
          <6>3. Acked'
            BY <3>2, <5>1, <5>6, <6>1 DEF Acked, Stored
          <6> QED BY <5>2, <5>4, <5>5, <6>2, <6>3
        <5>8. CASE w.what = "meta"
          <6>1. meta' = w.meta /\ files' = files
            BY <3>3, <5>8
          <6>2. StillSo'
            BY <3>1, <4>1, <4>3, <5>1, <5>8, <6>1 DEF StillSo, Landed, NoCall, Call
          <6>3. ContentThere'
            BY <3>1, <3>2, <4>1, <4>3, <5>1, <5>8, <6>1 DEF ContentThere, Stored, Landed, NoCall, Call
          <6>4. Acked'
            BY <3>2, <5>1, <5>6, <6>1 DEF Acked, Stored
          <6> QED BY <5>2, <5>4, <5>5, <6>2, <6>3, <6>4
        <5> QED BY <3>1, <5>7, <5>8
      <4> QED BY <4>6, <4>7, <4>8 DEF VersionsSafe
    <3> QED BY <3>5, <3>6
  <2>14. ASSUME NEW w \in pendingWrites, WriteFails(w) PROVE VersionsSafe'
    <3> DEFINE t == w.of
    <3>1. /\ t \in Tools /\ pendingWrites' = pendingWrites \ {w}
          /\ UNCHANGED <<meta, saves, acked, exposed>>
      BY <2>14 DEF WriteFails, ArtifactType, PendingType, Pending
    <3>2. CASE Stray(w)
      <4>1. UNCHANGED <<call, holder, files>>
        BY <2>14, <3>2 DEF WriteFails, Awaited, Stray
      <4>2. Held' /\ SavesNumbered' /\ Owned'
        BY <3>1, <4>1 DEF VersionsSafe, Held, SavesNumbered, Owned, Stray, Write
      <4>3. ASSUME Everything \notin exposed'
            PROVE  /\ StraysExposed' /\ StrayRecord' /\ StillSo' /\ ContentThere' /\ Deleting' /\ Acked'
        <5>1. StraysExposed /\ StrayRecord /\ StillSo /\ ContentThere /\ Deleting /\ Acked
          BY <3>1, <4>3 DEF VersionsSafe
        <5>2. StraysExposed' /\ StrayRecord'
          BY <3>1, <4>1, <5>1 DEF StraysExposed, StrayRecord, NextRecord, Stray
        <5>3. StillSo' /\ ContentThere' /\ Deleting' /\ Acked'
          BY <3>1, <4>1, <5>1 DEF StillSo, ContentThere, Deleting, Acked, Stored
        <5> QED BY <5>2, <5>3
      <4> QED BY <4>2, <4>3 DEF VersionsSafe
    <3>3. CASE ~Stray(w)
      <4>1. holder = t /\ call[t].pc = w.what /\ w = Write(t, call[t].pc)
        BY <3>3 DEF VersionsSafe, Owned, Write
      <4>2. /\ Return(t)
            /\ files' = files \/ (w.what = "meta" /\ files' = ButFor(files, Len(w.meta)))
        BY <2>14, <3>3, <4>1 DEF WriteFails, Awaited, CallAt, Stray
      <4>3. /\ call[t].meta \in Records /\ call[t].save \in Nat /\ w.meta \in Records
            /\ Len(w.meta) = Len(call[t].meta) + 1
        <5>1. call[t].meta \in Records /\ call[t].save \in Nat
          BY <3>1, Called
        <5>2. w.meta = Append(call[t].meta, call[t].save)
          BY <4>1 DEF Write
        <5>3. /\ Append(call[t].meta, call[t].save) \in Records
              /\ Len(Append(call[t].meta, call[t].save)) = Len(call[t].meta) + 1
          BY <5>1, Recorded
        <5> QED BY <5>1, <5>2, <5>3
      <4>4. /\ holder' = "free" /\ \A u \in Tools : call'[u] = NoCall
        BY <3>1, <4>1, <4>2, Returned DEF VersionsSafe, Held
      <4>5. Held' /\ SavesNumbered'
        BY <3>1, <4>4 DEF VersionsSafe, Held, SavesNumbered, Adding, NoCall, Call
      <4>6. \A x \in pendingWrites' : Stray(x) /\ Stray(x)'
        <5>1. \A x \in pendingWrites' : Stray(x)
          BY <3>1, <4>1 DEF VersionsSafe, Owned, Write
        <5>2. \A x \in pendingWrites' : Stray(x)'
          BY <3>1, <4>4 DEF Stray, NoCall, Call, VersionsSafe, SavesNumbered, ArtifactType,
             PendingType, Pending
        <5> QED BY <5>1, <5>2
      <4>7. Owned'
        BY <4>6 DEF Owned
      <4>8. ASSUME Everything \notin exposed'
            PROVE  /\ StraysExposed' /\ StrayRecord' /\ StillSo' /\ ContentThere' /\ Deleting' /\ Acked'
        <5>1. StraysExposed /\ StrayRecord /\ StillSo /\ Acked
          BY <3>1, <4>8 DEF VersionsSafe
        <5>2. StraysExposed'
          BY <3>1, <4>6, <5>1 DEF StraysExposed
        <5>3. StillSo' /\ ContentThere' /\ Deleting'
          BY <4>4 DEF StillSo, ContentThere, Deleting, NoCall, Call
        <5>4. call[t].meta = meta /\ call[t].pc \in Adding
          BY <3>1, <3>3, <5>1 DEF StillSo, VersionsSafe, Owned, Adding
        <5>5. StrayRecord'
          BY <3>1, <4>6, <5>1, <5>4 DEF StrayRecord, NextRecord
        <5>6. Len(w.meta) \notin DOMAIN acked
          BY <4>3, <5>1, <5>4, Recorded DEF Acked
        <5>7. \A u \in DOMAIN acked : u \in DOMAIN files => u \in DOMAIN files' /\ files'[u] = files[u]
          <6>1. /\ DOMAIN ButFor(files, Len(w.meta)) = DOMAIN files \ {Len(w.meta)}
                /\ \A u \in DOMAIN files \ {Len(w.meta)} : ButFor(files, Len(w.meta))[u] = files[u]
            BY Unfiled
          <6> QED BY <4>2, <5>6, <6>1
        <5>8. Acked'
          BY <3>1, <5>1, <5>7 DEF Acked, Stored
        <5> QED BY <5>2, <5>3, <5>5, <5>8
      <4> QED BY <4>5, <4>7, <4>8 DEF VersionsSafe
    <3> QED BY <3>2, <3>3
  <2>15. CASE UNCHANGED artifactVars
    BY <2>15 DEF artifactVars, VersionsSafe, Held, SavesNumbered, Owned, Stray, Write, StraysExposed,
       StrayRecord, NextRecord, StillSo, ContentThere, Stored, Deleting, Acked
  <2> QED BY <2>1, <2>2, <2>3, <2>4, <2>5, <2>6, <2>7, <2>8, <2>9, <2>10,
     <2>11, <2>12, <2>13, <2>14, <2>15 DEF ArtifactNext
<1>3. VersionsSafe => VersionsImmutable
  BY DEF VersionsSafe, VersionsImmutable, Acked, Stored
<1> QED BY <1>1, <1>2, <1>3, ArtifactTypeCorrect, PTL DEF ArtifactSpec

-----------------------------------------------------------------------------
(* The local model cache (LocalModel).                                     *)
\* Versions, with 0 for none.
Versions == 0 .. MaxPushes + 1
Files == Seq(Versions \X Nat)
Targets == [commit : Versions, etag : Versions, resumed : BOOLEAN]
Aims == [commit : Commits, etag : Commits, resumed : BOOLEAN]
WriteRecords == [block : Versions \X Nat, to : Aims, renamed : BOOLEAN]
Writes == Seq(WriteRecords)
TaskType ==
  /\ home \in [Loads -> Processes]
  /\ at \in [Loads -> {"idle", "read", "write", "head", "current", "lock", "open",
                       "fetch", "ref", "link", "build"}]
  /\ target \in [Loads -> Targets] /\ body \in [Loads -> Files]
  /\ out \in [Loads -> Writes]
AimType ==
  \A t \in Loads :
    /\ at[t] \in {"lock", "open", "fetch", "ref", "link"} => target[t] \in Aims
    /\ at[t] = "current" => target[t].etag \in Commits
LoaderType ==
  /\ loader \in [Processes -> {"Unloaded", "Downloading", "Loading", "Ready", "Failed"}]
  /\ attempts \in [Processes -> Loads \cup {NoLoad}]
DiskType ==
  /\ main \in Commits /\ ref \in Versions /\ pointer \in [Commits -> Versions]
  /\ blob \in [Commits -> Files] /\ partial \in [Commits -> Files]
  /\ flocks \in [Commits -> Loads \cup {NoLoad}]
CountType ==
  starts \in Nat /\ crashes \in Nat /\ orphans \in Nat /\ spoiled \subseteq Commits

(* The strengthening for BlobsWhole.  A task beyond the loader's lock is   *)
(* the one in the guard of its process, and one that downloads has the     *)
(* lock of its blob ...                                                    *)
Attempting ==
  \A t \in Loads : at[t] \notin {"idle", "read", "write"} => attempts[home[t]] = t
Locked ==
  \A t \in Loads : at[t] \in {"open", "fetch"} => flocks[target[t].etag] = t
(* ... what a task points to is the version of the commit, and, as is all  *)
(* that a pointer leads to, there; all this of versions not spoiled ...    *)
Unspoiled == Commits \ spoiled
OnCourse ==
  \A t \in Loads :
    /\ at[t] \in {"lock", "open", "fetch", "ref", "link"} =>
         target[t].commit = target[t].etag \/ target[t].commit \in spoiled
    /\ at[t] \in {"head", "current", "ref", "link"} /\ target[t].etag \in Unspoiled =>
         blob[target[t].etag] # << >>
PointersLead == \A v \in Commits : pointer[v] \in Unspoiled => blob[pointer[v]] # << >>
(* ... a partial file is a beginning of its version, however often it was  *)
(* broken off ...                                                          *)
Beginning(file, v) ==
  Len(file) <= FileSize /\ \A i \in 1 .. Len(file) : file[i] = <<v, i>>
PartsWhole == \A v \in Unspoiled : Beginning(partial[v], v)
(* ... to which the write that is out, a download's own, and the rest of   *)
(* the body belong.                                                        *)
Continues(v, file, writes, rest, to) ==
  /\ Len(writes) <= 1 /\ Len(file) + Len(writes) + Len(rest) = FileSize
  /\ \A i \in 1 .. Len(rest) : rest[i] = <<v, Len(file) + Len(writes) + i>>
  /\ writes # << >> => writes[1].block = <<v, Len(file) + 1>> /\ writes[1].to = to
WritesOwned ==
  \A t \in Loads : out[t] # << >> =>
    /\ at[t] \in {"idle", "fetch"}
    /\ Head(out[t]).to.etag \in Unspoiled => at[t] = "fetch" /\ ~Head(out[t]).renamed
    /\ at[t] = "fetch" => Head(out[t]).to = target[t]
InProgress ==
  \A t \in Loads : at[t] = "fetch" /\ target[t].etag \in Unspoiled =>
    Continues(target[t].etag, partial[target[t].etag], out[t], body[t], target[t])
Downloading == Attempting /\ Locked /\ OnCourse /\ PartsWhole /\ WritesOwned /\ InProgress
DownloadSafe == Downloading /\ PointersLead /\ BlobsWhole
(* Tasks, loaders, disk and counters hold values the code's types allow.   *)
LocalModelType == TaskType /\ AimType /\ LoaderType /\ DiskType /\ CountType

-----------------------------------------------------------------------------
(* What a version is, and what a write adds to the beginning of it.        *)
LEMMA Whole ==
  ASSUME NEW v \in Commits
  PROVE  /\ Contents(v) \in Files /\ Len(Contents(v)) = FileSize
         /\ \A i \in 1 .. FileSize : Contents(v)[i] = <<v, i>>
         /\ v \in Versions /\ 0 \in Versions /\ v # 0 /\ << >> \in Files
         /\ Contents(v) # << >>
<1>1. v \in Versions /\ 0 \in Versions /\ v # 0 /\ FileSize \in Nat \ {0}
  BY LocalModelAssumption DEF Commits, Versions
<1>2. \A i \in 1 .. FileSize : <<v, i>> \in Versions \X Nat
  BY <1>1
<1>3. Contents(v) \in Seq(Versions \X Nat) /\ Len(Contents(v)) = FileSize
  BY <1>1, <1>2 DEF Contents
<1>4. \A i \in 1 .. FileSize : Contents(v)[i] = <<v, i>>
  BY DEF Contents
<1>5. << >> \in Seq(Versions \X Nat) /\ Len(<< >>) = 0
  OBVIOUS
<1>6. Contents(v) # << >>
  BY <1>1, <1>3, <1>5
<1> QED BY <1>1, <1>3, <1>4, <1>5, <1>6 DEF Files

LEMMA Known ==
  /\ \A c, e \in Versions : Target(c, e) \in Targets
  /\ \A c, e \in Commits : Target(c, e) \in Aims
  /\ \A a \in Aims : a \in Targets /\ a.etag \in Commits /\ a.commit \in Commits
  /\ NoTarget \in Targets /\ Commits \subseteq Versions /\ 0 \in Versions
  /\ << >> \in Files /\ << >> \in Writes
  /\ DiskType => CachedEtag \in Versions /\ (ref # 0 => ref \in Commits)
<1>1. 0 \in Versions /\ Commits \subseteq Versions /\ \A v \in Versions : v # 0 => v \in Commits
  BY LocalModelAssumption DEF Versions, Commits
<1>2. /\ \A c, e \in Versions : Target(c, e) \in Targets
      /\ \A c, e \in Commits : Target(c, e) \in Aims
      /\ \A a \in Aims : a \in Targets /\ a.etag \in Commits /\ a.commit \in Commits
  BY <1>1 DEF Target, Targets, Aims
<1>3. << >> \in Files /\ << >> \in Writes
  BY DEF Files, Writes
<1>4. DiskType => ref \in Versions /\ pointer \in [Commits -> Versions]
  BY DEF DiskType
<1> QED BY <1>1, <1>2, <1>3, <1>4 DEF NoTarget, CachedEtag

LEMMA Heads ==
  ASSUME NEW S, NEW s \in Seq(S), s # << >>
  PROVE  Head(s) \in S /\ Head(s) = s[1]
OBVIOUS

LEMMA WholeBeginning ==
  ASSUME NEW v \in Commits, NEW file \in Files, Beginning(file, v), Len(file) = FileSize
  PROVE  file = Contents(v)
<1>1. \A i \in 1 .. FileSize : file[i] = Contents(v)[i]
  BY Whole DEF Beginning
<1> QED BY <1>1, Whole DEF Files

LEMMA Rests ==
  ASSUME NEW v \in Commits, NEW n \in Nat, n < FileSize
  PROVE  LET rest == SubSeq(Contents(v), n + 1, FileSize)
         IN  /\ rest \in Files /\ Len(rest) = FileSize - n
             /\ \A i \in 1 .. Len(rest) : rest[i] = <<v, n + i>>
<1> DEFINE rest == SubSeq(Contents(v), n + 1, FileSize)
<1>1. FileSize \in Nat
  BY LocalModelAssumption
<1>2. /\ Len(rest) = FileSize - n
      /\ \A i \in 1 .. FileSize - n : rest[i] = Contents(v)[n + i]
      /\ rest \in Files
  BY <1>1, Whole DEF Files
<1>3. \A i \in 1 .. FileSize - n : n + i \in 1 .. FileSize
  BY <1>1
<1> QED BY <1>2, <1>3, Whole

LEMMA WrittenType ==
  ASSUME NEW file \in Files, NEW w, w.block \in Versions \X Nat
  PROVE  Written(file, w) \in Files
<1> DEFINE i == IF w.to.resumed THEN Len(file) + 1 ELSE w.block[2]
           n == IF i > Len(file) THEN i ELSE Len(file)
<1>1. Len(file) \in Nat /\ i \in Nat /\ n \in Nat
  BY DEF Files
<1>2. Written(file, w) = [j \in 1 .. n |-> IF j = i THEN w.block
                                           ELSE IF j <= Len(file) THEN file[j] ELSE <<0, j>>]
  BY DEF Written
<1> HIDE DEF i, n
<1>3. ASSUME NEW j \in 1 .. n
      PROVE  (IF j = i THEN w.block ELSE IF j <= Len(file) THEN file[j] ELSE <<0, j>>)
               \in Versions \X Nat
  <2>1. <<0, j>> \in Versions \X Nat
    BY <1>1, Known
  <2>2. j <= Len(file) => file[j] \in Versions \X Nat
    BY <1>1 DEF Files
  <2> QED BY <2>1, <2>2
<1> QED BY <1>1, <1>2, <1>3 DEF Files

LEMMA BlockWritten ==
  ASSUME NEW file \in Files, NEW v \in Versions, NEW w,
         w.block = <<v, Len(file) + 1>>
  PROVE  /\ Written(file, w) \in Files /\ Len(Written(file, w)) = Len(file) + 1
         /\ \A j \in 1 .. Len(file) : Written(file, w)[j] = file[j]
         /\ Written(file, w)[Len(file) + 1] = w.block
<1> DEFINE n == Len(file) + 1
<1>1. Len(file) \in Nat /\ n \in Nat /\ w.block[2] = n /\ w.block \in Versions \X Nat
  BY DEF Files
<1>2. Written(file, w) = [j \in 1 .. n |-> IF j = n THEN w.block
                                           ELSE IF j <= Len(file) THEN file[j] ELSE <<0, j>>]
  BY <1>1 DEF Written
<1>3. \A j \in 1 .. n : j = n \/ (j <= Len(file) /\ file[j] \in Versions \X Nat)
  BY <1>1 DEF Files
<1>4. Written(file, w) = [j \in 1 .. n |-> IF j = n THEN w.block ELSE file[j]]
  BY <1>2, <1>3
<1>5. \A j \in 1 .. n : (IF j = n THEN w.block ELSE file[j]) \in Versions \X Nat
  BY <1>1, <1>3
<1>6. Written(file, w) \in Seq(Versions \X Nat) /\ Len(Written(file, w)) = n
  BY <1>1, <1>4, <1>5
<1> QED BY <1>1, <1>4, <1>6 DEF Files

LEMMA Renames ==
  ASSUME NEW writes \in Writes, NEW etag
  PROVE  /\ Renamed(writes, etag) \in Writes /\ Len(Renamed(writes, etag)) = Len(writes)
         /\ Renamed(writes, etag) = << >> <=> writes = << >>
         /\ writes # << >> =>
              /\ Head(Renamed(writes, etag)).block = Head(writes).block
              /\ Head(Renamed(writes, etag)).to = Head(writes).to
              /\ Head(writes).to.etag # etag =>
                   Head(Renamed(writes, etag)).renamed = Head(writes).renamed
<1> DEFINE n == Len(writes)
           moved == Renamed(writes, etag)
<1>1. n \in Nat /\ DOMAIN writes = 1 .. n /\ \A i \in 1 .. n : writes[i] \in WriteRecords
  BY DEF Writes
<1>2. ASSUME NEW i \in 1 .. n
      PROVE  /\ moved[i] \in WriteRecords /\ moved[i].block = writes[i].block
             /\ moved[i].to = writes[i].to
             /\ writes[i].to.etag # etag => moved[i].renamed = writes[i].renamed
  <2> DEFINE now == writes[i].renamed \/ writes[i].to.etag = etag
  <2>1. moved[i] = [writes[i] EXCEPT !.renamed = now]
    BY <1>1 DEF Renamed
  <2>2. now \in BOOLEAN /\ (writes[i].to.etag # etag => now = writes[i].renamed)
    BY <1>1 DEF WriteRecords
  <2> HIDE DEF now, moved
  <2> QED BY <1>1, <2>1, <2>2 DEF WriteRecords
<1>3. moved = [i \in 1 .. n |-> moved[i]]
  BY <1>1 DEF Renamed
<1> HIDE DEF moved
<1>4. moved \in Writes /\ Len(moved) = n
  BY <1>1, <1>2, <1>3 DEF Writes
<1>5. (writes = << >> <=> n = 0) /\ (moved = << >> <=> n = 0)
  BY <1>4 DEF Writes
<1>6. writes # << >> => Head(writes) = writes[1] /\ Head(moved) = moved[1] /\ 1 \in 1 .. n
  BY <1>1, <1>4, <1>5, Heads DEF Writes
<1>7. /\ moved \in Writes /\ Len(moved) = Len(writes) /\ (moved = << >> <=> writes = << >>)
      /\ writes # << >> =>
           /\ Head(moved).block = Head(writes).block /\ Head(moved).to = Head(writes).to
           /\ Head(writes).to.etag # etag => Head(moved).renamed = Head(writes).renamed
  BY <1>2, <1>4, <1>5, <1>6
<1> QED BY <1>7 DEF moved

(* A download from its first block to its last.                            *)
LEMMA Starts ==
  ASSUME NEW v \in Commits, NEW to
  PROVE  Beginning(<< >>, v) /\ Continues(v, << >>, << >>, Contents(v), to)
<1>1. FileSize \in Nat /\ Len(<< >>) = 0
  BY LocalModelAssumption
<1> QED BY <1>1, Whole DEF Beginning, Continues

LEMMA Resumes ==
  ASSUME NEW v \in Commits, NEW file \in Files, NEW to, Beginning(file, v), Len(file) < FileSize
  PROVE  Continues(v, file, << >>, SubSeq(Contents(v), Len(file) + 1, FileSize), to)
<1> DEFINE rest == SubSeq(Contents(v), Len(file) + 1, FileSize)
<1>1. FileSize \in Nat /\ Len(<< >>) = 0 /\ Len(file) \in Nat
  BY LocalModelAssumption DEF Files
<1>2. Len(rest) = FileSize - Len(file) /\ \A i \in 1 .. Len(rest) : rest[i] = <<v, Len(file) + i>>
  BY <1>1, Rests
<1> HIDE DEF rest
<1>3. Continues(v, file, << >>, rest, to)
  BY <1>1, <1>2 DEF Continues
<1> QED BY <1>3 DEF rest

LEMMA ReadsOn ==
  ASSUME NEW v \in Commits, NEW file \in Files, NEW rest \in Files, NEW to, rest # << >>,
         Continues(v, file, << >>, rest, to)
  PROVE  Continues(v, file, <<[block |-> Head(rest), to |-> to, renamed |-> FALSE]>>,
                   Tail(rest), to)
<1> DEFINE writes == <<[block |-> Head(rest), to |-> to, renamed |-> FALSE]>>
<1>1. /\ FileSize \in Nat /\ Len(<< >>) = 0 /\ Len(file) \in Nat
      /\ Len(rest) \in Nat \ {0}
      /\ Len(file) + Len(rest) = FileSize
      /\ \A i \in 1 .. Len(rest) : rest[i] = <<v, Len(file) + i>>
  BY LocalModelAssumption DEF Files, Continues
<1>2. Len(writes) = 1 /\ writes[1].block = <<v, Len(file) + 1>> /\ writes[1].to = to
  <2>1. Head(rest) = rest[1]
    BY DEF Files
  <2>2. Head(rest) = <<v, Len(file) + 1>>
    BY <1>1, <2>1
  <2> QED BY <2>2
<1>3. Len(Tail(rest)) = Len(rest) - 1 /\ \A i \in 1 .. Len(rest) - 1 : Tail(rest)[i] = rest[i + 1]
  BY <1>1 DEF Files
<1>4. \A i \in 1 .. Len(rest) - 1 : Tail(rest)[i] = <<v, Len(file) + 1 + i>>
  BY <1>1, <1>3
<1> HIDE DEF writes
<1>5. \A i \in 1 .. Len(Tail(rest)) : Tail(rest)[i] = <<v, Len(file) + Len(writes) + i>>
  BY <1>1, <1>2, <1>3, <1>4
<1>6. Len(writes) <= 1 /\ Len(file) + Len(writes) + Len(Tail(rest)) = FileSize
  BY <1>1, <1>2, <1>3
<1>7. Continues(v, file, writes, Tail(rest), to)
  BY <1>2, <1>5, <1>6 DEF Continues
<1> QED BY <1>7 DEF writes

LEMMA FileLands ==
  ASSUME NEW v \in Commits, NEW file \in Files, NEW rest \in Files, NEW to, NEW writes \in Writes,
         writes # << >>, Continues(v, file, writes, rest, to), Beginning(file, v)
  PROVE  /\ Head(writes).to = to /\ Beginning(Written(file, Head(writes)), v)
         /\ Continues(v, Written(file, Head(writes)), << >>, rest, to)
<1> DEFINE w == Head(writes)
           longer == Written(file, w)
<1>1. w = writes[1] /\ Len(writes) \in Nat \ {0}
  BY Heads DEF Writes
<1> HIDE DEF w
<1>2. /\ FileSize \in Nat /\ Len(<< >>) = 0 /\ Len(file) \in Nat /\ Len(rest) \in Nat
      /\ Len(writes) = 1 /\ Len(file) + 1 + Len(rest) = FileSize
      /\ \A i \in 1 .. Len(rest) : rest[i] = <<v, Len(file) + 1 + i>>
      /\ w.block = <<v, Len(file) + 1>> /\ w.to = to
  <2>1. FileSize \in Nat /\ Len(<< >>) = 0 /\ Len(file) \in Nat /\ Len(rest) \in Nat
    BY LocalModelAssumption DEF Files
  <2>2. Len(writes) = 1 /\ Len(file) + Len(writes) + Len(rest) = FileSize
    <3>1. Len(writes) <= 1 /\ Len(file) + Len(writes) + Len(rest) = FileSize
      BY Zenon DEF Continues
    <3>2. \A n \in Nat \ {0} : n <= 1 => n = 1
      OBVIOUS
    <3> QED BY <1>1, <3>1, <3>2, Zenon
  <2>3. \A i \in 1 .. Len(rest) : rest[i] = <<v, Len(file) + Len(writes) + i>>
    BY DEF Continues
  <2>4. w.block = <<v, Len(file) + 1>> /\ w.to = to
    BY <1>1 DEF Continues
  <2> QED BY <2>1, <2>2, <2>3, <2>4
<1>3. /\ longer \in Files /\ Len(longer) = Len(file) + 1
      /\ \A j \in 1 .. Len(file) : longer[j] = file[j]
      /\ longer[Len(file) + 1] = w.block
  BY <1>2, BlockWritten, Known
<1> HIDE DEF longer
<1>4. \A j \in 1 .. Len(longer) : longer[j] = <<v, j>>
  <2>1. \A j \in 1 .. Len(file) : file[j] = <<v, j>>
    BY DEF Beginning
  <2>2. \A j \in 1 .. Len(longer) : j \in 1 .. Len(file) \/ j = Len(file) + 1
    BY <1>2, <1>3
  <2>3. longer[Len(file) + 1] = <<v, Len(file) + 1>>
    BY <1>2, <1>3
  <2>4. \A j \in 1 .. Len(file) : longer[j] = <<v, j>>
    BY <1>3, <2>1
  <2> QED BY <2>2, <2>3, <2>4
<1>5. Beginning(longer, v)
  BY <1>2, <1>3, <1>4 DEF Beginning
<1>6. Continues(v, longer, << >>, rest, to)
  BY <1>2, <1>3 DEF Continues
<1> QED BY <1>2, <1>5, <1>6 DEF w, longer

LEMMA Completes ==
  ASSUME NEW v \in Commits, NEW file \in Files, NEW to, Beginning(file, v),
         Continues(v, file, << >>, << >>, to)
  PROVE  file = Contents(v)
<1>1. Len(file) = FileSize
  BY LocalModelAssumption DEF Continues, Files
<1> QED BY <1>1, WholeBeginning

(* The types are kept.                                                     *)
THEOREM LocalModelTypeCorrect == LocalModelSpec => []LocalModelType
<1> USE LocalModelAssumption
<1>1. LocalModelInit => LocalModelType
  <2> SUFFICES ASSUME LocalModelInit PROVE LocalModelType
    OBVIOUS
  <2>1. 1 \in Commits
    BY DEF Commits
  <2> QED BY <2>1, Known DEF LocalModelInit, LocalModelType, TaskType, AimType,
     LoaderType, DiskType, CountType
<1>2. LocalModelType /\ [LocalModelNext]_modelVars => LocalModelType'
  <2> SUFFICES ASSUME LocalModelType, [LocalModelNext]_modelVars PROVE LocalModelType'
    OBVIOUS
  <2>1. ASSUME NEW t \in Loads, EnsureReady(t) PROVE LocalModelType'
    <3>1. TaskType'
      BY <2>1, Known DEF LocalModelType, EnsureReady, MovesTo, TaskType,
         AimType, LoaderType, DiskType, CountType
    <3>2. AimType'
      BY <2>1, Known DEF LocalModelType, EnsureReady, MovesTo, AimType,
         TaskType, LoaderType, DiskType, CountType
    <3>3. CountType'
      BY <2>1, Known DEF LocalModelType, EnsureReady, MovesTo, CountType,
         TaskType, AimType, LoaderType, DiskType
    <3> QED BY <2>1, <3>1, <3>2, <3>3 DEF LocalModelType, EnsureReady,
       hubDisk, LoaderType, DiskType
  <2>2. ASSUME NEW t \in Loads, ReadState(t) PROVE LocalModelType'
    <3>1. TaskType'
      BY <2>2, Known DEF LocalModelType, ReadState, Unlocked, NoLoad, MovesTo,
         TaskType, AimType, LoaderType, DiskType, CountType
    <3>2. AimType'
      BY <2>2, Known DEF LocalModelType, ReadState, Unlocked, NoLoad, MovesTo,
         AimType, TaskType, LoaderType, DiskType, CountType
    <3> QED BY <2>2, <3>1, <3>2 DEF LocalModelType, ReadState, hubDisk,
       counts, LoaderType, DiskType, CountType
  <2>3. ASSUME NEW t \in Loads, BeginAttempt(t) PROVE LocalModelType'
    <3>1. TaskType'
      <4>1. CASE /\ loader[home[t]] = "Ready"
                 /\ UNCHANGED <<target, loader, attempts>>
                 /\ at' = [at EXCEPT ![t] = "idle"]
        BY <4>1, <2>3, Known DEF LocalModelType, TaskType, BeginAttempt
      <4>2. CASE /\ at' = [at EXCEPT ![t] = "head"]
                 /\ target' = [target EXCEPT ![t] = Target(0, CachedEtag)]
                 /\ loader' = [loader EXCEPT ![home[t]] = "Downloading"]
                 /\ attempts' = [attempts EXCEPT ![home[t]] = t]
        BY <4>2, <2>3, Known DEF LocalModelType, TaskType, BeginAttempt
      <4> QED BY <2>3, <4>1, <4>2 DEF BeginAttempt, MovesTo
    <3>2. AimType'
      BY <2>3, Known DEF LocalModelType, BeginAttempt, Unlocked, NoLoad,
         MovesTo, AimType, TaskType, LoaderType, DiskType, CountType
    <3>3. LoaderType'
      <4>1. CASE /\ loader[home[t]] = "Ready"
                 /\ UNCHANGED <<target, loader, attempts>>
                 /\ at' = [at EXCEPT ![t] = "idle"]
        BY <4>1, <2>3, Known DEF LocalModelType, LoaderType
      <4>2. CASE /\ at' = [at EXCEPT ![t] = "head"]
                 /\ target' = [target EXCEPT ![t] = Target(0, CachedEtag)]
                 /\ loader' = [loader EXCEPT ![home[t]] = "Downloading"]
                 /\ attempts' = [attempts EXCEPT ![home[t]] = t]
        BY <4>2, <2>3, Known DEF LocalModelType, TaskType, LoaderType
      <4> QED BY <2>3, <4>1, <4>2 DEF BeginAttempt, MovesTo
    <3> QED BY <2>3, <3>1, <3>2, <3>3 DEF LocalModelType, BeginAttempt,
       hubDisk, counts, DiskType, CountType
  <2>4. ASSUME NEW t \in Loads, Build(t) PROVE LocalModelType'
    <3>1. TaskType'
      BY <2>4, Known DEF LocalModelType, Build, AttemptEnds, MovesTo, NoLoad,
         Released, TaskType, AimType, LoaderType, DiskType, CountType
    <3>2. AimType'
      BY <2>4, Known DEF LocalModelType, Build, AttemptEnds, MovesTo, NoLoad,
         Released, AimType, TaskType, LoaderType, DiskType, CountType
    <3>3. LoaderType'
      BY <2>4, Known DEF LocalModelType, Build, AttemptEnds, MovesTo, NoLoad,
         Released, LoaderType, TaskType, AimType, DiskType, CountType
    <3>4. DiskType'
      BY <2>4, Known DEF LocalModelType, Build, AttemptEnds, MovesTo, NoLoad,
         Released, hubDisk, DiskType, TaskType, AimType, LoaderType, CountType
    <3> QED BY <2>4, <3>1, <3>2, <3>3, <3>4 DEF LocalModelType, Build, counts,
       CountType
  <2>5. ASSUME NEW t \in Loads, Head304(t) PROVE LocalModelType'
    <3>1. TaskType' /\ AimType'
      BY <2>5, Known DEF LocalModelType, Head304, MovesTo, AimType, TaskType, DiskType
    <3> QED BY <2>5, <3>1 DEF LocalModelType, Head304, hubDisk, counts,
       LoaderType, DiskType, CountType
  <2>6. ASSUME NEW t \in Loads, ReadRef(t) PROVE LocalModelType'
    <3>1. /\ at[t] = "current" /\ target[t].etag \in Commits
          /\ UNCHANGED <<home, body, out, loader, attempts, main, hubDisk, flocks, starts,
                         crashes, orphans>>
          /\ spoiled' = spoiled \/ (ref # 0 /\ spoiled' = spoiled \cup ({ref} \ {target[t].etag}))
      BY <2>6 DEF ReadRef, LocalModelType, AimType
    <3>2. PICK c \in Commits, where \in {"ref", "lock"} :
            /\ at' = [at EXCEPT ![t] = where]
            /\ target' = [target EXCEPT ![t] = Target(c, target[t].etag)]
      BY <2>6, <3>1, Known DEF ReadRef, Needs, Downloads, MovesTo, LocalModelType
    <3>3. TaskType' /\ AimType'
      BY <3>1, <3>2, Known DEF LocalModelType, TaskType, AimType
    <3>4. CountType'
      BY <3>1, Known DEF LocalModelType, CountType
    <3> QED BY <3>1, <3>3, <3>4 DEF LocalModelType, hubDisk, LoaderType, DiskType
  <2>7. ASSUME NEW t \in Loads, HeadOk(t) PROVE LocalModelType'
    <3>1. TaskType'
      BY <2>7, Known DEF LocalModelType, HeadOk, Needs, Downloads, MovesTo, TaskType,
         AimType, LoaderType, DiskType, CountType
    <3>2. AimType'
      BY <2>7, Known DEF LocalModelType, HeadOk, Needs, Downloads, MovesTo, AimType,
         TaskType, LoaderType, DiskType, CountType
    <3> QED BY <2>7, <3>1, <3>2 DEF LocalModelType, HeadOk, hubDisk, counts,
       LoaderType, DiskType, CountType
  <2>8. ASSUME NEW t \in Loads, HeadOffline(t) PROVE LocalModelType'
    <3>1. TaskType'
      BY <2>8, Known DEF LocalModelType, HeadOffline, Downloads, MovesTo,
         TaskType, AimType, LoaderType, DiskType, CountType
    <3>2. AimType'
      BY <2>8, Known DEF LocalModelType, HeadOffline, Downloads, MovesTo,
         AimType, TaskType, LoaderType, DiskType, CountType
    <3>3. LoaderType'
      BY <2>8, Known DEF LocalModelType, HeadOffline, Downloads, MovesTo,
         LoaderType, NoLoad, TaskType, AimType, DiskType, CountType
    <3> QED BY <2>8, <3>1, <3>2, <3>3 DEF LocalModelType, HeadOffline,
       hubDisk, counts, DiskType, CountType
  <2>9. ASSUME NEW t \in Loads, HeadFails(t) PROVE LocalModelType'
    <3>1. TaskType'
      BY <2>9, Known DEF LocalModelType, HeadFails, LoadFails, AttemptEnds,
         MovesTo, NoLoad, Released, TaskType, AimType, LoaderType, DiskType,
         CountType
    <3>2. AimType'
      BY <2>9, Known DEF LocalModelType, HeadFails, LoadFails, AttemptEnds,
         MovesTo, NoLoad, Released, AimType, TaskType, LoaderType, DiskType,
         CountType
    <3>3. LoaderType'
      BY <2>9, Known DEF LocalModelType, HeadFails, LoadFails, AttemptEnds,
         MovesTo, NoLoad, Released, LoaderType, TaskType, AimType, DiskType,
         CountType
    <3>4. DiskType'
      BY <2>9, Known DEF LocalModelType, HeadFails, LoadFails, AttemptEnds,
         MovesTo, NoLoad, Released, hubDisk, DiskType, TaskType, AimType,
         LoaderType, CountType
    <3> QED BY <2>9, <3>1, <3>2, <3>3, <3>4 DEF LocalModelType, HeadFails,
       LoadFails, counts, CountType
  <2>10. ASSUME NEW t \in Loads, LockBlob(t) PROVE LocalModelType'
    <3>1. TaskType'
      BY <2>10, Known DEF LocalModelType, LockBlob, NoLoad, MovesTo, TaskType,
         AimType, LoaderType, DiskType, CountType
    <3>2. AimType'
      BY <2>10, Known DEF LocalModelType, LockBlob, NoLoad, MovesTo, AimType,
         TaskType, LoaderType, DiskType, CountType
    <3>3. DiskType'
      BY <2>10, Known DEF LocalModelType, LockBlob, NoLoad, MovesTo, hubDisk,
         DiskType, TaskType, AimType, LoaderType, CountType
    <3> QED BY <2>10, <3>1, <3>2, <3>3 DEF LocalModelType, LockBlob, counts,
       LoaderType, CountType
  <2>11. ASSUME NEW t \in Loads, OpenDownload(t) PROVE LocalModelType'
    <3>1. TaskType'
      <4>1. CASE /\ Len(partial[target[t].etag]) > 0
                 /\ Len(partial[target[t].etag]) < FileSize
                 /\ body' = [body EXCEPT ![t] = SubSeq(Contents(main), Len(partial[target[t].etag]) + 1, FileSize)]
                 /\ target' = [target EXCEPT ![t].resumed = TRUE]
                 /\ UNCHANGED partial
        <5>1. /\ at' = [at EXCEPT ![t] = "fetch"] /\ at[t] = "open"
              /\ UNCHANGED <<home, out>>
          BY <2>11 DEF OpenDownload, MovesTo
        <5>2. target[t] \in Aims /\ target[t].etag \in Commits
          BY <5>1, Known DEF LocalModelType, AimType
        <5>3. [target[t] EXCEPT !.resumed = TRUE] \in Aims
          BY <5>2 DEF Aims
        <5>4. target' = [target EXCEPT ![t] = [target[t] EXCEPT !.resumed = TRUE]]
          BY <4>1
        <5>5. Len(partial[target[t].etag]) \in Nat
          BY <5>2 DEF LocalModelType, DiskType, Files
        <5>6. SubSeq(Contents(main), Len(partial[target[t].etag]) + 1, FileSize) \in Files
          BY <4>1, <5>5, Rests DEF LocalModelType, DiskType
        <5>7. [target[t] EXCEPT !.resumed = TRUE] \in Targets
          BY <5>3, Known
        <5> QED BY <4>1, <5>1, <5>4, <5>6, <5>7 DEF LocalModelType, TaskType
      <4>2. CASE /\ body' = [body EXCEPT ![t] = Contents(main)]
                 /\ partial' = [partial EXCEPT ![target[t].etag] = << >>]
                 /\ UNCHANGED target
        <5>1. /\ at' = [at EXCEPT ![t] = "fetch"] /\ at[t] = "open"
              /\ UNCHANGED <<home, out>>
          BY <2>11 DEF OpenDownload, MovesTo
        <5>2. target[t] \in Aims /\ target[t].etag \in Commits
          BY <5>1, Known DEF LocalModelType, AimType
        <5>3. Contents(main) \in Files
          BY Whole DEF LocalModelType, DiskType
        <5> QED BY <4>2, <5>1, <5>3 DEF LocalModelType, TaskType
      <4> QED BY <2>11, <4>1, <4>2 DEF OpenDownload, MovesTo
    <3>2. AimType'
      <4>1. CASE /\ Len(partial[target[t].etag]) > 0
                 /\ Len(partial[target[t].etag]) < FileSize
                 /\ body' = [body EXCEPT ![t] = SubSeq(Contents(main), Len(partial[target[t].etag]) + 1, FileSize)]
                 /\ target' = [target EXCEPT ![t].resumed = TRUE]
                 /\ UNCHANGED partial
        <5>1. /\ at' = [at EXCEPT ![t] = "fetch"] /\ at[t] = "open"
              /\ UNCHANGED <<home, out>>
          BY <2>11 DEF OpenDownload, MovesTo
        <5>2. target[t] \in Aims /\ target[t].etag \in Commits
          BY <5>1, Known DEF LocalModelType, AimType
        <5>3. [target[t] EXCEPT !.resumed = TRUE] \in Aims
          BY <5>2 DEF Aims
        <5>4. target' = [target EXCEPT ![t] = [target[t] EXCEPT !.resumed = TRUE]]
          BY <4>1
        <5>5. target' \in [Loads -> Targets] /\ target'[t] \in Aims /\ \A u \in Loads \ {t} : target'[u] = target[u]
          BY <5>3, <5>4, Known DEF LocalModelType, TaskType
        <5> QED BY <5>1, <5>5 DEF LocalModelType, TaskType, AimType
      <4>2. CASE /\ body' = [body EXCEPT ![t] = Contents(main)]
                 /\ partial' = [partial EXCEPT ![target[t].etag] = << >>]
                 /\ UNCHANGED target
        <5>1. /\ at' = [at EXCEPT ![t] = "fetch"] /\ at[t] = "open"
              /\ UNCHANGED <<home, out>>
          BY <2>11 DEF OpenDownload, MovesTo
        <5>2. target[t] \in Aims /\ target[t].etag \in Commits
          BY <5>1, Known DEF LocalModelType, AimType
        <5> QED BY <4>2, <5>1, <5>2 DEF LocalModelType, TaskType, AimType
      <4> QED BY <2>11, <4>1, <4>2 DEF OpenDownload, MovesTo
    <3>3. DiskType'
      <4>1. partial' = partial \/ partial' = [partial EXCEPT ![target[t].etag] = << >>]
        BY <2>11 DEF OpenDownload
      <4>2. partial' \in [Commits -> Files]
        BY <4>1, Known DEF LocalModelType, DiskType
      <4> QED BY <2>11, <4>2 DEF OpenDownload, LocalModelType, DiskType
    <3>4. CountType'
      BY <2>11, Known DEF OpenDownload, LocalModelType, AimType, CountType
    <3> QED BY <2>11, <3>1, <3>2, <3>3, <3>4 DEF LocalModelType, OpenDownload, LoaderType
  <2>12. ASSUME NEW t \in Loads, OpenFails(t) PROVE LocalModelType'
    <3>1. TaskType'
      BY <2>12, Known DEF LocalModelType, OpenFails, LoadFails, AttemptEnds,
         MovesTo, NoLoad, Released, TaskType, AimType, LoaderType, DiskType,
         CountType
    <3>2. AimType'
      BY <2>12, Known DEF LocalModelType, OpenFails, LoadFails, AttemptEnds,
         MovesTo, NoLoad, Released, AimType, TaskType, LoaderType, DiskType,
         CountType
    <3>3. LoaderType'
      BY <2>12, Known DEF LocalModelType, OpenFails, LoadFails, AttemptEnds,
         MovesTo, NoLoad, Released, LoaderType, TaskType, AimType, DiskType,
         CountType
    <3>4. DiskType'
      BY <2>12, Known DEF LocalModelType, OpenFails, LoadFails, AttemptEnds,
         MovesTo, NoLoad, Released, hubDisk, DiskType, TaskType, AimType,
         LoaderType, CountType
    <3> QED BY <2>12, <3>1, <3>2, <3>3, <3>4 DEF LocalModelType, OpenFails,
       LoadFails, counts, CountType
  <2>13. ASSUME NEW t \in Loads, ReadChunk(t) PROVE LocalModelType'
    <3>1. TaskType'
      <4>1. /\ at[t] = "fetch" /\ body[t] # << >>
            /\ out' = [out EXCEPT ![t] = <<[block |-> Head(body[t]), to |-> target[t], renamed |-> FALSE]>>]
            /\ body' = [body EXCEPT ![t] = Tail(body[t])]
            /\ UNCHANGED <<home, at, target>>
        BY <2>13 DEF ReadChunk
      <4>2. body[t] \in Files /\ target[t] \in Aims
        BY <4>1 DEF LocalModelType, TaskType, AimType
      <4>3. Head(body[t]) \in Versions \X Nat /\ Tail(body[t]) \in Files
        BY <4>1, <4>2 DEF Files
      <4>4. [block |-> Head(body[t]), to |-> target[t], renamed |-> FALSE] \in WriteRecords
        BY <4>2, <4>3 DEF WriteRecords
      <4>5. <<[block |-> Head(body[t]), to |-> target[t], renamed |-> FALSE]>> \in Writes
        BY <4>4 DEF Writes
      <4> QED BY <4>1, <4>3, <4>5 DEF LocalModelType, TaskType
    <3> QED BY <2>13, <3>1 DEF LocalModelType, ReadChunk, hubDisk, counts,
       AimType, LoaderType, DiskType, CountType
  <2>14. ASSUME NEW t \in Loads, BlockLands(t) PROVE LocalModelType'
    <3>1. TaskType'
      BY <2>14, Known DEF LocalModelType, BlockLands, TaskType
    <3>2. DiskType'
      <4> DEFINE w == Head(out[t])
      <4>1. /\ out[t] # << >>
            /\ \/ partial' = [partial EXCEPT ![w.to.etag] = Written(partial[w.to.etag], w)]
                  /\ UNCHANGED blob
               \/ blob' = [blob EXCEPT ![w.to.etag] = Written(blob[w.to.etag], w)]
                  /\ UNCHANGED partial
            /\ UNCHANGED <<main, ref, pointer, flocks>>
        BY <2>14 DEF BlockLands
      <4>2. w.block \in Versions \X Nat /\ w.to \in Aims
        <5>1. out[t] \in Writes
          BY DEF LocalModelType, TaskType
        <5>2. w \in WriteRecords
          BY <4>1, <5>1, Heads DEF Writes
        <5> QED BY <5>2 DEF WriteRecords
      <4>3. w.to.etag \in Commits
        BY <4>2, Known
      <4> HIDE DEF w
      <4>4. Written(partial[w.to.etag], w) \in Files /\ Written(blob[w.to.etag], w) \in Files
        BY <4>2, <4>3, WrittenType DEF LocalModelType, DiskType
      <4> QED BY <4>1, <4>3, <4>4 DEF LocalModelType, DiskType
    <3> QED BY <2>14, <3>1, <3>2 DEF LocalModelType, BlockLands, counts,
       AimType, LoaderType, CountType
  <2>15. ASSUME NEW t \in Loads, FetchBreaks(t) PROVE LocalModelType'
    <3>1. TaskType'
      BY <2>15, Known DEF LocalModelType, FetchBreaks, LoadFails, AttemptEnds,
         MovesTo, NoLoad, Released, TaskType, AimType, LoaderType, DiskType,
         CountType
    <3>2. AimType'
      BY <2>15, Known DEF LocalModelType, FetchBreaks, LoadFails, AttemptEnds,
         MovesTo, NoLoad, Released, AimType, TaskType, LoaderType, DiskType,
         CountType
    <3>3. LoaderType'
      BY <2>15, Known DEF LocalModelType, FetchBreaks, LoadFails, AttemptEnds,
         MovesTo, NoLoad, Released, LoaderType, TaskType, AimType, DiskType,
         CountType
    <3>4. DiskType'
      BY <2>15, Known DEF LocalModelType, FetchBreaks, LoadFails, AttemptEnds,
         MovesTo, NoLoad, Released, hubDisk, DiskType, TaskType, AimType,
         LoaderType, CountType
    <3> QED BY <2>15, <3>1, <3>2, <3>3, <3>4 DEF LocalModelType, FetchBreaks,
       LoadFails, counts, CountType
  <2>16. ASSUME NEW t \in Loads, FetchDone(t) PROVE LocalModelType'
    <3>1. TaskType' /\ AimType'
      <4>1. /\ at[t] = "fetch" /\ at' = [at EXCEPT ![t] = "ref"]
            /\ UNCHANGED <<home, target, body>>
            /\ out' = [u \in Loads |-> Renamed(out[u], target[t].etag)]
        BY <2>16 DEF FetchDone, MovesTo
      <4>2. \A u \in Loads : Renamed(out[u], target[t].etag) \in Writes
        BY Renames DEF LocalModelType, TaskType
      <4>3. out' \in [Loads -> Writes]
        BY <4>1, <4>2
      <4> QED BY <4>1, <4>3 DEF LocalModelType, TaskType, AimType
    <3>2. DiskType'
      BY <2>16, Known DEF LocalModelType, FetchDone, AimType, DiskType
    <3> QED BY <2>16, <3>1, <3>2 DEF LocalModelType, FetchDone, counts, LoaderType, CountType
  <2>17. ASSUME NEW t \in Loads, FinalizeRef(t) PROVE LocalModelType'
    <3>1. TaskType'
      BY <2>17, Known DEF LocalModelType, FinalizeRef, MovesTo, TaskType,
         AimType, LoaderType, DiskType, CountType
    <3>2. AimType'
      BY <2>17, Known DEF LocalModelType, FinalizeRef, MovesTo, AimType,
         TaskType, LoaderType, DiskType, CountType
    <3>3. DiskType'
      BY <2>17, Known DEF LocalModelType, FinalizeRef, MovesTo, DiskType,
         NoLoad, TaskType, AimType, LoaderType, CountType
    <3> QED BY <2>17, <3>1, <3>2, <3>3 DEF LocalModelType, FinalizeRef,
       counts, LoaderType, CountType
  <2>18. ASSUME NEW t \in Loads, FinalizeLink(t) PROVE LocalModelType'
    <3>1. TaskType'
      BY <2>18, Known DEF LocalModelType, FinalizeLink, Released, NoLoad,
         MovesTo, TaskType, AimType, LoaderType, DiskType, CountType
    <3>2. AimType'
      BY <2>18, Known DEF LocalModelType, FinalizeLink, Released, NoLoad,
         MovesTo, AimType, TaskType, LoaderType, DiskType, CountType
    <3>3. LoaderType'
      BY <2>18, Known DEF LocalModelType, FinalizeLink, Released, NoLoad,
         MovesTo, LoaderType, TaskType, AimType, DiskType, CountType
    <3>4. DiskType'
      BY <2>18, Known DEF LocalModelType, FinalizeLink, Released, NoLoad,
         MovesTo, DiskType, TaskType, AimType, LoaderType, CountType
    <3> QED BY <2>18, <3>1, <3>2, <3>3, <3>4 DEF LocalModelType, FinalizeLink,
       counts, CountType
  <2>19. ASSUME NEW t \in Loads, DropLoad(t) PROVE LocalModelType'
    <3>1. TaskType'
      <4>1. at' = [at EXCEPT ![t] = "idle"] /\ UNCHANGED <<home, out>>
        BY <2>19 DEF DropLoad, AttemptEnds, MovesTo
      <4>2. /\ target' = target \/ target' = [target EXCEPT ![t] = NoTarget]
            /\ body' = body \/ body' = [body EXCEPT ![t] = << >>]
        BY <2>19, Zenon DEF DropLoad, AttemptEnds
      <4>3. target' \in [Loads -> Targets] /\ body' \in [Loads -> Files]
        <5>1. /\ target \in [Loads -> Targets] /\ body \in [Loads -> Files]
              /\ NoTarget \in Targets /\ << >> \in Files
          BY Known DEF LocalModelType, TaskType
        <5> QED BY <4>2, <5>1
      <4> QED BY <4>1, <4>3 DEF LocalModelType, TaskType
    <3>2. AimType'
      <4>1. /\ at' = [at EXCEPT ![t] = "idle"]
            /\ target' = [target EXCEPT ![t] = NoTarget] \/ target' = target
        BY <2>19 DEF DropLoad, AttemptEnds, MovesTo
      <4> QED BY <4>1 DEF LocalModelType, TaskType, AimType
    <3>3. LoaderType'
      <4>1. \/ UNCHANGED <<loader, attempts>>
            \/ /\ loader' = [loader EXCEPT ![home[t]] = "Failed"]
               /\ attempts' = [attempts EXCEPT ![home[t]] = NoLoad]
        BY <2>19 DEF DropLoad, AttemptEnds
      <4> QED BY <4>1 DEF LocalModelType, LoaderType
    <3>4. DiskType'
      BY <2>19, Known DEF LocalModelType, DropLoad, AttemptEnds, MovesTo,
         NoLoad, Released, hubDisk, DiskType, TaskType, AimType, LoaderType,
         CountType
    <3>5. CountType'
      <4>1. /\ UNCHANGED <<starts, crashes>>
            /\ \/ UNCHANGED <<orphans, spoiled>>
               \/ /\ out[t] # << >> /\ orphans' = orphans + 1
                  /\ spoiled' = spoiled \cup {Head(out[t]).to.etag}
        BY <2>19 DEF DropLoad
      <4>2. out[t] # << >> => Head(out[t]) \in WriteRecords
        BY Heads DEF LocalModelType, TaskType, Writes
      <4>3. out[t] # << >> => Head(out[t]).to.etag \in Commits
        BY <4>2, Known DEF WriteRecords
      <4> QED BY <4>1, <4>3 DEF LocalModelType, CountType
    <3> QED BY <2>19, <3>1, <3>2, <3>3, <3>4, <3>5 DEF LocalModelType
  <2>20. ASSUME NEW p \in Processes, Unload(p) PROVE LocalModelType'
    <3>1. LoaderType'
      BY <2>20, Known DEF LocalModelType, Unload, NoLoad, LoaderType,
         TaskType, AimType, DiskType, CountType
    <3> QED BY <2>20, <3>1 DEF LocalModelType, Unload, taskVars, hubDisk,
       counts, TaskType, AimType, DiskType, CountType
  <2>21. ASSUME NEW p \in Processes, ProcessDies(p) PROVE LocalModelType'
    <3>1. TaskType'
      BY <2>21, Known DEF LocalModelType, ProcessDies, NoLoad, TaskType,
         AimType, LoaderType, DiskType, CountType
    <3>2. AimType'
      BY <2>21, Known DEF LocalModelType, ProcessDies, NoLoad, AimType,
         TaskType, LoaderType, DiskType, CountType
    <3>3. LoaderType'
      BY <2>21, Known DEF LocalModelType, ProcessDies, NoLoad, LoaderType,
         TaskType, AimType, DiskType, CountType
    <3>4. DiskType'
      BY <2>21, Known DEF LocalModelType, ProcessDies, NoLoad, DiskType,
         TaskType, AimType, LoaderType, CountType
    <3>5. CountType'
      BY <2>21, Known DEF LocalModelType, ProcessDies, NoLoad, CountType,
         TaskType, AimType, LoaderType, DiskType
    <3> QED BY <2>21, <3>1, <3>2, <3>3, <3>4, <3>5 DEF LocalModelType
  <2>22. CASE Push
    <3>1. DiskType'
      <4>1. main + 1 \in Commits
        BY <2>22 DEF Push, Commits, LocalModelType, DiskType
      <4> QED BY <2>22, <4>1 DEF Push, hubDisk, LocalModelType, DiskType
    <3> QED BY <2>22, <3>1 DEF LocalModelType, Push, taskVars, counts,
       TaskType, AimType, LoaderType, CountType
  <2>23. CASE UNCHANGED modelVars
    BY <2>23 DEF modelVars, taskVars, hubDisk, counts, LocalModelType,
       TaskType, AimType, LoaderType, DiskType, CountType
  <2> QED BY <2>1, <2>2, <2>3, <2>4, <2>5, <2>6, <2>7, <2>8, <2>9, <2>10,
     <2>11, <2>12, <2>13, <2>14, <2>15, <2>16, <2>17, <2>18, <2>19, <2>20,
     <2>21, <2>22, <2>23 DEF LocalModelNext, LoadStep
<1> QED BY <1>1, <1>2, PTL DEF LocalModelSpec

(* Spoiled versions stay so, and what is not spoiled is still there when   *)
(* pointers and blobs are.                                                 *)
LEMMA StaysThere ==
  ASSUME DownloadSafe, spoiled \subseteq spoiled', UNCHANGED <<pointer, blob>>
  PROVE  PointersLead' /\ BlobsWhole'
BY DEF DownloadSafe, PointersLead, BlobsWhole, Unspoiled

(* A task that goes on to `where`, other than to read a body, in no way    *)
(* disturbs the others.                                                    *)
LEMMA TaskMoves ==
  ASSUME LocalModelType, DownloadSafe, NEW t \in Loads, NEW where,
         at' = [at EXCEPT ![t] = where], where # "fetch",
         \A u \in Loads \ {t} : target'[u] = target[u] /\ body'[u] = body[u],
         UNCHANGED <<home, out, blob, partial>>, spoiled \subseteq spoiled',
         where = "idle" \/ out[t] = << >>,
         out[t] # << >> /\ at[t] = "fetch" => Head(out[t]).to.etag \in spoiled',
         where \in {"idle", "read", "write"} \/ attempts'[home[t]] = t,
         \A u \in Loads \ {t} : attempts[home[u]] = u => attempts'[home[u]] = u,
         \A u \in Loads \ {t}, v \in Commits : flocks[v] = u => flocks'[v] = u,
         where = "open" => flocks'[target'[t].etag] = t,
         where \in {"lock", "open", "ref", "link"} =>
           target'[t].commit = target'[t].etag \/ target'[t].commit \in spoiled',
         where \in {"head", "current", "ref", "link"} /\ target'[t].etag \in Commits \ spoiled' =>
           blob[target'[t].etag] # << >>
  PROVE  Downloading'
<1>1. /\ at'[t] = where /\ \A u \in Loads \ {t} : at'[u] = at[u]
      /\ \A v \in Commits : v \notin spoiled' => v \notin spoiled
  BY DEF LocalModelType, TaskType
<1>2. Attempting'
  BY <1>1 DEF DownloadSafe, Downloading, Attempting
<1>3. Locked'
  <2>1. \A u \in Loads : at[u] \in {"open", "fetch"} => target[u].etag \in Commits
    BY Known DEF LocalModelType, AimType
  <2> QED BY <1>1, <2>1 DEF DownloadSafe, Downloading, Locked
<1>4. OnCourse'
  BY <1>1 DEF DownloadSafe, Downloading, OnCourse, Unspoiled
<1>5. PartsWhole'
  BY <1>1 DEF DownloadSafe, Downloading, PartsWhole, Unspoiled
<1>6. WritesOwned'
  BY <1>1 DEF DownloadSafe, Downloading, WritesOwned, Unspoiled
<1>7. InProgress'
  BY <1>1 DEF DownloadSafe, Downloading, InProgress, Unspoiled
<1> QED BY <1>2, <1>3, <1>4, <1>5, <1>6, <1>7 DEF Downloading

(* A task that returns, whatever its download left behind.                 *)
LEMMA TaskEnds ==
  ASSUME LocalModelType, DownloadSafe, NEW t \in Loads,
         \/ attempts[home[t]] = t /\ \E outcome : AttemptEnds(t, outcome)
         \/ MovesTo(t, "idle") /\ UNCHANGED <<target, body, attempts, flocks>>,
         UNCHANGED <<home, out, pointer, blob, partial>>, spoiled \subseteq spoiled',
         out[t] # << >> /\ at[t] = "fetch" => Head(out[t]).to.etag \in spoiled'
  PROVE  DownloadSafe'
<1>1. /\ at' = [at EXCEPT ![t] = "idle"]
      /\ \/ /\ attempts[home[t]] = t /\ attempts' = [attempts EXCEPT ![home[t]] = NoLoad]
            /\ target' = [target EXCEPT ![t] = NoTarget] /\ body' = [body EXCEPT ![t] = << >>]
            /\ flocks' = Released(t)
         \/ UNCHANGED <<target, body, attempts, flocks>>
  BY DEF AttemptEnds, MovesTo
<1>2. \A u \in Loads \ {t} : target'[u] = target[u] /\ body'[u] = body[u]
  BY <1>1 DEF LocalModelType, TaskType
<1>3. \A u \in Loads \ {t} : attempts[home[u]] = u => attempts'[home[u]] = u
  BY <1>1 DEF LocalModelType, TaskType, LoaderType
<1>4. \A u \in Loads \ {t}, v \in Commits : flocks[v] = u => flocks'[v] = u
  BY <1>1 DEF Released
<1>5. Downloading'
  BY <1>1, <1>2, <1>3, <1>4, TaskMoves
<1> QED BY <1>5, StaysThere DEF DownloadSafe

(* A file under its final name is whole, and a pointer leads to its own    *)
(* commit (BlobsWhole), whatever pushes, crashes and dropped downloads     *)
(* come between, as long as nothing spoiled the version.                   *)
THEOREM BlobsStayWhole == LocalModelSpec => []BlobsWhole
<1> USE LocalModelAssumption
<1>1. LocalModelInit => DownloadSafe
  <2> SUFFICES ASSUME LocalModelInit PROVE DownloadSafe
    OBVIOUS
  <2>1. \A v \in Commits : Beginning(<< >>, v)
    BY Starts
  <2>2. \A v \in Commits : v # 0
    BY DEF Commits
  <2> QED BY <2>1, <2>2, Known DEF LocalModelInit, DownloadSafe, Downloading, Attempting,
     Locked, OnCourse, PointersLead, PartsWhole, WritesOwned, InProgress, BlobsWhole, Unspoiled
<1>2. LocalModelType /\ DownloadSafe /\ [LocalModelNext]_modelVars => DownloadSafe'
  <2> SUFFICES ASSUME LocalModelType, DownloadSafe, [LocalModelNext]_modelVars PROVE DownloadSafe'
    OBVIOUS
  <2>1. ASSUME NEW t \in Loads, EnsureReady(t) \/ ReadState(t) PROVE DownloadSafe'
    <3>1. /\ \E where \in {"idle", "read", "write"} : at' = [at EXCEPT ![t] = where]
          /\ at[t] \in {"idle", "read"} /\ (at[t] = "idle" => out[t] = << >>)
          /\ UNCHANGED <<home, target, body, out, attempts, pointer, blob, partial, flocks, spoiled>>
      BY <2>1 DEF EnsureReady, ReadState, MovesTo, hubDisk, counts
    <3>2. out[t] = << >>
      BY <3>1 DEF DownloadSafe, Downloading, WritesOwned
    <3>3. Downloading'
      BY <3>1, <3>2, TaskMoves
    <3> QED BY <3>1, <3>3, StaysThere DEF DownloadSafe
  <2>2. ASSUME NEW t \in Loads, BeginAttempt(t) PROVE DownloadSafe'
    <3>1. /\ at[t] = "write" /\ attempts[home[t]] = NoLoad
          /\ UNCHANGED <<home, body, out, pointer, blob, partial, flocks, spoiled>>
      BY <2>2 DEF BeginAttempt, Unlocked, hubDisk, counts
    <3>2. CASE at' = [at EXCEPT ![t] = "idle"] /\ UNCHANGED <<target, attempts>>
      <4>1. Downloading'
        BY <3>1, <3>2, TaskMoves
      <4> QED BY <3>1, <4>1, StaysThere DEF DownloadSafe
    <3>3. CASE /\ at' = [at EXCEPT ![t] = "head"]
               /\ target' = [target EXCEPT ![t] = Target(0, CachedEtag)]
               /\ attempts' = [attempts EXCEPT ![home[t]] = t]
      <4>1. CachedEtag \in Unspoiled => blob[CachedEtag] # << >>
        <5>1. CASE ref = 0
          BY <5>1 DEF CachedEtag, Unspoiled, Commits
        <5>2. CASE ref # 0
          BY <5>2, Known DEF CachedEtag, DownloadSafe, PointersLead, LocalModelType
        <5> QED BY <5>1, <5>2
      <4>2. out[t] = << >>
        BY <3>1 DEF DownloadSafe, Downloading, WritesOwned
      <4>3. /\ target'[t].etag = CachedEtag /\ \A u \in Loads \ {t} : target'[u] = target[u]
            /\ attempts'[home[t]] = t
            /\ \A u \in Loads \ {t} : attempts[home[u]] = u => attempts'[home[u]] = u
        BY <3>1, <3>3 DEF Target, LocalModelType, TaskType, LoaderType, NoLoad
      <4>4. target'[t].etag \in Commits \ spoiled' => blob[target'[t].etag] # << >>
        BY <3>1, <4>1, <4>3 DEF Unspoiled
      <4>5. Downloading'
        BY <3>1, <3>3, <4>2, <4>3, <4>4, TaskMoves
      <4> QED BY <3>1, <4>5, StaysThere DEF DownloadSafe
    <3> QED BY <2>2, <3>2, <3>3 DEF BeginAttempt, MovesTo
  <2>3. ASSUME NEW t \in Loads, Build(t) \/ HeadFails(t) \/ OpenFails(t) \/ FetchBreaks(t)
        PROVE  DownloadSafe'
    <3>1. /\ at[t] \notin {"idle", "read", "write"} /\ (at[t] = "fetch" => out[t] = << >>)
          /\ \E outcome : AttemptEnds(t, outcome)
          /\ UNCHANGED <<home, out, pointer, blob, partial, spoiled>>
      BY <2>3 DEF Build, HeadFails, OpenFails, FetchBreaks, LoadFails, hubDisk, counts
    <3>2. attempts[home[t]] = t
      BY <3>1 DEF DownloadSafe, Downloading, Attempting
    <3> QED BY <3>1, <3>2, TaskEnds
  <2>4. ASSUME NEW t \in Loads, DropLoad(t) PROVE DownloadSafe'
    <3>1. /\ UNCHANGED <<home, out, pointer, blob, partial>> /\ spoiled \subseteq spoiled'
          /\ out[t] # << >> => Head(out[t]).to.etag \in spoiled'
      BY <2>4 DEF DropLoad, hubDisk
    <3>2. \/ attempts[home[t]] = t /\ AttemptEnds(t, "Failed")
          \/ MovesTo(t, "idle") /\ UNCHANGED <<target, body, attempts, flocks>>
      BY <2>4 DEF DropLoad
    <3> QED BY <3>1, <3>2, TaskEnds
  <2>5. ASSUME NEW t \in Loads, Head304(t) PROVE DownloadSafe'
    <3>1. /\ at[t] = "head" /\ at' = [at EXCEPT ![t] = "current"]
          /\ UNCHANGED <<home, target, body, out, attempts, pointer, blob, partial, flocks, spoiled>>
      BY <2>5 DEF Head304, MovesTo, hubDisk, counts
    <3>2. /\ attempts[home[t]] = t
          /\ target[t].etag \in Commits \ spoiled => blob[target[t].etag] # << >>
          /\ out[t] = << >>
      BY <3>1 DEF DownloadSafe, Downloading, Attempting, OnCourse, WritesOwned, Unspoiled
    <3>3. Downloading'
      BY <3>1, <3>2, TaskMoves
    <3> QED BY <3>1, <3>3, StaysThere DEF DownloadSafe
  <2>6. ASSUME NEW t \in Loads, ReadRef(t) \/ HeadOk(t) PROVE DownloadSafe'
    <3>1. /\ at[t] \in {"head", "current"} /\ spoiled \subseteq spoiled'
          /\ UNCHANGED <<home, body, out, attempts, pointer, blob, partial, flocks>>
      BY <2>6 DEF ReadRef, HeadOk, hubDisk, counts
    <3>2. PICK commit \in Versions, etag \in Versions, where \in {"ref", "lock"} :
            /\ at' = [at EXCEPT ![t] = where]
            /\ target' = [target EXCEPT ![t] = Target(commit, etag)]
            /\ commit = etag \/ commit \in spoiled'
            /\ where = "ref" => blob[etag] # << >> \/ (at[t] = "current" /\ etag = target[t].etag)
      <4>1. CASE HeadOk(t)
        BY <4>1, Known DEF HeadOk, Needs, Downloads, MovesTo, LocalModelType, DiskType
      <4>2. CASE ReadRef(t)
        BY <4>2, Known DEF ReadRef, Needs, Downloads, MovesTo, LocalModelType, DiskType, AimType
      <4> QED BY <2>6, <4>1, <4>2
    <3>3. /\ attempts[home[t]] = t
          /\ at[t] = "current" /\ target[t].etag \in Commits \ spoiled' => blob[target[t].etag] # << >>
          /\ out[t] = << >>
      BY <3>1 DEF DownloadSafe, Downloading, Attempting, OnCourse, WritesOwned, Unspoiled
    <3>4. /\ target'[t].etag = etag /\ target'[t].commit = commit
          /\ \A u \in Loads \ {t} : target'[u] = target[u]
      BY <3>2 DEF Target, LocalModelType, TaskType
    <3>5. where = "ref" /\ target'[t].etag \in Commits \ spoiled' => blob[target'[t].etag] # << >>
      BY <3>2, <3>3, <3>4
    <3>6. Downloading'
      BY <3>1, <3>2, <3>3, <3>4, <3>5, TaskMoves
    <3> QED BY <3>1, <3>6, StaysThere DEF DownloadSafe
  <2>7. ASSUME NEW t \in Loads, HeadOffline(t) PROVE DownloadSafe'
    <3>1. /\ at[t] = "head" /\ at' = [at EXCEPT ![t] = "build"]
          /\ \A u \in Loads \ {t} : target'[u] = target[u]
          /\ UNCHANGED <<home, body, out, attempts, pointer, blob, partial, flocks, spoiled>>
      BY <2>7 DEF HeadOffline, Downloads, MovesTo, hubDisk, counts, LocalModelType, TaskType
    <3>2. attempts[home[t]] = t /\ out[t] = << >>
      BY <3>1 DEF DownloadSafe, Downloading, Attempting, WritesOwned
    <3>3. Downloading'
      BY <3>1, <3>2, TaskMoves
    <3> QED BY <3>1, <3>3, StaysThere DEF DownloadSafe
  <2>8. ASSUME NEW t \in Loads, LockBlob(t) PROVE DownloadSafe'
    <3>1. /\ at[t] = "lock" /\ flocks[target[t].etag] = NoLoad
          /\ flocks' = [flocks EXCEPT ![target[t].etag] = t]
          /\ at' = [at EXCEPT ![t] = IF blob[target[t].etag] # << >> THEN "ref" ELSE "open"]
          /\ UNCHANGED <<home, target, body, out, attempts, pointer, blob, partial, spoiled>>
      BY <2>8 DEF LockBlob, MovesTo, hubDisk, counts
    <3>2. /\ attempts[home[t]] = t /\ target[t].etag \in Commits /\ out[t] = << >>
          /\ target[t].commit = target[t].etag \/ target[t].commit \in spoiled
      BY <3>1, Known DEF DownloadSafe, Downloading, Attempting, OnCourse, WritesOwned,
         LocalModelType, AimType
    <3>3. /\ flocks'[target[t].etag] = t
          /\ \A u \in Loads \ {t}, v \in Commits : flocks[v] = u => flocks'[v] = u
      BY <3>1, <3>2 DEF LocalModelType, DiskType, NoLoad
    <3>4. Downloading'
      BY <3>1, <3>2, <3>3, TaskMoves
    <3> QED BY <3>1, <3>4, StaysThere DEF DownloadSafe
  <2>9. ASSUME NEW t \in Loads, OpenDownload(t) PROVE DownloadSafe'
    <3> DEFINE etag == target[t].etag
    <3>1. /\ at[t] = "open" /\ at' = [at EXCEPT ![t] = "fetch"]
          /\ UNCHANGED <<home, out, attempts, pointer, blob, flocks>>
          /\ spoiled' = spoiled \cup ({etag} \ {main})
      BY <2>9 DEF OpenDownload, MovesTo
    <3>2. /\ target[t] \in Aims /\ etag \in Commits
          /\ \A u \in Loads \ {t} : at[u] = "fetch" => target[u].etag # etag
          /\ out[t] = << >>
      <4>1. target[t] \in Aims /\ etag \in Commits
        BY <3>1, Known DEF LocalModelType, AimType
      <4>2. \A u \in Loads \ {t} : at[u] = "fetch" => target[u].etag # etag
        BY <3>1 DEF DownloadSafe, Downloading, Locked
      <4> QED BY <3>1, <4>1, <4>2 DEF DownloadSafe, Downloading, WritesOwned
    <3>3. /\ target'[t].etag = etag /\ target'[t].commit = target[t].commit
          /\ \A u \in Loads \ {t} : target'[u] = target[u] /\ body'[u] = body[u]
          /\ \A v \in Commits \ {etag} : partial'[v] = partial[v]
          /\ \/ /\ Len(partial[etag]) < FileSize /\ partial' = partial
                /\ body'[t] = SubSeq(Contents(main), Len(partial[etag]) + 1, FileSize)
             \/ body'[t] = Contents(main) /\ partial'[etag] = << >>
      <4>1. /\ [target[t] EXCEPT !.resumed = TRUE].etag = target[t].etag
            /\ [target[t] EXCEPT !.resumed = TRUE].commit = target[t].commit
        BY <3>2 DEF Aims
      <4> QED BY <2>9, <3>2, <4>1 DEF OpenDownload, LocalModelType, TaskType, DiskType
    <3>4. /\ at'[t] = "fetch" /\ \A u \in Loads \ {t} : at'[u] = at[u]
          /\ \A v \in Commits : v \notin spoiled' => v \notin spoiled
          /\ etag \notin spoiled' => etag = main
      BY <3>1, <3>2 DEF LocalModelType, TaskType
    <3> HIDE DEF etag
    <3>5. etag \notin spoiled' =>
            /\ Beginning(partial'[etag], etag)
            /\ Continues(etag, partial'[etag], << >>, body'[t], target'[t])
      <4>1. etag \notin spoiled' => Beginning(partial[etag], etag) /\ partial[etag] \in Files
        BY <3>2, <3>4 DEF DownloadSafe, Downloading, PartsWhole, Unspoiled, LocalModelType, DiskType
      <4>2. CASE /\ Len(partial[etag]) < FileSize /\ partial' = partial
                 /\ body'[t] = SubSeq(Contents(main), Len(partial[etag]) + 1, FileSize)
        BY <3>2, <3>4, <4>1, <4>2, Resumes
      <4>3. CASE body'[t] = Contents(main) /\ partial'[etag] = << >>
        BY <3>2, <3>4, <4>3, Starts
      <4> QED BY <3>3, <4>2, <4>3
    <3>6. Attempting' /\ Locked' /\ OnCourse'
      BY <3>1, <3>2, <3>3, <3>4 DEF DownloadSafe, Downloading, Attempting, Locked, OnCourse,
         Unspoiled, etag
    <3>7. PartsWhole' /\ WritesOwned'
      BY <3>1, <3>2, <3>3, <3>4, <3>5 DEF DownloadSafe, Downloading, PartsWhole, WritesOwned, Unspoiled
    <3>8. InProgress'
      BY <3>1, <3>2, <3>3, <3>4, <3>5 DEF DownloadSafe, Downloading, InProgress, Unspoiled
    <3> QED BY <3>1, <3>6, <3>7, <3>8, StaysThere DEF DownloadSafe, Downloading
  <2>10. ASSUME NEW t \in Loads, ReadChunk(t) PROVE DownloadSafe'
    <3> DEFINE writes == <<[block |-> Head(body[t]), to |-> target[t], renamed |-> FALSE]>>
               etag   == target[t].etag
    <3>1. /\ at[t] = "fetch" /\ body[t] # << >> /\ out[t] = << >>
          /\ out' = [out EXCEPT ![t] = writes]
          /\ body' = [body EXCEPT ![t] = Tail(body[t])]
          /\ UNCHANGED <<home, at, target, attempts, pointer, blob, partial, flocks, spoiled>>
      BY <2>10 DEF ReadChunk, hubDisk, counts
    <3>2. etag \in Commits /\ partial[etag] \in Files /\ body[t] \in Files
      BY <3>1, Known DEF LocalModelType, DiskType, TaskType, AimType
    <3>3. etag \in Unspoiled => Continues(etag, partial[etag], writes, Tail(body[t]), target[t])
      <4>1. etag \in Unspoiled => Continues(etag, partial[etag], << >>, body[t], target[t])
        BY <3>1 DEF DownloadSafe, Downloading, InProgress
      <4> QED BY <3>1, <3>2, <4>1, ReadsOn, Zenon
    <3>4. Head(writes).to = target[t] /\ ~Head(writes).renamed
      OBVIOUS
    <3> HIDE DEF writes
    <3>5. WritesOwned'
      BY <3>1, <3>4 DEF DownloadSafe, Downloading, WritesOwned, Unspoiled, LocalModelType, TaskType
    <3>6. InProgress'
      BY <3>1, <3>3 DEF DownloadSafe, Downloading, InProgress, Unspoiled, LocalModelType, TaskType
    <3>7. Attempting' /\ Locked' /\ OnCourse' /\ PartsWhole'
      BY <3>1 DEF DownloadSafe, Downloading, Attempting, Locked, OnCourse, PartsWhole, Unspoiled
    <3> QED BY <3>1, <3>5, <3>6, <3>7, StaysThere DEF DownloadSafe, Downloading
  <2>11. ASSUME NEW t \in Loads, BlockLands(t) PROVE DownloadSafe'
    <3> DEFINE w    == Head(out[t])
               etag == w.to.etag
    <3>1. /\ out[t] # << >> /\ out' = [out EXCEPT ![t] = << >>]
          /\ \/ /\ w.renamed /\ blob' = [blob EXCEPT ![etag] = Written(blob[etag], w)]
                /\ UNCHANGED partial
             \/ /\ ~w.renamed /\ partial' = [partial EXCEPT ![etag] = Written(partial[etag], w)]
                /\ UNCHANGED blob
          /\ UNCHANGED <<home, at, target, body, attempts, pointer, flocks, spoiled>>
      BY <2>11 DEF BlockLands, counts
    <3>2. etag \in Commits
      <4>1. w \in WriteRecords
        BY <3>1, Heads DEF LocalModelType, TaskType, Writes
      <4> QED BY <4>1, Known DEF WriteRecords
    <3>3. /\ at[t] = "fetch" => w.to = target[t]
          /\ etag \in Unspoiled => at[t] = "fetch" /\ ~w.renamed
      BY <3>1 DEF DownloadSafe, Downloading, WritesOwned
    <3>4. etag \in Unspoiled =>
            /\ Beginning(partial'[etag], etag)
            /\ Continues(etag, partial'[etag], << >>, body[t], target[t])
      <4> SUFFICES ASSUME etag \in Unspoiled
                   PROVE  /\ Beginning(partial'[etag], etag)
                          /\ Continues(etag, partial'[etag], << >>, body[t], target[t])
        OBVIOUS
      <4>1. /\ at[t] = "fetch" /\ etag = target[t].etag
            /\ partial[etag] \in Files /\ body[t] \in Files /\ out[t] \in Writes
            /\ partial'[etag] = Written(partial[etag], w)
        BY <3>1, <3>2, <3>3 DEF LocalModelType, TaskType, DiskType
      <4>2. /\ Beginning(partial[etag], etag)
            /\ Continues(etag, partial[etag], out[t], body[t], target[t])
        BY <4>1 DEF DownloadSafe, Downloading, PartsWhole, InProgress
      <4> HIDE DEF etag
      <4>3. /\ Beginning(Written(partial[etag], w), etag)
            /\ Continues(etag, Written(partial[etag], w), << >>, body[t], target[t])
        BY <3>1, <3>2, <4>1, <4>2, FileLands, Zenon
      <4> QED BY <4>1, <4>3
    <3> HIDE DEF w, etag
    <3>5. /\ out'[t] = << >> /\ \A u \in Loads \ {t} : out'[u] = out[u]
          /\ \A v \in Commits \ {etag} : partial'[v] = partial[v] /\ blob'[v] = blob[v]
          /\ etag \in Unspoiled => blob' = blob
      BY <3>1, <3>3 DEF LocalModelType, TaskType, DiskType
    <3>6. \A v \in Commits : v \in Unspoiled => blob'[v] = blob[v]
      BY <3>5 DEF Unspoiled
    <3>7. Attempting' /\ Locked' /\ OnCourse' /\ PointersLead' /\ BlobsWhole'
      BY <3>1, <3>6 DEF DownloadSafe, Downloading, Attempting, Locked, OnCourse, PointersLead,
         BlobsWhole, Unspoiled
    <3>8. PartsWhole' /\ WritesOwned'
      BY <3>1, <3>4, <3>5 DEF DownloadSafe, Downloading, PartsWhole, WritesOwned, Unspoiled
    <3>9. InProgress'
      <4>1. ASSUME NEW u \in Loads, at[u] = "fetch", target[u].etag \in Unspoiled
            PROVE  Continues(target[u].etag, partial'[target[u].etag], out'[u], body[u], target[u])
        <5>1. Continues(target[u].etag, partial[target[u].etag], out[u], body[u], target[u])
          BY <4>1 DEF DownloadSafe, Downloading, InProgress
        <5>2. CASE u = t
          <6>1. target[u].etag = etag
            BY <4>1, <5>2, <3>3 DEF etag
          <6> QED BY <3>4, <3>5, <4>1, <5>2, <6>1
        <5>3. CASE u # t /\ target[u].etag # etag
          BY <3>5, <4>1, <5>1, <5>3 DEF Unspoiled
        <5>4. CASE u # t /\ target[u].etag = etag
          <6>1. at[t] = "fetch" /\ target[t].etag = etag
            BY <3>3, <4>1, <5>4 DEF etag
          <6> QED BY <4>1, <5>4, <6>1 DEF DownloadSafe, Downloading, Locked
        <5> QED BY <5>2, <5>3, <5>4
      <4> QED BY <3>1, <4>1 DEF InProgress, Unspoiled
    <3> QED BY <3>7, <3>8, <3>9 DEF DownloadSafe, Downloading
  <2>12. ASSUME NEW t \in Loads, FetchDone(t) PROVE DownloadSafe'
    <3> DEFINE etag == target[t].etag
    <3>1. /\ at[t] = "fetch" /\ body[t] = << >> /\ out[t] = << >>
          /\ blob' = [blob EXCEPT ![etag] = partial[etag]]
          /\ partial' = [partial EXCEPT ![etag] = << >>]
          /\ out' = [u \in Loads |-> Renamed(out[u], etag)]
          /\ at' = [at EXCEPT ![t] = "ref"]
          /\ UNCHANGED <<home, target, body, attempts, pointer, flocks, spoiled>>
      BY <2>12 DEF FetchDone, MovesTo, counts
    <3>2. etag \in Commits /\ partial[etag] \in Files
      BY <3>1, Known DEF LocalModelType, AimType, DiskType
    <3>3. etag \in Unspoiled => partial[etag] = Contents(etag) /\ Contents(etag) # << >>
      <4>1. etag \in Unspoiled => /\ Beginning(partial[etag], etag)
                                  /\ Continues(etag, partial[etag], << >>, << >>, target[t])
        BY <3>1 DEF DownloadSafe, Downloading, PartsWhole, InProgress
      <4> QED BY <3>2, <4>1, Completes, Whole, Zenon
    <3>4. \A u \in Loads \ {t} : at[u] = "fetch" => target[u].etag # etag
      BY <3>1 DEF DownloadSafe, Downloading, Locked
    <3> HIDE DEF etag
    <3>5. /\ at'[t] = "ref" /\ \A u \in Loads \ {t} : at'[u] = at[u]
          /\ \A v \in Commits \ {etag} : blob'[v] = blob[v] /\ partial'[v] = partial[v]
          /\ blob'[etag] = partial[etag] /\ partial'[etag] = << >>
      BY <3>1, <3>2 DEF LocalModelType, TaskType, DiskType
    <3>6. \A v \in Unspoiled : blob'[v] = blob[v] \/ (v = etag /\ blob'[v] = Contents(v) /\ blob'[v] # << >>)
      BY <3>3, <3>5 DEF Unspoiled
    <3>7. Attempting' /\ Locked'
      BY <3>1, <3>5 DEF DownloadSafe, Downloading, Attempting, Locked
    <3>8. OnCourse'
      BY <3>1, <3>3, <3>5, <3>6 DEF DownloadSafe, Downloading, OnCourse, Unspoiled, etag
    <3>9. PointersLead' /\ BlobsWhole'
      BY <3>1, <3>6 DEF DownloadSafe, PointersLead, BlobsWhole, Unspoiled
    <3>10. PartsWhole'
      BY <3>1, <3>5, Starts DEF DownloadSafe, Downloading, PartsWhole, Unspoiled
    <3>11. \A u \in Loads :
             /\ out'[u] = << >> <=> out[u] = << >>
             /\ out[u] # << >> =>
                  /\ Head(out'[u]).block = Head(out[u]).block /\ Head(out'[u]).to = Head(out[u]).to
                  /\ Head(out[u]).to.etag # etag => Head(out'[u]).renamed = Head(out[u]).renamed
      BY <3>1, Renames DEF LocalModelType, TaskType
    <3>12. WritesOwned'
      BY <3>1, <3>4, <3>5, <3>11 DEF DownloadSafe, Downloading, WritesOwned, Unspoiled
    <3>13. InProgress'
      <4>1. ASSUME NEW u \in Loads \ {t}, at[u] = "fetch", target[u].etag \in Unspoiled
            PROVE  Continues(target[u].etag, partial'[target[u].etag], out'[u], body[u], target[u])
        <5>1. partial'[target[u].etag] = partial[target[u].etag]
          BY <3>4, <3>5, <4>1 DEF Unspoiled
        <5>2. Continues(target[u].etag, partial[target[u].etag], out[u], body[u], target[u])
          BY <4>1 DEF DownloadSafe, Downloading, InProgress
        <5>3. Len(out'[u]) = Len(out[u])
          BY <3>1, <4>1, Renames DEF LocalModelType, TaskType
        <5>4. /\ out'[u] # << >> => out[u] # << >> /\ out'[u][1].block = out[u][1].block
                                    /\ out'[u][1].to = out[u][1].to
          BY <3>1, <3>11, Renames DEF LocalModelType, TaskType, Writes
        <5> QED BY <5>1, <5>2, <5>3, <5>4 DEF Continues
      <4> QED BY <3>1, <3>5, <4>1 DEF InProgress, Unspoiled
    <3> QED BY <3>7, <3>8, <3>9, <3>10, <3>12, <3>13 DEF DownloadSafe, Downloading
  <2>13. ASSUME NEW t \in Loads, FinalizeRef(t) PROVE DownloadSafe'
    <3>1. /\ at[t] = "ref" /\ at' = [at EXCEPT ![t] = "link"]
          /\ UNCHANGED <<home, target, body, out, attempts, pointer, blob, partial, flocks, spoiled>>
      BY <2>13 DEF FinalizeRef, MovesTo, counts
    <3>2. /\ attempts[home[t]] = t /\ out[t] = << >>
          /\ target[t].commit = target[t].etag \/ target[t].commit \in spoiled
          /\ target[t].etag \in Commits \ spoiled => blob[target[t].etag] # << >>
      BY <3>1 DEF DownloadSafe, Downloading, Attempting, OnCourse, WritesOwned, Unspoiled
    <3>3. Downloading'
      BY <3>1, <3>2, TaskMoves
    <3> QED BY <3>1, <3>3, StaysThere DEF DownloadSafe
  <2>14. ASSUME NEW t \in Loads, FinalizeLink(t) PROVE DownloadSafe'
    <3>1. /\ at[t] = "link" /\ at' = [at EXCEPT ![t] = "build"] /\ flocks' = Released(t)
          /\ pointer' = [pointer EXCEPT ![target[t].commit] =
                           IF pointer[target[t].commit] # 0 THEN pointer[target[t].commit]
                           ELSE target[t].etag]
          /\ UNCHANGED <<home, target, body, out, attempts, blob, partial, spoiled>>
      BY <2>14 DEF FinalizeLink, MovesTo, counts
    <3>2. /\ attempts[home[t]] = t /\ out[t] = << >>
          /\ target[t].commit = target[t].etag \/ target[t].commit \in spoiled
          /\ target[t].etag \in Unspoiled => blob[target[t].etag] # << >>
      BY <3>1 DEF DownloadSafe, Downloading, Attempting, OnCourse, WritesOwned
    <3>3. \A u \in Loads \ {t}, v \in Commits : flocks[v] = u => flocks'[v] = u
      BY <3>1 DEF Released
    <3>4. Downloading'
      BY <3>1, <3>2, <3>3, TaskMoves
    <3>5. target[t].commit \in Commits /\ target[t].etag \in Commits
      BY <3>1, Known DEF LocalModelType, AimType
    <3>6. \A v \in Commits : pointer'[v] = pointer[v]
                            \/ (v = target[t].commit /\ pointer'[v] = target[t].etag)
      BY <3>1, <3>5 DEF LocalModelType, DiskType
    <3>7. PointersLead' /\ BlobsWhole'
      BY <3>1, <3>2, <3>6 DEF DownloadSafe, PointersLead, BlobsWhole, Unspoiled
    <3> QED BY <3>4, <3>7 DEF DownloadSafe
  <2>15. ASSUME NEW p \in Processes, Unload(p) PROVE DownloadSafe'
    BY <2>15 DEF DownloadSafe, Downloading, Unload, taskVars, hubDisk, counts, Attempting, Locked,
       OnCourse, PointersLead, PartsWhole, WritesOwned, InProgress, BlobsWhole, Unspoiled
  <2>16. ASSUME NEW p \in Processes, ProcessDies(p) PROVE DownloadSafe'
    <3> DEFINE its == {t \in Loads : home[t] = p}
    <3>1. /\ at' = [t \in Loads |-> IF t \in its THEN "idle" ELSE at[t]]
          /\ target' = [t \in Loads |-> IF t \in its THEN NoTarget ELSE target[t]]
          /\ body' = [t \in Loads |-> IF t \in its THEN << >> ELSE body[t]]
          /\ out' = [t \in Loads |-> IF t \in its THEN << >> ELSE out[t]]
          /\ attempts' = [attempts EXCEPT ![p] = NoLoad]
          /\ flocks' = [v \in Commits |-> IF flocks[v] \in its THEN NoLoad ELSE flocks[v]]
          /\ UNCHANGED <<home, pointer, blob, partial, spoiled>>
      BY <2>16 DEF ProcessDies
    <3>2. /\ \A t \in its : at'[t] = "idle" /\ out'[t] = << >>
          /\ \A t \in Loads \ its : /\ home[t] # p /\ at'[t] = at[t] /\ target'[t] = target[t]
                                    /\ body'[t] = body[t] /\ out'[t] = out[t]
          /\ \A v \in Commits, t \in Loads \ its : flocks[v] = t => flocks'[v] = t
      BY <3>1
    <3>3. \A t \in Loads : at[t] \in {"open", "fetch"} => target[t].etag \in Commits
      BY Known DEF LocalModelType, AimType
    <3> HIDE DEF its
    <3>4. Attempting'
      BY <3>1, <3>2 DEF DownloadSafe, Downloading, Attempting, LocalModelType, TaskType, LoaderType
    <3>5. Locked'
      BY <3>1, <3>2, <3>3 DEF DownloadSafe, Downloading, Locked
    <3>6. OnCourse' /\ PartsWhole' /\ WritesOwned'
      BY <3>1, <3>2 DEF DownloadSafe, Downloading, OnCourse, PartsWhole, WritesOwned, Unspoiled
    <3>7. InProgress'
      BY <3>1, <3>2 DEF DownloadSafe, Downloading, InProgress, Unspoiled
    <3> QED BY <3>1, <3>4, <3>5, <3>6, <3>7, StaysThere DEF DownloadSafe, Downloading
  <2>17. CASE Push \/ UNCHANGED modelVars
    BY <2>17 DEF Push, modelVars, taskVars, hubDisk, counts, DownloadSafe, Downloading, Attempting,
       Locked, OnCourse, PointersLead, PartsWhole, WritesOwned, InProgress, BlobsWhole, Unspoiled
  <2> QED BY <2>1, <2>2, <2>3, <2>4, <2>5, <2>6, <2>7, <2>8, <2>9, <2>10, <2>11, <2>12, <2>13,
     <2>14, <2>15, <2>16, <2>17 DEF LocalModelNext, LoadStep
<1>3. DownloadSafe => BlobsWhole
  BY DEF DownloadSafe
<1> QED BY <1>1, <1>2, <1>3, LocalModelTypeCorrect, PTL DEF LocalModelSpec

-----------------------------------------------------------------------------
(* The checkpoint policies and the saves they spawn (Policies).            *)

(* The types of what the checkpoint policies and their saves use. *)
CheckpointType(results) == [turn_count : Nat, cost : Nat, results : results]
SaveType(results) == [id : Nat, after : Nat, checkpoint : CheckpointType(results), done : BOOLEAN]

UsageType ==
  [turn_index : Nat, cost : Nat, input : Nat, output : Nat, said : SUBSET {"jailbreak"}, runs : Nat, turns : Nat]

(* The saves under the rolling id wait for one another, and what the store *)
(* holds under it is the newest one that was written.                      *)
Rolls(tasks) == {n \in DOMAIN tasks : tasks[n].id = Rolling}

Chained(tasks) ==
  /\ \E last \in {0} \cup Rolls(tasks) : \A n \in Rolls(tasks) : n <= last
  /\ \A n \in Rolls(tasks) :
       /\ tasks[n].after \in {0} \cup Rolls(tasks)
       /\ \A k \in Rolls(tasks) : k < n => k <= tasks[n].after
       /\ tasks[n].done => \A k \in Rolls(tasks) : k < n => tasks[k].done

SavesInOrder ==
  /\ usage \in UsageType
  /\ \E results : saveTasks \in Seq(SaveType(results))
  /\ Chained(saveTasks)
  /\ kept \in [0..MaxPolicyTurns -> Nat]
  /\ kept[Rolling] \in {0} \cup {n \in Rolls(saveTasks) : saveTasks[n].done}

(* A save added at the end of the list keeps the chain, if it waits for    *)
(* the last rolling save or is not one (RollingCheckpointPolicy::evaluate).*)
LEMMA ChainGrows ==
  ASSUME NEW results, NEW tasks \in Seq(SaveType(results)), Chained(tasks),
         NEW task \in SaveType(results), ~task.done,
         task.id = Rolling => /\ task.after \in {0} \cup Rolls(tasks)
                              /\ \A k \in Rolls(tasks) : k <= task.after
  PROVE  /\ Append(tasks, task) \in Seq(SaveType(results))
         /\ Chained(Append(tasks, task))
         /\ \A n \in Rolls(tasks) : /\ n \in Rolls(Append(tasks, task))
                                    /\ Append(tasks, task)[n] = tasks[n]
<1> DEFINE more == Append(tasks, task)
<1>1. /\ more \in Seq(SaveType(results)) /\ Len(tasks) \in Nat
      /\ DOMAIN tasks = 1..Len(tasks) /\ DOMAIN more = 1..Len(tasks) + 1
      /\ \A n \in 1..Len(tasks) : more[n] = tasks[n]
      /\ more[Len(tasks) + 1] = task
  OBVIOUS
<1> HIDE DEF more
<1>2. \A n \in Rolls(tasks) : n \in Rolls(more) /\ more[n] = tasks[n] /\ n \in 1..Len(tasks)
  BY <1>1 DEF Rolls
<1>3. \A n \in Rolls(more) : n \in Rolls(tasks) \/ (n = Len(tasks) + 1 /\ task.id = Rolling)
  BY <1>1 DEF Rolls
<1>4. task.id = Rolling => Len(tasks) + 1 \in Rolls(more)
  BY <1>1 DEF Rolls
<1>5. \E last \in {0} \cup Rolls(more) : \A n \in Rolls(more) : n <= last
  <2>1. CASE task.id = Rolling
    BY <2>1, <1>1, <1>2, <1>3, <1>4
  <2>2. CASE task.id # Rolling
    BY <2>2, <1>1, <1>2, <1>3 DEF Chained
  <2> QED BY <2>1, <2>2
<1>6. ASSUME NEW n \in Rolls(more)
      PROVE  /\ more[n].after \in {0} \cup Rolls(more)
             /\ \A k \in Rolls(more) : k < n => k <= more[n].after
             /\ more[n].done => \A k \in Rolls(more) : k < n => more[k].done
  <2>1. CASE n \in Rolls(tasks)
    BY <2>1, <1>1, <1>2, <1>3 DEF Chained
  <2>2. CASE n = Len(tasks) + 1 /\ task.id = Rolling
    <3>1. more[n] = task
      BY <2>2, <1>1
    <3>2. more[n].after \in {0} \cup Rolls(more)
      BY <2>2, <3>1, <1>2
    <3>3. \A k \in Rolls(more) : k < n => k <= more[n].after
      BY <2>2, <3>1, <1>1, <1>2, <1>3
    <3> QED BY <3>1, <3>2, <3>3
  <2> QED BY <1>3, <2>1, <2>2
<1>7. Chained(more)
  BY <1>5, <1>6 DEF Chained
<1> QED BY <1>1, <1>2, <1>7 DEF more

(* A save that ends had only ended ones before it.                         *)
LEMMA SaveKeepsChain ==
  ASSUME NEW results, saveTasks \in Seq(SaveType(results)), SavesInOrder,
         NEW n \in DOMAIN saveTasks, NEW ok \in BOOLEAN, Save(n, ok)
  PROVE  /\ saveTasks' \in Seq(SaveType(results))
         /\ Chained(saveTasks')
         /\ kept' \in [0..MaxPolicyTurns -> Nat]
         /\ kept'[Rolling] \in {0} \cup {k \in Rolls(saveTasks') : saveTasks'[k].done}
         /\ kept'[Rolling] >= kept[Rolling]
<1>1. /\ n \in Nat /\ saveTasks[n] \in SaveType(results)
      /\ \A k \in Rolls(saveTasks) : k \in Nat /\ k > 0 /\ saveTasks[k] \in SaveType(results)
  BY DEF Rolls
<1>2. /\ saveTasks' \in Seq(SaveType(results))
      /\ DOMAIN saveTasks' = DOMAIN saveTasks
      /\ saveTasks'[n] = [saveTasks[n] EXCEPT !.done = TRUE]
      /\ \A k \in DOMAIN saveTasks \ {n} : saveTasks'[k] = saveTasks[k]
  <2> DEFINE task == [saveTasks[n] EXCEPT !.done = TRUE]
  <2>1. task \in SaveType(results)
    BY <1>1 DEF SaveType
  <2>2. saveTasks' = [saveTasks EXCEPT ![n] = task]
    BY DEF Save
  <2> HIDE DEF task
  <2>3. /\ saveTasks' \in Seq(SaveType(results))
        /\ DOMAIN saveTasks' = DOMAIN saveTasks
        /\ saveTasks'[n] = task
        /\ \A k \in DOMAIN saveTasks \ {n} : saveTasks'[k] = saveTasks[k]
    BY <2>1, <2>2
  <2> QED BY <2>3 DEF task
<1>3. /\ saveTasks'[n].done /\ saveTasks'[n].id = saveTasks[n].id
      /\ saveTasks'[n].after = saveTasks[n].after
  BY <1>1, <1>2 DEF SaveType
<1>4. Rolls(saveTasks') = Rolls(saveTasks)
  BY <1>2, <1>3, ZenonT(40) DEF Rolls
<1>5. n \in Rolls(saveTasks) => \A k \in Rolls(saveTasks) : k < n => saveTasks[k].done
  <2> SUFFICES ASSUME n \in Rolls(saveTasks), NEW k \in Rolls(saveTasks), k < n
               PROVE  saveTasks[k].done
    OBVIOUS
  <2> DEFINE a == saveTasks[n].after
  <2>1. a \in {0} \cup Rolls(saveTasks) /\ k <= a
    BY DEF SavesInOrder, Chained
  <2>2. a \in Rolls(saveTasks) /\ saveTasks[a].done
    BY <2>1, <1>1 DEF Save
  <2> QED BY <2>1, <2>2, <1>1 DEF SavesInOrder, Chained
<1>6. \A k \in Rolls(saveTasks) : saveTasks[k].done => saveTasks'[k].done
  BY <1>2, <1>3 DEF Rolls
<1>7. Chained(saveTasks')
  <2>1. ASSUME NEW k \in Rolls(saveTasks), saveTasks'[k].done, NEW j \in Rolls(saveTasks), j < k
        PROVE  saveTasks'[j].done
    <3>1. CASE k = n
      BY <2>1, <3>1, <1>5, <1>6
    <3>2. CASE k # n
      <4>1. saveTasks[k].done
        BY <2>1, <3>2, <1>2 DEF Rolls
      <4> QED BY <4>1, <2>1, <1>6 DEF SavesInOrder, Chained
    <3> QED BY <3>1, <3>2
  <2>2. \A k \in Rolls(saveTasks) : saveTasks'[k].after = saveTasks[k].after
    BY <1>2, <1>3 DEF Rolls
  <2> QED BY <2>1, <2>2, <1>4 DEF SavesInOrder, Chained
<1>8. /\ kept' \in [0..MaxPolicyTurns -> Nat]
      /\ kept'[Rolling] = IF ok /\ n \in Rolls(saveTasks) THEN n ELSE kept[Rolling]
  <2>1. kept \in [0..MaxPolicyTurns -> Nat] /\ 0 \in 0..MaxPolicyTurns
    BY PolicyAssumption DEF SavesInOrder
  <2>2. n \in Rolls(saveTasks) <=> saveTasks[n].id = 0
    BY DEF Rolls, Rolling
  <2>3. CASE ok
    <3>1. kept' = [kept EXCEPT ![saveTasks[n].id] = n]
      BY <2>3 DEF Save
    <3>2. saveTasks[n].id \in Nat
      BY <1>1 DEF SaveType
    <3> QED BY <3>1, <3>2, <2>1, <2>2, <2>3, <1>1 DEF Rolling
  <2>4. CASE ~ok
    BY <2>1, <2>4 DEF Save
  <2> QED BY <2>3, <2>4
<1>9. kept'[Rolling] \in {0} \cup {k \in Rolls(saveTasks') : saveTasks'[k].done}
  BY <1>3, <1>4, <1>6, <1>8 DEF SavesInOrder
<1>10. kept'[Rolling] >= kept[Rolling]
  <2>1. CASE ok /\ n \in Rolls(saveTasks) /\ kept[Rolling] # 0
    <3>1. kept[Rolling] \in Rolls(saveTasks) /\ saveTasks[kept[Rolling]].done
      BY <2>1 DEF SavesInOrder
    <3>2. ~saveTasks[n].done
      BY DEF Save
    <3>3. ~(n < kept[Rolling])
      BY <2>1, <3>1, <3>2 DEF SavesInOrder, Chained
    <3> QED BY <2>1, <3>1, <3>3, <1>1, <1>8
  <2>2. CASE ~(ok /\ n \in Rolls(saveTasks)) \/ kept[Rolling] = 0
    BY <2>2, <1>1, <1>8, PolicyAssumption DEF SavesInOrder, Rolling
  <2> QED BY <2>1, <2>2
<1> QED BY <1>2, <1>7, <1>8, <1>9, <1>10

(* What a policy leaves running waits for the last rolling save            *)
(* (RollingCheckpointPolicy, CheckpointPolicy).                            *)
LEMMA SpawnedInOrder ==
  ASSUME SavesInOrder, NEW asked
  PROVE  /\ \E results : saveTasks \o Spawned(asked) \in Seq(SaveType(results))
         /\ Chained(saveTasks \o Spawned(asked))
         /\ \A n \in Rolls(saveTasks) :
              /\ n \in Rolls(saveTasks \o Spawned(asked))
              /\ (saveTasks \o Spawned(asked))[n] = saveTasks[n]
<1>1. PICK before : saveTasks \in Seq(SaveType(before))
  BY DEF SavesInOrder
<1> DEFINE results == before \cup {Len(message.results)}
           last == Max({0} \cup {n \in DOMAIN saveTasks : saveTasks[n].id = Rolling})
           task(id, after) == [id |-> id, after |-> after, checkpoint |-> build_checkpoint, done |-> FALSE]
           rolled == Append(saveTasks, task(Rolling, last))
<1>2. saveTasks \in Seq(SaveType(results))
  <2>1. \A c \in CheckpointType(before) : c \in CheckpointType(results)
    BY DEF CheckpointType
  <2>2. \A s \in SaveType(before) : s \in SaveType(results)
    BY <2>1 DEF SaveType
  <2>3. \A S, T : (\A s \in S : s \in T) => \A tasks \in Seq(S) : tasks \in Seq(T)
    OBVIOUS
  <2> HIDE DEF results
  <2> QED BY <1>1, <2>2, <2>3
<1>3. \A id \in Nat, after \in Nat : /\ task(id, after) \in SaveType(results)
                                     /\ task(id, after).id = id
                                     /\ task(id, after).after = after
                                     /\ ~task(id, after).done
  BY DEF SaveType, CheckpointType, build_checkpoint, SavesInOrder, UsageType
<1>4. /\ last \in {0} \cup Rolls(saveTasks)
      /\ \A n \in Rolls(saveTasks) : n <= last
      /\ last \in Nat
  <2>1. \A n \in Rolls(saveTasks) : n \in Nat
    BY <1>1 DEF Rolls
  <2>2. last = Max({0} \cup Rolls(saveTasks))
    BY DEF Rolls
  <2>3. PICK m \in {0} \cup Rolls(saveTasks) : \A n \in Rolls(saveTasks) : n <= m
    BY DEF SavesInOrder, Chained
  <2>4. \A n \in {0} \cup Rolls(saveTasks) : m >= n
    BY <2>1, <2>3
  <2>5. last \in {0} \cup Rolls(saveTasks) /\ \A n \in {0} \cup Rolls(saveTasks) : last >= n
    BY <2>2, <2>4 DEF Max
  <2> QED BY <2>1, <2>5
<1>5. checkpoint_id \in Nat /\ checkpoint_id # Rolling /\ Rolling \in Nat
  BY DEF checkpoint_id, Rolling, SavesInOrder, UsageType
<1>6. /\ rolling_checkpoint = <<task(Rolling, last)>>
      /\ checkpoint = <<task(checkpoint_id, 0)>>
  BY DEF rolling_checkpoint, checkpoint, SaveTask
<1> HIDE DEF results, last, task
<1>7. /\ rolled \in Seq(SaveType(results)) /\ Chained(rolled)
      /\ \A n \in Rolls(saveTasks) : n \in Rolls(rolled) /\ rolled[n] = saveTasks[n]
  <2> DEFINE r == task(Rolling, last)
  <2>1. r \in SaveType(results) /\ ~r.done /\ r.after = last
    BY <1>3, <1>4, <1>5
  <2>2. Chained(saveTasks)
    BY DEF SavesInOrder
  <2> HIDE DEF r
  <2>3. /\ Append(saveTasks, r) \in Seq(SaveType(results))
        /\ Chained(Append(saveTasks, r))
        /\ \A n \in Rolls(saveTasks) : /\ n \in Rolls(Append(saveTasks, r))
                                       /\ Append(saveTasks, r)[n] = saveTasks[n]
    BY <1>2, <1>4, <2>1, <2>2, ChainGrows
  <2> QED BY <2>3 DEF r
<1> HIDE DEF rolled
<1>8. ASSUME NEW tasks \in Seq(SaveType(results)), Chained(tasks)
      PROVE  /\ Append(tasks, task(checkpoint_id, 0)) \in Seq(SaveType(results))
             /\ Chained(Append(tasks, task(checkpoint_id, 0)))
             /\ \A n \in Rolls(tasks) : /\ n \in Rolls(Append(tasks, task(checkpoint_id, 0)))
                                        /\ Append(tasks, task(checkpoint_id, 0))[n] = tasks[n]
  <2> DEFINE c == task(checkpoint_id, 0)
  <2>1. c \in SaveType(results) /\ ~c.done /\ c.id # Rolling
    BY <1>3, <1>5
  <2> HIDE DEF c
  <2>2. /\ Append(tasks, c) \in Seq(SaveType(results))
        /\ Chained(Append(tasks, c))
        /\ \A n \in Rolls(tasks) : n \in Rolls(Append(tasks, c)) /\ Append(tasks, c)[n] = tasks[n]
    BY <1>8, <2>1, ChainGrows
  <2> QED BY <2>2 DEF c
<1>9. \/ saveTasks \o Spawned(asked) = saveTasks
      \/ saveTasks \o Spawned(asked) = rolled
      \/ \E tasks \in {saveTasks, rolled} : saveTasks \o Spawned(asked) = Append(tasks, task(checkpoint_id, 0))
  <2> DEFINE r == task(Rolling, last)
             c == task(checkpoint_id, 0)
  <2>1. r \in SaveType(results) /\ c \in SaveType(results)
    BY <1>3, <1>4, <1>5
  <2>2. Spawned(asked) \in {<<>> \o <<>>, <<r>> \o <<>>, <<>> \o <<c>>, <<r>> \o <<c>>}
    BY <1>6 DEF Spawned
  <2>3. rolled = Append(saveTasks, r)
    BY DEF rolled
  <2> HIDE DEF r, c
  <2>4. /\ saveTasks \o (<<>> \o <<>>) = saveTasks
        /\ saveTasks \o (<<r>> \o <<>>) = Append(saveTasks, r)
        /\ saveTasks \o (<<>> \o <<c>>) = Append(saveTasks, c)
    BY <2>1, <1>2
  <2>5. saveTasks \o (<<r>> \o <<c>>) = Append(Append(saveTasks, r), c)
    BY <2>1, <1>2
  <2>6. c = task(checkpoint_id, 0)
    BY DEF c
  <2> QED BY <2>2, <2>3, <2>4, <2>5, <2>6
<1>10. ASSUME NEW tasks \in {saveTasks, rolled}, saveTasks \o Spawned(asked) = Append(tasks, task(checkpoint_id, 0))
       PROVE  /\ saveTasks \o Spawned(asked) \in Seq(SaveType(results))
              /\ Chained(saveTasks \o Spawned(asked))
              /\ \A n \in Rolls(saveTasks) :
                   /\ n \in Rolls(saveTasks \o Spawned(asked))
                   /\ (saveTasks \o Spawned(asked))[n] = saveTasks[n]
  <2>1. /\ tasks \in Seq(SaveType(results)) /\ Chained(tasks)
        /\ \A n \in Rolls(saveTasks) : n \in Rolls(tasks) /\ tasks[n] = saveTasks[n]
    BY <1>2, <1>7 DEF SavesInOrder
  <2> QED BY <1>8, <1>10, <2>1
<1>11. CASE saveTasks \o Spawned(asked) = saveTasks
  BY <1>2, <1>11 DEF SavesInOrder
<1>12. CASE saveTasks \o Spawned(asked) = rolled
  BY <1>7, <1>12
<1> QED BY <1>9, <1>10, <1>11, <1>12

(* The rolling checkpoint only moves forward: however the runtime          *)
(* schedules the saves, an older turn's snapshot never replaces a newer    *)
(* one under the rolling id (RollingCheckpointPolicy).                     *)
THEOREM CheckpointMovesForward == PolicySpec => RollingForward
<1>1. PolicyInit => SavesInOrder
  <2> SUFFICES ASSUME PolicyInit PROVE SavesInOrder
    OBVIOUS
  <2>1. usage \in UsageType
    BY DEF PolicyInit, UsageType
  <2>2. saveTasks = <<>> /\ saveTasks \in Seq(SaveType({})) /\ Rolls(saveTasks) = {}
    BY DEF PolicyInit, Rolls
  <2>3. kept \in [0..MaxPolicyTurns -> Nat] /\ kept[Rolling] = 0
    BY PolicyAssumption DEF PolicyInit, Rolling
  <2> QED BY <2>1, <2>2, <2>3 DEF SavesInOrder, Chained
<1>2. SavesInOrder /\ [PolicyNext]_policyVars => SavesInOrder' /\ kept'[Rolling] >= kept[Rolling]
  <2> SUFFICES ASSUME SavesInOrder, [PolicyNext]_policyVars
               PROVE  SavesInOrder' /\ kept'[Rolling] >= kept[Rolling]
    OBVIOUS
  <2> DEFINE Still == UNCHANGED <<saveTasks, kept>>
  <2>1. Rolling \in 0..MaxPolicyTurns /\ kept[Rolling] \in Nat
    BY PolicyAssumption DEF SavesInOrder, Rolling
  <2>2. ASSUME Still, usage' \in UsageType
        PROVE  SavesInOrder' /\ kept'[Rolling] >= kept[Rolling]
    BY <2>1, <2>2 DEF SavesInOrder, Chained, Rolls
  <2>3. CASE PreTurn
    BY <2>2, <2>3 DEF PreTurn, SavesInOrder
  <2>4. ASSUME NEW m, NEW c, NEW use \in Uses, Turn(m, c, use) PROVE Still /\ usage' \in UsageType
    <3> DEFINE u1 == [usage EXCEPT !.cost = @ + use.cost]
               u2 == [u1 EXCEPT !.input = @ + use.input]
               u3 == [u2 EXCEPT !.output = @ + use.output]
               u4 == [u3 EXCEPT !.turns = @ + 1]
    <3>0. use.cost \in Nat /\ use.input \in Nat /\ use.output \in Nat
      BY PolicyAssumption
    <3>1. u1 \in UsageType
      <4>1. usage \in UsageType /\ usage.cost + use.cost \in Nat
        BY <3>0 DEF SavesInOrder, UsageType
      <4> QED BY <4>1 DEF UsageType
    <3>2. u2 \in UsageType
      <4> HIDE DEF u1
      <4> QED BY <3>0, <3>1 DEF UsageType
    <3>3. u3 \in UsageType
      <4> HIDE DEF u2
      <4> QED BY <3>0, <3>2 DEF UsageType
    <3>4. u4 \in UsageType
      <4> HIDE DEF u3
      <4> QED BY <3>3 DEF UsageType
    <3>5. usage' = u4
      BY <2>4 DEF Turn
    <3> QED BY <2>4, <3>4, <3>5 DEF Turn
  <2>5. ASSUME NEW said \in {{}, {"jailbreak"}}, NextRun(said) PROVE Still /\ usage' \in UsageType
    <3> DEFINE u1 == [usage EXCEPT !.turn_index = 0]
               u2 == [u1 EXCEPT !.cost = 0]
               u3 == [u2 EXCEPT !.input = 0]
               u4 == [u3 EXCEPT !.output = 0]
               u5 == [u4 EXCEPT !.said = said]
               u6 == [u5 EXCEPT !.runs = @ + 1]
    <3>1. u1 \in UsageType
      BY DEF SavesInOrder, UsageType
    <3>2. u2 \in UsageType
      <4> HIDE DEF u1
      <4> QED BY <3>1 DEF UsageType
    <3>3. u3 \in UsageType
      <4> HIDE DEF u2
      <4> QED BY <3>2 DEF UsageType
    <3>4. u4 \in UsageType
      <4> HIDE DEF u3
      <4> QED BY <3>3 DEF UsageType
    <3>5. u5 \in UsageType
      <4> HIDE DEF u4
      <4> QED BY <3>4 DEF UsageType
    <3>6. u6 \in UsageType
      <4> HIDE DEF u5
      <4> QED BY <3>5 DEF UsageType
    <3>7. usage' = u6
      BY <2>5 DEF NextRun
    <3> QED BY <2>5, <3>6, <3>7 DEF NextRun
  <2>6. CASE PostTurn
    <3>1. /\ \E asked : saveTasks' = saveTasks \o Spawned(asked)
          /\ usage' = [usage EXCEPT !.turn_index = @ + 1] /\ kept' = kept
      BY <2>6 DEF PostTurn
    <3>2. usage' \in UsageType
      <4>1. usage' = [usage EXCEPT !.turn_index = @ + 1]
        BY <3>1
      <4> QED BY <4>1, SMTT(40) DEF SavesInOrder, UsageType
    <3>3. PICK asked : saveTasks' = saveTasks \o Spawned(asked)
      BY <3>1
    <3>4. /\ \E results : saveTasks' \in Seq(SaveType(results))
          /\ Chained(saveTasks')
          /\ \A n \in Rolls(saveTasks) : n \in Rolls(saveTasks') /\ saveTasks'[n] = saveTasks[n]
      BY <3>3, SpawnedInOrder
    <3>5. kept'[Rolling] \in {0} \cup {n \in Rolls(saveTasks') : saveTasks'[n].done}
      BY <3>1, <3>4 DEF SavesInOrder
    <3>6. kept' \in [0..MaxPolicyTurns -> Nat] /\ kept'[Rolling] >= kept[Rolling]
      BY <2>1, <3>1 DEF SavesInOrder
    <3> QED BY <3>2, <3>4, <3>5, <3>6 DEF SavesInOrder
  <2>7. ASSUME NEW n \in DOMAIN saveTasks, NEW ok \in BOOLEAN, Save(n, ok)
        PROVE  SavesInOrder' /\ kept'[Rolling] >= kept[Rolling]
    <3>1. PICK results : saveTasks \in Seq(SaveType(results))
      BY DEF SavesInOrder
    <3>2. usage' \in UsageType
      BY <2>7 DEF Save, SavesInOrder
    <3> QED BY <2>7, <3>1, <3>2, SaveKeepsChain DEF SavesInOrder
  <2>8. CASE UNCHANGED policyVars
    BY <2>2, <2>8 DEF policyVars, SavesInOrder
  <2> QED BY <2>2, <2>3, <2>4, <2>5, <2>6, <2>7, <2>8 DEF PolicyNext
<1>3. SavesInOrder /\ [PolicyNext]_policyVars => [kept'[Rolling] >= kept[Rolling]]_policyVars
  BY <1>2
<1> QED BY <1>1, <1>2, <1>3, PTL DEF PolicySpec, RollingForward
=============================================================================
