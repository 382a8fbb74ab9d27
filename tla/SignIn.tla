-------------------------------- MODULE SignIn --------------------------------
(***************************************************************************)
(* Signing in and keeping the credential (auth/src).  Hosts that share a   *)
(* keychain sign in, by a browser callback or by polling for a device      *)
(* code, store what they are given, read it and delete it.  Where the      *)
(* keychain bounds the size of a secret, a long one is a manifest and a    *)
(* set of chunks, written and deleted one entry at a time; an entry may be *)
(* refused and a host may die in between.                                  *)
(***************************************************************************)
EXTENDS Integers, Sequences, FiniteSets, SequencesExt

CONSTANTS Hosts,            \* processes that use the keychain and the callback port
          SecretLimit,      \* max_secret_len, in UTF-16 units
          SecretWidths,     \* the widths of the characters of the secrets issued
          DefaultInterval, SlowDown, DefaultLifetime,   \* of the device flow
          MaxRefusals       \* bound on the entries the keychain refuses

ASSUME SignInAssumption ==
  /\ SecretLimit \in Nat \ {0, 1} /\ MaxRefusals \in Nat
  /\ DefaultInterval \in Nat \ {0} /\ SlowDown \in Nat /\ DefaultLifetime \in Nat

NoHost == "nobody"
Absent == [is |-> "absent"]

VARIABLES host,       \* per host, the operation it is in
          port,       \* who listens on the callback port
          primary,    \* the entry of the key: a secret, or a manifest
          chunks,     \* the chunk entries
          limited,    \* the keychain bounds its secrets
          refusals,   \* entries refused so far
          issued      \* history: the secrets hosts have been given

signInVars == <<host, port, primary, chunks, limited, refusals, issued>>

(* A secret is a sequence of characters of one or two units. *)
SecretOf(h) == {[i \in DOMAIN ws |-> [of |-> h, nr |-> i, width |-> ws[i]]] : ws \in SecretWidths}

Units(text) == FoldLeft(LAMBDA n, ch : n + ch.width, 0, text)

split_utf16(text, limit) ==
  LET Add(s, ch) == IF s.units + ch.width > limit
                    THEN [parts |-> Append(s.parts, s.part), part |-> <<ch>>, units |-> ch.width]
                    ELSE [s EXCEPT !.part = Append(@, ch), !.units = @ + ch.width]
      Closed(s) == Append(s.parts, s.part)
  IN Closed(FoldLeft(Add, [parts |-> << >>, part |-> << >>, units |-> 0], text))

Idle == [op |-> "none", pc |-> "idle"]
Ended(how) == [op |-> "none", pc |-> how]
Becomes(h, r) == host' = [host EXCEPT ![h] = r]

SignInInit ==
  /\ host = [h \in Hosts |-> Idle] /\ port = NoHost
  /\ limited \in BOOLEAN /\ refusals = 0
  /\ primary = Absent /\ chunks = {} /\ issued = {}

Storage == <<primary, chunks, limited, refusals>>

-----------------------------------------------------------------------------
(* The device flow: request_device_code, then poll_device_token.           *)
poll_interval(given) == IF given > 0 THEN given ELSE DefaultInterval
Unset == -1
lifetime(given) == IF given = Unset THEN DefaultLifetime ELSE given

perform_device_authorization(h) ==
  /\ host[h].pc = "idle"
  /\ \/ Becomes(h, Ended("failed"))
     \/ \E every \in {0, 1}, expires \in {Unset, 0, 3} :
          Becomes(h, [op |-> "device", pc |-> "poll", interval |-> poll_interval(every),
                      lifetime |-> lifetime(expires), elapsed |-> 0, late |-> FALSE,
                      wanted |-> poll_interval(every), hurried |-> FALSE])
  /\ UNCHANGED <<port, issued>> /\ UNCHANGED Storage

Issue(h) ==
  \E secret \in SecretOf(h) :
    /\ issued' = issued \cup {secret}
    /\ Becomes(h, [op |-> "set", pc |-> "stale", text |-> secret])

slow_down(r) == [r EXCEPT !.interval = @ + SlowDown]

(* One round of the loop: sleep, look at the clock, ask. *)
Poll(h) ==
  /\ host[h].pc = "poll"
  /\ \E slept \in {[host[h] EXCEPT !.elapsed = @ + host[h].interval]} :
       \/ /\ slept.elapsed >= slept.lifetime
          /\ Becomes(h, Ended("failed")) /\ UNCHANGED issued
       \/ /\ slept.elapsed < slept.lifetime
          /\ \E asking \in {[slept EXCEPT !.late = slept.elapsed >= slept.lifetime,
                                          !.hurried = slept.interval < slept.wanted]} :
               \/ Becomes(h, asking) /\ UNCHANGED issued                   \* pending
               \/ /\ Becomes(h, slow_down([asking EXCEPT !.wanted = @ + SlowDown]))
                  /\ UNCHANGED issued
               \/ Becomes(h, Ended("failed")) /\ UNCHANGED issued
               \/ Issue(h)
  /\ UNCHANGED port /\ UNCHANGED Storage

(* LoopbackAuthorizationHandler::authorize: a listener, if the port is     *)
(* free, and a prompt for the code, if one is configured.                  *)
authorize(h) ==
  /\ host[h].pc = "idle"
  /\ \E manual \in BOOLEAN :
       \/ /\ port # NoHost /\ ~manual
          /\ Becomes(h, Ended("failed")) /\ UNCHANGED port
       \/ /\ port = NoHost \/ manual
          /\ port' = IF port = NoHost THEN h ELSE port
          /\ Becomes(h, [op |-> "code", pc |-> "await", manual |-> manual, stalled |-> FALSE])
  /\ UNCHANGED issued /\ UNCHANGED Storage

Unlisten(h) == port' = IF port = h THEN NoHost ELSE port

(* The last of several equal parameters counts; an error outweighs all. *)
parse_callback_query(h, query) ==
  IF query.error \/ query.state # h \/ ~query.code THEN Ended("failed")
  ELSE [op |-> "code", pc |-> "exchange", from |-> query.state, pasted |-> FALSE]

Queries == [error : BOOLEAN, state : Hosts \cup {NoHost}, code : BOOLEAN]

(* A request without a query, or none at all, is answered and the listener *)
(* goes on; a connection that says nothing keeps it.                       *)
wait_for_callback(h) ==
  /\ host[h].pc = "await" /\ port = h /\ ~host[h].stalled
  /\ \/ \E query \in Queries : Becomes(h, parse_callback_query(h, query)) /\ Unlisten(h)
     \/ Becomes(h, [host[h] EXCEPT !.stalled = TRUE]) /\ UNCHANGED port
  /\ UNCHANGED issued /\ UNCHANGED Storage

(* What is pasted is nothing, a callback that says "code=", whose state is *)
(* checked, or any other text, which is taken as the code itself: that of  *)
(* this sign-in, of another, or none (a callback with an error).           *)
parse_manual_input(h) ==
  /\ host[h].pc = "await" /\ host[h].manual
  /\ \/ Becomes(h, Ended("failed"))
     \/ \E query \in Queries : Becomes(h, parse_callback_query(h, query))
     \/ \E from \in Hosts \cup {NoHost} :
          Becomes(h, [op |-> "code", pc |-> "exchange", from |-> from, pasted |-> TRUE])
  /\ Unlisten(h)
  /\ UNCHANGED issued /\ UNCHANGED Storage

AuthorizeTimeout(h) ==
  /\ host[h].pc = "await" /\ Becomes(h, Ended("failed")) /\ Unlisten(h)
  /\ UNCHANGED issued /\ UNCHANGED Storage

(* The server gives nothing for a code of another sign-in, whose verifier  *)
(* it was not asked with.                                                  *)
exchange_code_with_pkce(h) ==
  /\ host[h].pc = "exchange"
  /\ \/ Becomes(h, Ended("failed")) /\ UNCHANGED issued
     \/ host[h].from = h /\ Issue(h)
  /\ UNCHANGED port /\ UNCHANGED Storage

-----------------------------------------------------------------------------
(* The keychain.  One step per call of the backend. *)
Refuse == refusals < MaxRefusals /\ refusals' = refusals + 1
Granted == UNCHANGED refusals
NoChange == UNCHANGED <<primary, chunks>>
Others == UNCHANGED <<port, limited, issued>>

accounts(manifest) == {[set |-> manifest.set, at |-> i] : i \in 1 .. manifest.parts}
ChunkAt(account) == {c \in chunks : c.set = account.set /\ c.at = account.at}

(* write_raw: what is there now, for its chunks. *)
ReadStale(h) ==
  /\ host[h].pc = "stale"
  /\ \E stale \in {primary, Absent}, parts \in {split_utf16(host[h].text, SecretLimit)} :
       /\ Becomes(h, [host[h] EXCEPT !.pc = IF limited /\ Units(host[h].text) > SecretLimit
                                            THEN "chunks" ELSE "primary"]
                      @@ [stale |-> IF limited /\ stale.is = "manifest" THEN accounts(stale) ELSE {},
                          left |-> parts, nr |-> 0])
       /\ IF stale = primary THEN Granted ELSE Refuse
  /\ NoChange /\ Others

WriteChunk(h) ==
  /\ host[h].pc = "chunks" /\ host[h].left # << >>
  /\ \/ /\ chunks' = chunks \cup {[set |-> h, at |-> host[h].nr + 1, text |-> Head(host[h].left)]}
        /\ Becomes(h, [host[h] EXCEPT !.nr = @ + 1, !.left = Tail(@)])
        /\ Granted
     \/ /\ Becomes(h, [host[h] EXCEPT !.pc = "undo", !.stale = accounts([set |-> h, parts |-> host[h].nr])])
        /\ Refuse /\ UNCHANGED chunks
  /\ UNCHANGED primary /\ Others

manifest_first(h) == host[h].nr = 1
AllWritten(h) == host[h].left = << >>

(* The entry that decides what a reader finds. *)
WritePrimary(h) ==
  /\ \/ host[h].pc = "primary"
     \/ host[h].pc = "chunks" /\ AllWritten(h)
  /\ \/ /\ primary' = IF host[h].pc = "primary" THEN [is |-> "secret", text |-> host[h].text]
                      ELSE [is |-> "manifest", set |-> h, parts |-> host[h].nr]
        /\ Becomes(h, [host[h] EXCEPT !.pc = "clean"])
        /\ Granted
     \/ /\ Becomes(h, IF host[h].pc = "primary" THEN Ended("failed")
                      ELSE [host[h] EXCEPT !.pc = "undo",
                                           !.stale = accounts([set |-> h, parts |-> host[h].nr])])
        /\ Refuse /\ UNCHANGED primary
  /\ UNCHANGED chunks /\ Others

(* A chunk that cannot be deleted is left. *)
delete_chunks(h) ==
  /\ host[h].pc \in {"clean", "undo"}
  /\ \/ /\ host[h].stale = {}
        /\ Becomes(h, Ended(IF host[h].pc = "clean" THEN "done" ELSE "failed"))
        /\ UNCHANGED chunks /\ Granted
     \/ \E account \in host[h].stale :
          /\ \A a \in host[h].stale : account.at <= a.at
          /\ Becomes(h, [host[h] EXCEPT !.stale = @ \ {account}])
          /\ \/ chunks' = chunks \ ChunkAt(account) /\ Granted
             \/ Refuse /\ UNCHANGED chunks
  /\ UNCHANGED primary /\ Others

delete_raw(h) ==
  \/ /\ host[h].pc = "idle"
     /\ Becomes(h, [op |-> "delete", pc |-> "delete",
                    stale |-> IF limited /\ primary.is = "manifest" THEN accounts(primary) ELSE {}])
     /\ NoChange /\ Granted /\ Others
  \/ /\ host[h].pc = "delete"
     /\ \/ primary' = Absent /\ Becomes(h, [host[h] EXCEPT !.pc = "clean"]) /\ Granted
        \/ Becomes(h, Ended("failed")) /\ Refuse /\ UNCHANGED primary
     /\ UNCHANGED chunks /\ Others

read_raw(h) ==
  \/ /\ host[h].pc = "idle"
     /\ Becomes(h, CASE primary.is = "absent" -> Ended("done")
                     [] primary.is = "secret" -> [op |-> "got", pc |-> "got", text |-> primary.text]
                     [] primary.is = "manifest" ->
                          [op |-> "get", pc |-> "parts", manifest |-> primary, nr |-> 0, text |-> << >>])
     /\ NoChange /\ Granted /\ Others
  \/ /\ host[h].pc = "parts"
     /\ \E part \in {ChunkAt([set |-> host[h].manifest.set, at |-> host[h].nr + 1])} :
          \/ /\ host[h].nr = host[h].manifest.parts
             /\ Becomes(h, [op |-> "got", pc |-> "got", text |-> host[h].text])
          \/ /\ host[h].nr < host[h].manifest.parts /\ part # {}
             /\ Becomes(h, [host[h] EXCEPT !.nr = @ + 1, !.text = @ \o (CHOOSE c \in part : TRUE).text])
          \/ /\ host[h].nr < host[h].manifest.parts /\ part = {}
             /\ Becomes(h, [op |-> "malformed", pc |-> "got", manifest |-> host[h].manifest])
     /\ NoChange /\ Granted /\ Others

Die(h) ==
  /\ host[h].pc \notin {"idle", "got", "done", "failed", "dead"}
  /\ Becomes(h, Ended("dead")) /\ Unlisten(h)
  /\ UNCHANGED issued /\ UNCHANGED Storage

SignInNext ==
  \E h \in Hosts :
    \/ perform_device_authorization(h) \/ Poll(h)
    \/ authorize(h) \/ wait_for_callback(h) \/ parse_manual_input(h) \/ AuthorizeTimeout(h)
    \/ exchange_code_with_pkce(h)
    \/ ReadStale(h) \/ WriteChunk(h) \/ WritePrimary(h) \/ delete_chunks(h)
    \/ delete_raw(h) \/ read_raw(h) \/ Die(h)

SignInSpec == SignInInit /\ [][SignInNext]_signInVars

-----------------------------------------------------------------------------
(* Wherever writes, deletions and reads of several hosts interleave, are   *)
(* refused or cut short by a crash, the keychain holds a whole secret that *)
(* somebody was given, or none; a reader gets such a secret, or an error   *)
(* when what it was reading has been replaced; a code that comes with a    *)
(* callback is exchanged only by the host whose state it carries (a bare   *)
(* code that was pasted carries none); and a device code is never asked    *)
(* for after it has expired, nor more often than the server wants.         *)
SecretsWhole ==
  /\ primary.is = "manifest" =>
       /\ \A a \in accounts(primary) : ChunkAt(a) # {}
       /\ FlattenSeq([i \in 1 .. primary.parts |->
            (CHOOSE c \in chunks : c.set = primary.set /\ c.at = i).text]) \in issued
  /\ primary.is = "secret" => primary.text \in issued
  /\ limited => \A c \in chunks : Units(c.text) <= SecretLimit
  /\ \A h \in Hosts :
       /\ host[h].op = "got" => host[h].text \in issued
       /\ host[h].op = "malformed" => primary # host[h].manifest
       /\ host[h].pc = "exchange" => host[h].from = h \/ host[h].pasted
       /\ host[h].op = "device" => ~host[h].late /\ ~host[h].hurried
=============================================================================
