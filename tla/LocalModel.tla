----------------------------- MODULE LocalModel -----------------------------
(***************************************************************************)
(* A local model on its way into memory (local-llm): tasks that share the  *)
(* LazyLoader of their process (loader.rs), and the download of the file   *)
(* into a Hub cache that several processes share (download.rs), with       *)
(* partial downloads that are resumed, crashes and dropped futures.  A     *)
(* file is a sequence of blocks <<version, index>>; a version stands for a *)
(* commit, its etag and its blob.                                          *)
(***************************************************************************)
EXTENDS Naturals, Sequences

CONSTANTS Loads,      \* tasks that call ensure_ready
          Processes,  \* processes that share the cache directory
          FileSize,   \* blocks of the file
          MaxPushes,  \* bound on the commits to the model repository
          MaxStarts,  \* bound on the calls of ensure_ready, of all tasks together
          MaxCrashes, \* bound on the crashes
          MaxOrphans  \* bound on futures dropped while a write is out

ASSUME LocalModelAssumption ==
  /\ FileSize \in Nat \ {0} /\ MaxPushes \in Nat /\ MaxStarts \in Nat
  /\ MaxCrashes \in Nat /\ MaxOrphans \in Nat
  /\ "none" \notin Loads

NoLoad == "none"
Commits == 1 .. MaxPushes + 1
Contents(v) == [i \in 1 .. FileSize |-> <<v, i>>]

VARIABLES
  home,     \* per task: its process
  at,       \* per task: "idle", "read", "write", "head", "current" (after a 304),
            \* "lock", "open", "fetch", "ref", "link", "build"
  target,   \* per task: commit and etag of the download (before HEAD the cached
            \* etag), 0 when there is none, and whether it continues a partial
  body,     \* per task: blocks of the response not read yet
  out,      \* per task: the block handed to a write that has not landed, its target,
            \* and whether the file it goes to was renamed to its final name
  loader,   \* per process: LoaderState
  attempts, \* per process: the task in LoadAttemptGuard, which holds the write lock
  main,     \* hub: the version at "main"
  ref,      \* disk: refs/main, 0 when it is missing
  pointer,  \* disk: snapshots/{commit}/{file}: the etag it leads to, or 0
  blob,     \* disk: blobs/{etag}: its blocks, << >> when there is none
  partial,  \* disk: blobs/{etag}.incomplete
  flocks,   \* per etag: the task that holds the lock on its .lock file
  starts, crashes, orphans,
  spoiled   \* history: the versions that BlobsWhole gives up
taskVars == <<at, target, body, out>>
hubDisk == <<ref, pointer, blob, partial>>
counts == <<starts, crashes, orphans, spoiled>>
modelVars == <<home, taskVars, loader, attempts, main, hubDisk, flocks, counts>>

Target(commit, etag) == [commit |-> commit, etag |-> etag, resumed |-> FALSE]
NoTarget == Target(0, 0)

LocalModelInit ==
  /\ home \in [Loads -> Processes]
  /\ at = [t \in Loads |-> "idle"] /\ target = [t \in Loads |-> NoTarget]
  /\ body = [t \in Loads |-> << >>] /\ out = [t \in Loads |-> << >>]
  /\ loader = [p \in Processes |-> "Unloaded"]
  /\ attempts = [p \in Processes |-> NoLoad]
  /\ main = 1 /\ ref = 0 /\ pointer = [v \in Commits |-> 0]
  /\ blob = [v \in Commits |-> << >>] /\ partial = [v \in Commits |-> << >>]
  /\ flocks = [v \in Commits |-> NoLoad]
  /\ starts = 0 /\ crashes = 0 /\ orphans = 0 /\ spoiled = {}

-----------------------------------------------------------------------------
(* The loader.  Its write lock is held for the whole attempt, so others    *)
(* wait for the lock and never read Downloading or Loading.                *)
Unlocked(t) == attempts[home[t]] = NoLoad
MovesTo(t, where) == at' = [at EXCEPT ![t] = where]

EnsureReady(t) ==
  /\ at[t] = "idle" /\ out[t] = << >> /\ starts < MaxStarts
  /\ starts' = starts + 1 /\ MovesTo(t, "read")
  /\ UNCHANGED <<home, target, body, out, loader, attempts, main, hubDisk, flocks,
                 crashes, orphans, spoiled>>

ReadState(t) ==
  /\ at[t] = "read" /\ Unlocked(t)
  /\ MovesTo(t, IF loader[home[t]] = "Ready" THEN "idle" ELSE "write")
  /\ UNCHANGED <<home, target, body, out, loader, attempts, main, hubDisk, flocks, counts>>

(* cached_snapshot, and the etag behind its link. *)
CachedEtag == IF ref = 0 THEN 0 ELSE pointer[ref]

(* The state is classified again under the write lock; the download begins *)
(* with a look at the cache.                                               *)
BeginAttempt(t) ==
  /\ at[t] = "write" /\ Unlocked(t)
  /\ IF loader[home[t]] = "Ready" THEN MovesTo(t, "idle") /\ UNCHANGED <<target, loader, attempts>>
     ELSE /\ MovesTo(t, "head")
          /\ target' = [target EXCEPT ![t] = Target(0, CachedEtag)]
          /\ loader' = [loader EXCEPT ![home[t]] = "Downloading"]
          /\ attempts' = [attempts EXCEPT ![home[t]] = t]
  /\ UNCHANGED <<home, body, out, main, hubDisk, flocks, counts>>

(* unload() of any holder of the loader. *)
Unload(p) ==
  /\ attempts[p] = NoLoad /\ loader[p] # "Unloaded"
  /\ loader' = [loader EXCEPT ![p] = "Unloaded"]
  /\ UNCHANGED <<home, taskVars, attempts, main, hubDisk, flocks, counts>>

Released(t) == [v \in Commits |-> IF flocks[v] = t THEN NoLoad ELSE flocks[v]]

(* ensure_ready returns: the guard leaves `outcome` behind. *)
AttemptEnds(t, outcome) ==
  /\ MovesTo(t, "idle")
  /\ loader' = [loader EXCEPT ![home[t]] = outcome]
  /\ attempts' = [attempts EXCEPT ![home[t]] = NoLoad]
  /\ target' = [target EXCEPT ![t] = NoTarget] /\ body' = [body EXCEPT ![t] = << >>]
  /\ flocks' = Released(t)

LoadFails(t) == AttemptEnds(t, "Failed") /\ UNCHANGED <<home, out, main, hubDisk, counts>>

Build(t) ==
  /\ at[t] = "build"
  /\ \E outcome \in {"Ready", "Failed"} : AttemptEnds(t, outcome)
  /\ UNCHANGED <<home, out, main, hubDisk, counts>>

-----------------------------------------------------------------------------
(* HubClient::download. *)
Downloads(t, where, commit, etag) ==
  /\ MovesTo(t, where)
  /\ target' = [target EXCEPT ![t] = Target(commit, etag)]

(* A version that is there needs no download. *)
Needs(t, version) ==
  Downloads(t, IF blob[version] # << >> THEN "ref" ELSE "lock", version, version)

(* The conditional HEAD: 304, the metadata of main, an error, or no hub at *)
(* all, when a cached copy has to do.                                      *)
Head304(t) ==
  /\ at[t] = "head" /\ target[t].etag = main
  /\ MovesTo(t, "current")
  /\ UNCHANGED <<home, target, body, out, loader, attempts, main, hubDisk, flocks, counts>>

(* The ref is read after the answer.  By then it may be another's, and     *)
(* that commit's pointer would lead to this etag; or it is gone, and the   *)
(* headers of the 304 have to do.                                          *)
ReadRef(t) ==
  LET etag == target[t].etag IN
  /\ at[t] = "current"
  /\ \/ ref # 0 /\ Downloads(t, "ref", ref, etag) /\ spoiled' = spoiled \cup ({ref} \ {etag})
     \/ ref = 0 /\ Needs(t, etag) /\ UNCHANGED spoiled
  /\ UNCHANGED <<home, body, out, loader, attempts, main, hubDisk, flocks, starts, crashes,
                 orphans>>

HeadOk(t) ==
  /\ at[t] = "head" /\ target[t].etag # main
  /\ Needs(t, main)
  /\ UNCHANGED <<home, body, out, loader, attempts, main, hubDisk, flocks, counts>>

HeadOffline(t) ==
  /\ at[t] = "head" /\ CachedEtag # 0
  /\ Downloads(t, "build", ref, CachedEtag)
  /\ loader' = [loader EXCEPT ![home[t]] = "Loading"]
  /\ UNCHANGED <<home, body, out, attempts, main, hubDisk, flocks, counts>>

HeadFails(t) == (at[t] = "head" \/ (at[t] = "current" /\ ref = 0)) /\ LoadFails(t)

\* mutant: the .lock file is opened and not locked
NoBlobLock(t) ==
  /\ at[t] = "lock"
  /\ MovesTo(t, IF blob[target[t].etag] # << >> THEN "ref" ELSE "open")
  /\ UNCHANGED <<home, target, body, out, loader, attempts, main, hubDisk, flocks, counts>>

LockBlob(t) ==
  LET etag == target[t].etag IN
  /\ at[t] = "lock" /\ flocks[etag] = NoLoad
  /\ flocks' = [flocks EXCEPT ![etag] = t]
  /\ MovesTo(t, IF blob[etag] # << >> THEN "ref" ELSE "open")
  /\ UNCHANGED <<home, target, body, out, loader, attempts, main, hubDisk, counts>>

(* open_download: a partial is continued by a range request, which the     *)
(* server may answer with the tail (206), with the whole file (200), or    *)
(* not at all as asked (416, another range), when the file is asked for    *)
(* again; a body that is the whole file truncates what is there.  The body *)
(* is of main, which may have moved since the HEAD.                        *)
OpenDownload(t) ==
  LET etag == target[t].etag
      n    == Len(partial[etag])
  IN
  /\ at[t] = "open"
  /\ \/ /\ n > 0 /\ n < FileSize
        /\ body' = [body EXCEPT ![t] = SubSeq(Contents(main), n + 1, FileSize)]
        /\ target' = [target EXCEPT ![t].resumed = TRUE]
        /\ UNCHANGED partial
     \/ /\ body' = [body EXCEPT ![t] = Contents(main)]
        /\ partial' = [partial EXCEPT ![etag] = << >>]
        /\ UNCHANGED target
  /\ MovesTo(t, "fetch") /\ spoiled' = spoiled \cup ({etag} \ {main})
  /\ UNCHANGED <<home, out, loader, attempts, main, ref, pointer, blob, flocks, starts,
                 crashes, orphans>>

OpenFails(t) == at[t] = "open" /\ LoadFails(t)

(* A chunk goes to a file that writes in the background, one at a time: at *)
(* its end when a partial is continued, at its own position otherwise.     *)
ReadChunk(t) ==
  /\ at[t] = "fetch" /\ body[t] # << >> /\ out[t] = << >>
  /\ out' = [out EXCEPT ![t] = <<[block |-> Head(body[t]), to |-> target[t], renamed |-> FALSE]>>]
  /\ body' = [body EXCEPT ![t] = Tail(@)]
  /\ UNCHANGED <<home, at, target, loader, attempts, main, hubDisk, flocks, counts>>

Written(file, w) ==
  LET i == IF w.to.resumed THEN Len(file) + 1 ELSE w.block[2]
      n == IF i > Len(file) THEN i ELSE Len(file)
  IN  [j \in 1 .. n |-> IF j = i THEN w.block
                        ELSE IF j <= Len(file) THEN file[j] ELSE <<0, j>>]

(* The write lands in the file that was opened for it, whatever its name   *)
(* is by now, and whether or not its task still wants it.                  *)
BlockLands(t) ==
  /\ out[t] # << >>
  /\ LET w == Head(out[t]) IN
       IF w.renamed THEN blob' = [blob EXCEPT ![w.to.etag] = Written(@, w)] /\ UNCHANGED partial
       ELSE partial' = [partial EXCEPT ![w.to.etag] = Written(@, w)] /\ UNCHANGED blob
  /\ out' = [out EXCEPT ![t] = << >>]
  /\ UNCHANGED <<home, at, target, body, loader, attempts, main, ref, pointer, flocks, counts>>

(* The stream breaks: what arrived is flushed and kept. *)
FetchBreaks(t) == at[t] = "fetch" /\ body[t] # << >> /\ out[t] = << >> /\ LoadFails(t)

(* The end of the body: flush, and rename to the final name, writes of     *)
(* dropped downloads to the file included.                                 *)
Renamed(writes, etag) ==
  [i \in DOMAIN writes |-> [writes[i] EXCEPT !.renamed = @ \/ writes[i].to.etag = etag]]

FetchDone(t) ==
  LET etag == target[t].etag IN
  /\ at[t] = "fetch" /\ body[t] = << >> /\ out[t] = << >>
  /\ blob' = [blob EXCEPT ![etag] = partial[etag]]
  /\ partial' = [partial EXCEPT ![etag] = << >>]
  /\ out' = [u \in Loads |-> Renamed(out[u], etag)]
  /\ MovesTo(t, "ref")
  /\ UNCHANGED <<home, target, body, loader, attempts, main, ref, pointer, flocks, counts>>

(* finalize: the ref first, then the pointer, unless there is one; on the  *)
(* way out the lock is released and the loader goes on to build.           *)
FinalizeRef(t) ==
  /\ at[t] = "ref"
  /\ ref' = target[t].commit /\ MovesTo(t, "link")
  /\ UNCHANGED <<home, target, body, out, loader, attempts, main, pointer, blob, partial,
                 flocks, counts>>

FinalizeLink(t) ==
  LET d == target[t] IN
  /\ at[t] = "link"
  /\ pointer' = [pointer EXCEPT ![d.commit] = IF @ # 0 THEN @ ELSE d.etag]
  /\ flocks' = Released(t) /\ MovesTo(t, "build")
  /\ loader' = [loader EXCEPT ![home[t]] = "Loading"]
  /\ UNCHANGED <<home, target, body, out, attempts, main, ref, blob, partial, counts>>

-----------------------------------------------------------------------------
(* Faults.  A dropped future of ensure_ready: the guard records a failed   *)
(* attempt, and a write that is out lands later, in a file that another    *)
(* download may have taken over.                                           *)
DropLoad(t) ==
  /\ at[t] # "idle"
  /\ out[t] # << >> => orphans < MaxOrphans
  /\ IF out[t] = << >> THEN UNCHANGED <<orphans, spoiled>>
     ELSE orphans' = orphans + 1 /\ spoiled' = spoiled \cup {Head(out[t]).to.etag}
  /\ IF attempts[home[t]] = t THEN AttemptEnds(t, "Failed")
     ELSE MovesTo(t, "idle") /\ UNCHANGED <<target, body, loader, attempts, flocks>>
  /\ UNCHANGED <<home, out, main, hubDisk, starts, crashes>>

(* A process dies: its locks go, a write that is out is lost or landed,    *)
(* and the ref it was writing may be left empty.                           *)
ProcessDies(p) ==
  LET its == {t \in Loads : home[t] = p} IN
  /\ crashes < MaxCrashes /\ \E t \in its : at[t] # "idle"
  /\ crashes' = crashes + 1
  /\ at' = [t \in Loads |-> IF t \in its THEN "idle" ELSE at[t]]
  /\ target' = [t \in Loads |-> IF t \in its THEN NoTarget ELSE target[t]]
  /\ body' = [t \in Loads |-> IF t \in its THEN << >> ELSE body[t]]
  /\ out' = [t \in Loads |-> IF t \in its THEN << >> ELSE out[t]]
  /\ loader' = [loader EXCEPT ![p] = "Unloaded"]
  /\ attempts' = [attempts EXCEPT ![p] = NoLoad]
  /\ flocks' = [v \in Commits |-> IF flocks[v] \in its THEN NoLoad ELSE flocks[v]]
  /\ ref' \in IF \E t \in its : at[t] = "ref" THEN {ref, 0} ELSE {ref}
  /\ UNCHANGED <<home, main, pointer, blob, partial, starts, orphans, spoiled>>

(* A commit to the repository. *)
Push ==
  /\ main <= MaxPushes
  /\ main' = main + 1
  /\ UNCHANGED <<home, taskVars, loader, attempts, hubDisk, flocks, counts>>

LoadStep(t) ==
  \/ EnsureReady(t) \/ ReadState(t) \/ BeginAttempt(t) \/ Build(t)
  \/ Head304(t) \/ ReadRef(t) \/ HeadOk(t) \/ HeadOffline(t) \/ HeadFails(t)
  \/ LockBlob(t) \/ OpenDownload(t) \/ OpenFails(t) \/ ReadChunk(t) \/ BlockLands(t)
  \/ FetchBreaks(t) \/ FetchDone(t) \/ FinalizeRef(t) \/ FinalizeLink(t) \/ DropLoad(t)

LocalModelNext ==
  \/ \E t \in Loads : LoadStep(t)
  \/ \E p \in Processes : Unload(p) \/ ProcessDies(p)
  \/ Push

LocalModelSpec == LocalModelInit /\ [][LocalModelNext]_modelVars

-----------------------------------------------------------------------------
(* A file under its final name is the whole file of its etag, and a        *)
(* pointer leads to the blob of its own commit: downloads broken off,      *)
(* resumed, restarted or raced by another process, pushes and crashes      *)
(* anywhere, never give a loader a torn or a stale file (fetch_blob,       *)
(* lock_blob, finalize), except of a version that was spoiled before: its  *)
(* etag was given the body of another, or a dropped download had a write   *)
(* out to its file, or its ref was read after a 304 for another etag.      *)
BlobsWhole ==
  \A v \in Commits \ spoiled :
    /\ blob[v] \in {<< >>, Contents(v)}
    /\ pointer[v] \in {0, v} /\ (pointer[v] # 0 => blob[v] # << >>)
=============================================================================
