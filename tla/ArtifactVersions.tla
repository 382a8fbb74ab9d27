-------------------------- MODULE ArtifactVersions --------------------------
(***************************************************************************)
(* One artifact of the FileArtifactStore (artifacts/src/fs_store.rs,       *)
(* streaming.rs): tools that save, load and delete it under its lock, the  *)
(* blocking file writes a save hands to the thread pool, processes that    *)
(* crash and futures that are dropped.                                     *)
(*                                                                         *)
(* The content of a version is the number of the save that wrote it.       *)
(***************************************************************************)
EXTENDS Naturals, Sequences

CONSTANTS Tools,        \* callers
          MaxSaves,     \* bound on save()
          MaxFaults,    \* bound on write errors and crashes
          MaxAbandons   \* bound on saves dropped while a write of theirs is out

ASSUME ArtifactAssumption ==
  /\ MaxSaves \in Nat /\ MaxFaults \in Nat /\ MaxAbandons \in Nat
  /\ "free" \notin Tools

VARIABLES meta,     \* versions of meta.json: the save each record is of
          files,    \* v<n>.bin: version -> the save whose content it holds
          holder,   \* the tool with the artifact's locks, or "free"
          call,     \* per tool: [pc, save, meta]
          pendingWrites, \* blocking writes not done yet: [of, save, what, meta]
          saves, faults, abandons,
          acked,    \* history variable: version -> save, as save() returned them
          exposed   \* history variable: versions that dropped saves were writing,
                    \* with Everything once a delete overtook such a write

artifactVars == <<meta, files, holder, call, pendingWrites, saves, faults, abandons, acked, exposed>>

Call(pc, save, read) == [pc |-> pc, save |-> save, meta |-> read]
NoCall == Call("idle", 0, <<>>)
NoFile == [v \in {} |-> 0]
Everything == 0    \* no version has this number

(* A file, or an answer of save(), of one version more or less. *)
With(f, v, save) == [w \in DOMAIN f \cup {v} |-> IF w = v THEN save ELSE f[w]]
ButFor(f, v) == [w \in DOMAIN f \ {v} |-> f[w]]

ArtifactInit ==
  /\ meta = <<>> /\ files = NoFile /\ holder = "free"
  /\ call = [t \in Tools |-> NoCall]
  /\ pendingWrites = {}
  /\ saves = 0 /\ faults = 0 /\ abandons = 0
  /\ acked = NoFile /\ exposed = {}

CallAt(t, pc) == holder = t /\ call[t].pc = pc
Goto(t, pc) == call' = [call EXCEPT ![t] = Call(pc, @.save, @.meta)]
Return(t) == call' = [call EXCEPT ![t] = NoCall] /\ holder' = "free"
CountersUnchanged == UNCHANGED <<saves, faults, abandons>>

-----------------------------------------------------------------------------
(* artifact_lock, then process_artifact_lock. *)
\* mutant: the lock is taken while another tool has it
LockShared(t, pc, save) ==
  /\ call[t] = NoCall /\ holder' = t
  /\ call' = [call EXCEPT ![t] = Call(pc, save, <<>>)]
Lock(t, pc, save) ==
  /\ call[t] = NoCall /\ holder = "free" /\ holder' = t
  /\ call' = [call EXCEPT ![t] = Call(pc, save, <<>>)]

BeginArtifactSave(t) ==
  /\ saves < MaxSaves /\ saves' = saves + 1 /\ Lock(t, "save", saves + 1)
  /\ UNCHANGED <<meta, files, pendingWrites, faults, abandons, acked, exposed>>

BeginLoad(t) ==
  /\ Lock(t, "load", 0)
  /\ UNCHANGED <<meta, files, pendingWrites, saves, faults, abandons, acked, exposed>>

BeginDelete(t) ==
  /\ (DOMAIN files # {} \/ meta # <<>>) /\ Lock(t, "delete", 0)
  /\ acked' = NoFile
  /\ exposed' = IF pendingWrites = {} THEN {} ELSE {Everything}
  /\ UNCHANGED <<meta, files, pendingWrites, saves, faults, abandons>>

ReadMeta(t) ==
  /\ \/ CallAt(t, "save") /\ call' = [call EXCEPT ![t] = Call("save_check", @.save, meta)]
     \/ CallAt(t, "load") /\ call' = [call EXCEPT ![t] = Call("load_check", 0, meta)]
  /\ UNCHANGED <<meta, files, holder, pendingWrites, acked, exposed>> /\ CountersUnchanged

-----------------------------------------------------------------------------
(* next_version rejects content without metadata and metadata without      *)
(* content; the new version's content goes to the thread pool.             *)
Matches(t) == DOMAIN files = DOMAIN call[t].meta

Write(t, what) == [of |-> t, save |-> call[t].save, what |-> what,
                   meta |-> Append(call[t].meta, call[t].save)]
Spawn(t, what) == pendingWrites' = pendingWrites \cup {Write(t, what)}

next_version(t) ==
  /\ CallAt(t, "save_check")
  /\ \/ Matches(t) /\ Goto(t, "content") /\ Spawn(t, "content") /\ UNCHANGED holder
     \/ ~Matches(t) /\ Return(t) /\ UNCHANGED pendingWrites
  /\ UNCHANGED <<meta, files, acked, exposed>> /\ CountersUnchanged

(* A write of the thread pool, a temporary file renamed, is atomic.  The   *)
(* save that handed it over may no longer wait for it.                     *)
Landed(what) == IF what = "content" THEN "content_written" ELSE "meta_written"
Awaited(w) == CallAt(w.of, w.what) /\ call[w.of].save = w.save

WriteLands(w) ==
  /\ \/ /\ w.what = "content" /\ UNCHANGED meta
        /\ files' = With(files, Len(w.meta), w.save)
     \/ w.what = "meta" /\ meta' = w.meta /\ UNCHANGED files
  /\ pendingWrites' = pendingWrites \ {w}
  /\ IF Awaited(w) THEN Goto(w.of, Landed(w.what)) ELSE UNCHANGED call
  /\ UNCHANGED <<holder, acked, exposed>> /\ CountersUnchanged

(* A failed metadata write takes the new content away again, if it can. *)
WriteFails(w) ==
  /\ faults < MaxFaults /\ faults' = faults + 1
  /\ pendingWrites' = pendingWrites \ {w}
  /\ IF Awaited(w)
     THEN /\ Return(w.of)
          /\ files' \in IF w.what = "meta" THEN {ButFor(files, Len(w.meta)), files} ELSE {files}
     ELSE UNCHANGED <<call, holder, files>>
  /\ UNCHANGED <<meta, saves, abandons, acked, exposed>>

ContentWritten(t) ==
  /\ CallAt(t, "content_written") /\ Goto(t, "meta") /\ Spawn(t, "meta")
  /\ UNCHANGED <<meta, files, holder, acked, exposed>> /\ CountersUnchanged

SaveReturns(t) ==
  /\ CallAt(t, "meta_written") /\ Return(t)
  /\ acked' = With(acked, Len(call[t].meta) + 1, call[t].save)
  /\ UNCHANGED <<meta, files, pendingWrites, exposed>> /\ CountersUnchanged

-----------------------------------------------------------------------------
(* load and load_version: the answer is looked at in LoadReturns. *)
LoadChecks(t) ==
  /\ CallAt(t, "load_check")
  /\ IF Matches(t) /\ call[t].meta # <<>> THEN Goto(t, "load_read") /\ UNCHANGED holder
     ELSE Return(t)
  /\ UNCHANGED <<meta, files, pendingWrites, acked, exposed>> /\ CountersUnchanged

LoadReturns(t) ==
  /\ CallAt(t, "load_read") /\ Return(t)
  /\ UNCHANGED <<meta, files, pendingWrites, acked, exposed>> /\ CountersUnchanged

(* delete_artifact_files, one entry after the other in directory order,    *)
(* then the empty directories.                                             *)
DeleteEntry(t) ==
  /\ CallAt(t, "delete")
  /\ \/ \E v \in DOMAIN files : files' = ButFor(files, v) /\ UNCHANGED <<meta, call, holder>>
     \/ meta # <<>> /\ meta' = <<>> /\ UNCHANGED <<files, call, holder>>
     \/ DOMAIN files = {} /\ meta = <<>> /\ Return(t) /\ UNCHANGED <<meta, files>>
  /\ UNCHANGED <<pendingWrites, acked, exposed>> /\ CountersUnchanged

-----------------------------------------------------------------------------
(* The caller drops the future where it waits, as a cancelled tool call    *)
(* does: the locks are free, a handed-over write goes on.                  *)
WriteOut(t) == \E w \in pendingWrites : Awaited(w) /\ w.of = t

Abandon(t) ==
  /\ holder = t /\ Return(t)
  /\ WriteOut(t) => abandons < MaxAbandons
  /\ abandons' = IF WriteOut(t) THEN abandons + 1 ELSE abandons
  /\ exposed' = IF WriteOut(t) THEN exposed \cup {Len(call[t].meta) + 1} ELSE exposed
  /\ UNCHANGED <<meta, files, pendingWrites, saves, faults, acked>>

(* The process of a tool dies with its writes; its locks go with it. *)
ArtifactCrash(t) ==
  /\ faults < MaxFaults /\ faults' = faults + 1
  /\ holder = t /\ Return(t)
  /\ pendingWrites' = {w \in pendingWrites : w.of # t}
  /\ UNCHANGED <<meta, files, saves, abandons, acked, exposed>>

ArtifactNext ==
  \/ \E t \in Tools : \/ BeginArtifactSave(t) \/ BeginLoad(t) \/ BeginDelete(t) \/ ReadMeta(t)
                      \/ next_version(t) \/ ContentWritten(t) \/ SaveReturns(t)
                      \/ LoadChecks(t) \/ LoadReturns(t) \/ DeleteEntry(t)
                      \/ Abandon(t) \/ ArtifactCrash(t)
  \/ \E w \in pendingWrites : WriteLands(w) \/ WriteFails(w)

ArtifactSpec == ArtifactInit /\ [][ArtifactNext]_artifactVars

-----------------------------------------------------------------------------
(* A version that save() has returned stays, record and content, until the *)
(* artifact is deleted, whatever crashes, fails or is saved after it       *)
(* (save, next_version, rollback_version_file).  A save dropped while its  *)
(* write is out may still write the content of the version it was at, and  *)
(* of no other; only when the artifact is deleted before such a write has  *)
(* ended can the write bring back the old record over new ones.            *)
VersionsImmutable ==
  Everything \notin exposed =>
    \A v \in DOMAIN acked :
      /\ v \in DOMAIN meta /\ meta[v] = acked[v]
      /\ v \in DOMAIN files /\ (v \notin exposed => files[v] = acked[v])
=============================================================================
