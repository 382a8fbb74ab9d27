----------------------------- MODULE SessionLog -----------------------------
(***************************************************************************)
(* One session file of JsonlSessionStore (memory/src/jsonl.rs): a leading  *)
(* metadata line, records, and an in-place append protocol that brackets a *)
(* batch between an append-begin line and a trailing metadata line (the    *)
(* commit) before it patches the leading line.  Every other write replaces *)
(* the file by rename (src/atomic_fs.rs).  The process may crash, and an   *)
(* append may fail with an I/O error, between any two writes.              *)
(*                                                                         *)
(* A line is [kind, op]: op numbers the operation that wrote a record, and *)
(* is the sequence number on a metadata line.  writeln! puts the text and  *)
(* the newline in two writes, hence `closed`.  The lock of the target      *)
(* (with_target_lock) is held while `job` is not Idle.                     *)
(***************************************************************************)
EXTENDS Naturals, Sequences, FiniteSets

CONSTANTS Clients,     \* callers of the store in one process
          None,        \* model value
          MaxWrites,   \* bound on the number of writes
          Tearing      \* whether a crash or error may leave a line unfinished

ASSUME SessionAssumption == MaxWrites \in Nat /\ Tearing \in BOOLEAN

VARIABLES file,    \* None, or [head, sound, lines, closed]; sound: the head parses
          job,     \* the write in progress under the lock, or Idle
          known,   \* per client: None, or what it last loaded
          writes,  \* writes begun so far; numbers the records
          born,    \* how often the file has been created
          commits  \* history: the writes that reached their commit point

sessionVars == <<file, job, known, writes, born, commits>>

Idle == [kind |-> "idle"]
Line(kind, op) == [kind |-> kind, op |-> op]
Junk == Line("junk", 0)
IsRecord(l) == l.kind \in {"message", "custom", "entry", "state"}

Kinds(lines, K) == SelectSeq(lines, LAMBDA l : l.kind \in K)

\* mutant: a new append-begin does not discard an abandoned append
read_lines_nested(lines) ==
  LET scan[n \in 0 .. Len(lines)] ==
        IF n = 0 THEN [open |-> FALSE, done |-> << >>, pending |-> << >>]
        ELSE LET s == scan[n - 1]
                 l == lines[n]
             IN  CASE l.kind = "begin" -> [s EXCEPT !.open = TRUE]
                   [] l.kind = "meta"  -> [open |-> FALSE, pending |-> << >>,
                                           done |-> s.done \o s.pending]
                   [] s.open           -> [s EXCEPT !.pending = Append(@, l)]
                   [] OTHER            -> [s EXCEPT !.done = Append(@, l)]
  IN  scan[Len(lines)].done

(* What the loop over the lines has collected after n of them: committed   *)
(* lines, and the lines of an open append.                                 *)
read_lines(lines) ==
  LET scan[n \in 0 .. Len(lines)] ==
        IF n = 0 THEN [open |-> FALSE, done |-> << >>, pending |-> << >>]
        ELSE LET s == scan[n - 1]
                 l == lines[n]
             IN  CASE l.kind = "begin" -> [s EXCEPT !.open = TRUE, !.pending = << >>]
                   [] l.kind = "meta"  -> [open |-> FALSE, pending |-> << >>,
                                           done |-> s.done \o s.pending]
                   [] s.open           -> [s EXCEPT !.pending = Append(@, l)]
                   [] OTHER            -> [s EXCEPT !.done = Append(@, l)]
  IN  scan[Len(lines)].done

(* The leading line must parse; then the last metadata line wins.          *)
Readable(f) == f # None /\ f.sound

\* mutant: trust the leading line
find_no_meta_commit(f) == f.head
find_last_meta_commit(f) ==
  LET metas == {i \in DOMAIN f.lines : f.lines[i].kind = "meta"}
  IN  IF metas = {} THEN f.head
      ELSE f.lines[CHOOSE i \in metas : \A j \in metas : j <= i].op

check_sequence(c) ==
  file # None => /\ Readable(file)
                 /\ known[c] # None
                 /\ find_last_meta_commit(file) = known[c].seq

(* What a load returns of a readable file. *)
Records(f) == SelectSeq(read_lines(f.lines), IsRecord)

Rewritten(seq, lines) ==
  [head |-> seq, sound |-> TRUE, lines |-> lines, closed |-> TRUE]

(* The first state line is replaced, or one is added. *)
upsert_state(lines, op) ==
  IF \E i \in DOMAIN lines : lines[i].kind = "state"
  THEN LET first == CHOOSE i \in DOMAIN lines :
             /\ lines[i].kind = "state"
             /\ \A j \in DOMAIN lines : lines[j].kind = "state" => i <= j
       IN  [lines EXCEPT ![first] = Line("state", op)]
  ELSE Append(lines, Line("state", op))

RecordSet(f) == {Records(f)[i] : i \in DOMAIN Records(f)}

SessionInit ==
  /\ file = None /\ job = Idle
  /\ known = [c \in Clients |-> None]
  /\ writes = 0 /\ born = 0 /\ commits = {}

(* The lock is free and another write is allowed. *)
Start == job = Idle /\ writes < MaxWrites /\ writes' = writes + 1

Unstarted == UNCHANGED <<file, known, born, commits>>

(* The batches an append may carry. *)
AppendKinds == {<<"message">>, <<"message", "custom">>}
EntryKinds == {<<"entry">>, <<"message", "entry">>}
Batch(kinds, op) == [i \in DOMAIN kinds |-> Line(kinds[i], op)]

Seen(c, K) == IF known[c] = None THEN << >> ELSE Kinds(known[c].seen, K)
HeldSeq(c) == IF known[c] = None THEN 0 ELSE known[c].seq
Kept(K) == IF file = None THEN << >> ELSE Kinds(read_lines(file.lines), K)

RewriteJob(c, seq, lines, answers) ==
  [kind |-> "rewrite", client |-> c, seq |-> seq, answers |-> answers,
   new |-> Rewritten(seq, lines)]

(* save and save_full: the caller's messages, one more, and what messages  *)
(* do not own.  save_full sets the state and returns the new metadata.     *)
BeginSave(c, full) ==
  /\ Start /\ check_sequence(c)
  /\ LET own   == Append(Seen(c, {"message", "custom"}), Line("message", writes'))
         kept  == Kept({"state", "entry"})
         tail  == IF full THEN upsert_state(kept, writes') ELSE kept
     IN  job' = RewriteJob(c, HeldSeq(c) + 1, own \o tail, full)
  /\ Unstarted

BeginSaveEntries(c) ==
  /\ Start /\ check_sequence(c)
  /\ LET own == Append(Seen(c, {"message", "entry"}), Line("entry", writes'))
     IN  job' = RewriteJob(c, HeldSeq(c) + 1, own \o Kept({"state", "custom"}), FALSE)
  /\ Unstarted

(* The lines of an append, in the order they are written. *)
append_records_in_place(batch, seq) ==
  <<Line("begin", 0)>> \o batch \o <<Line("meta", seq)>>

(* In place when the new metadata line fits the slot of the old one, and a *)
(* rewrite that keeps every committed line otherwise.                      *)
AppendJob(c, seq, batch, answers) ==
  \/ job' = [kind |-> "append", client |-> c, seq |-> seq, answers |-> answers,
             todo |-> append_records_in_place(batch, seq), phase |-> "text"]
  \/ job' = RewriteJob(c, seq, read_lines(file.lines) \o batch, answers)

(* append: no sequence check. *)
BeginAppend(c) ==
  /\ Start /\ Readable(file)
  /\ \E kinds \in AppendKinds :
       AppendJob(c, find_last_meta_commit(file) + 1, Batch(kinds, writes'), FALSE)
  /\ Unstarted

BeginAppendEntries(c) ==
  /\ Start /\ Readable(file) /\ check_sequence(c)
  /\ \E kinds \in EntryKinds :
       AppendJob(c, HeldSeq(c) + 1, Batch(kinds, writes'), TRUE)
  /\ Unstarted

BeginSaveState(c) ==
  /\ Start /\ Readable(file)
  /\ job' = RewriteJob(c, find_last_meta_commit(file) + 1,
                       upsert_state(read_lines(file.lines), writes'), FALSE)
  /\ Unstarted

-----------------------------------------------------------------------------
(* The temporary file is renamed over the target. *)
Rename ==
  /\ job.kind = "rewrite"
  /\ file' = job.new
  /\ born' = IF file = None THEN born + 1 ELSE born
  /\ commits' = commits \cup {writes}
  /\ job' = [job EXCEPT !.kind = "done"]
  /\ UNCHANGED <<known, writes>>

(* Text written at the end of the file; after an unfinished line it joins  *)
(* that line, and neither parses.                                          *)
AtEnd(f, l) ==
  [f EXCEPT !.lines = IF f.closed THEN Append(@, l) ELSE [@ EXCEPT ![Len(@)] = Junk],
            !.closed = FALSE]

WriteText ==
  /\ job.kind = "append" /\ job.phase = "text"
  /\ file' = AtEnd(file, Head(job.todo))
  /\ commits' = IF Head(job.todo).kind = "meta" THEN commits \cup {writes} ELSE commits
  /\ job' = [job EXCEPT !.phase = "newline"]
  /\ UNCHANGED <<known, writes, born>>

WriteNewline ==
  /\ job.kind = "append" /\ job.phase = "newline"
  /\ file' = [file EXCEPT !.closed = TRUE]
  /\ job' = [job EXCEPT !.todo = Tail(@), !.phase = "text",
                        !.kind = IF Len(job.todo) = 1 THEN "patch" ELSE "append"]
  /\ UNCHANGED <<known, writes, born, commits>>

(* The leading line is overwritten with the new text, then padded: until   *)
(* then a longer old line shows behind a shorter new one.                  *)
PatchText ==
  /\ job.kind = "patch"
  /\ \E longer \in BOOLEAN : file' = [file EXCEPT !.head = job.seq, !.sound = ~longer]
  /\ job' = [job EXCEPT !.kind = "pad"]
  /\ UNCHANGED <<known, writes, born, commits>>

PatchPad ==
  /\ job.kind = "pad"
  /\ file' = [file EXCEPT !.sound = TRUE]
  /\ job' = [job EXCEPT !.kind = "done"]
  /\ UNCHANGED <<known, writes, born, commits>>

Loaded == [seq |-> find_last_meta_commit(file), seen |-> Records(file), born |-> born]

(* The write returns, and the lock is released. *)
Answer ==
  /\ job.kind = "done"
  /\ known' = IF job.answers THEN [known EXCEPT ![job.client] = Loaded] ELSE known
  /\ job' = Idle
  /\ UNCHANGED <<file, writes, born, commits>>

-----------------------------------------------------------------------------
Load(c) ==
  /\ job = Idle /\ Readable(file)
  /\ known' = [known EXCEPT ![c] = Loaded]
  /\ UNCHANGED <<file, job, writes, born, commits>>

Delete ==
  /\ job = Idle /\ file # None
  /\ file' = None
  /\ UNCHANGED <<job, known, writes, born, commits>>

(* The file as a crash or a failed write leaves it. *)
Interrupted ==
  IF ~Tearing THEN {file}
  ELSE {file} \cup (IF job.kind = "append" /\ job.phase = "text"
                    THEN {AtEnd(file, Junk)} ELSE {})
              \cup (IF job.kind = "patch"
                    THEN {[file EXCEPT !.sound = FALSE]} ELSE {})

Whole == file # None => file.closed /\ file.sound

(* A write returns an error: nothing is undone. *)
Fail ==
  /\ job # Idle /\ (~Tearing => Whole)
  /\ file' \in Interrupted
  /\ job' = Idle
  /\ UNCHANGED <<known, writes, born, commits>>

(* The process dies and starts again: callers have to load. *)
Crash ==
  /\ ~Tearing => Whole
  /\ file' \in Interrupted
  /\ job' = Idle
  /\ known' = [c \in Clients |-> None]
  /\ UNCHANGED <<writes, born, commits>>

SessionNext ==
  \/ \E c \in Clients :
       \/ \E full \in BOOLEAN : BeginSave(c, full)
       \/ BeginSaveEntries(c)
       \/ BeginAppend(c)
       \/ BeginAppendEntries(c)
       \/ BeginSaveState(c)
       \/ Load(c)
  \/ Rename \/ WriteText \/ WriteNewline \/ PatchText \/ PatchPad \/ Answer
  \/ Delete \/ Fail \/ Crash

SessionSpec == SessionInit /\ [][SessionNext]_sessionVars

-----------------------------------------------------------------------------
(* What a reader finds; a session whose leading line does not parse cannot *)
(* be loaded at all.                                                       *)
Store == INSTANCE SessionStore WITH
  Batches <- {Batch(kinds, op) : kinds \in AppendKinds \cup EntryKinds,
                                 op \in 1 .. MaxWrites},
  session <- IF file = None THEN None
             ELSE IF job = Idle /\ ~Readable(file) THEN [seq |-> 0, records |-> << >>]
             ELSE [seq |-> find_last_meta_commit(file), records |-> Records(file)],
  held    <- [c \in Clients |-> IF known[c] = None THEN None ELSE known[c].seq]

(* The file implements the atomic store: a reader finds a batch whole or   *)
(* not at all, whatever crash or error cut which append short, and a       *)
(* stale leading line never brings an old sequence number back             *)
(* (append_records_in_place, read_meta_and_message_lines).                 *)
AtomicWrites == Store!StoreSpec

(* A save takes away only records its caller has loaded: the sequence      *)
(* check keeps it from overwriting what another caller, or an append whose *)
(* answer was lost, has added (check_sequence_path).  A session deleted    *)
(* and created anew may repeat a sequence number, so the caller's copy     *)
(* must be of this file.                                                   *)
NoLostUpdate ==
  [][ LET copy == known[job.client]
      IN  job # Idle /\ file # None /\ file' # None /\ copy # None /\ copy.born = born
            => RecordSet(file) \ RecordSet(file')
                 \subseteq {copy.seen[i] : i \in DOMAIN copy.seen}
                           \cup {r \in RecordSet(file) : r.kind = "state"}
    ]_<<file, born>>

(* jsonl_tests.rs: "record lines after an unclosed append-begin marker are *)
(* uncommitted", and memory/README.md: "partial writes cannot corrupt a    *)
(* session": a reader sees only records of writes that were committed.     *)
OnlyCommitted ==
  job = Idle /\ file # None =>
    \A i \in DOMAIN Records(file) : Records(file)[i].op \in commits
=============================================================================
