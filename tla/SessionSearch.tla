--------------------------- MODULE SessionSearch ---------------------------
(* What the memory crate keeps beside the session files: the search index of  *)
(* JsonlSessionStore (memory/src/search, jsonl.rs), the checkpoint files with  *)
(* their retention (checkpoint_store.rs) and the migration of old sessions     *)
(* (migrate.rs).  A behaviour studies one subject: "index", "checkpoints" or   *)
(* "migration".  The files themselves are the subject of SessionLog.           *)
EXTENDS Integers, Sequences, SequencesExt, FiniteSetsExt

CONSTANTS SearchSessions,  \* session ids
          SearchEntries,   \* entries that may be saved: [type, time, terms], each with some text
          SearchFilters,   \* options of a search: [sessions, types, times]
          MaxEntries,      \* entries of a session
          MaxMishaps,      \* failed index commits and deaths of the process
          Overlap,         \* whether a search may run while a write is under way
          HitLimit,        \* max_results
          FetchFactor, FetchFloor, \* how many documents per result, and how many at least, a search fetches
          MaxCheckpoints,  \* checkpoints saved, each newer than the last
          KeepCheckpoints, \* max_checkpoints
          Savers,          \* tasks that save checkpoints
          Migrators,       \* registered migrators: [from, to, does], does in "same", "add", "drop"
          CurrentVersion,  \* the version a session is brought to
          MaxLines         \* lines of a stored session

VARIABLES searchSubject,
          files,           \* session -> its entries, none without a file
          docs,            \* session -> the entries its committed documents hold
          index,           \* [open, built, lapsed]: of the running process
          mishaps,         \* commits failed and processes died so far
          writer,          \* the index update a write still has to make
          finder,          \* where a search or a rebuild is
          checkpoints,     \* numbers of the checkpoints on disk, the higher the newer
          saved, removed,  \* checkpoints saved so far; those deleted by a caller
          saver,           \* task -> what it is doing
          stored           \* the session being migrated: [version, lines, result]

searchVars == <<searchSubject, files, docs, index, mishaps, writer, finder, checkpoints, saved, removed, saver, stored>>

\* A session without a file looks to a search like one without entries.
Gone == <<>>
Exists(s) == files[s] # Gone

-----------------------------------------------------------------------------
(* Searching. *)

\* Any term is enough for the index; the linear scan asks for every one.
query_terms == UNION {e.terms : e \in SearchEntries}
search_entry(e, terms) == terms # {} /\ terms \subseteq e.terms
entry_matches_type(e, options) == options.types = {} \/ e.type \in options.types
entry_matches_time_range(e, options) == e.time \in options.times

Wanted(s, e, options) ==
    /\ options.sessions = {} \/ s \in options.sessions
    /\ entry_matches_type(e, options) /\ entry_matches_time_range(e, options)

\* Hits are positions <<session, place>>; the scan too is cut at the limit, after these.
linear_search(terms, options) ==
    {h \in UNION {{s} \X DOMAIN files[s] : s \in {s \in SearchSessions : Exists(s)}} :
        Wanted(h[1], files[h[1]][h[2]], options) /\ search_entry(files[h[1]][h[2]], terms)}

\* The best documents are fetched first, filtered then, and cut at the limit.  The ranking is
\* left open: an answer is what any order of the documents gives.
Best(n, hits) == kSubset(Min({n, Cardinality(hits)}), hits)
fetch == Max({HitLimit * FetchFactor, FetchFloor})
MatchingDocs(terms) ==
    {h \in UNION {{s} \X DOMAIN docs[s] : s \in SearchSessions} : docs[h[1]][h[2]].terms \cap terms # {}}
\* Cut before it is filtered.
cut_first(terms, options) ==
    {{h \in top : Wanted(h[1], docs[h[1]][h[2]], options)} : top \in Best(HitLimit, MatchingDocs(terms))}
index_search(terms, options) ==
    UNION {Best(HitLimit, {h \in top : Wanted(h[1], docs[h[1]][h[2]], options)}) :
              top \in Best(fetch, MatchingDocs(terms))}

-----------------------------------------------------------------------------
(* The index beside the files. *)

NoUpdate == [is |-> "none", s |-> "none", entries |-> <<>>]
NoFinder == [is |-> "idle", left |-> {}, s |-> "none", entries |-> <<>>]
indexFrame == searchSubject = "index" /\ UNCHANGED <<searchSubject, checkpoints, saved, removed, saver, stored>>
\* One writer at a time, as the store asks of its callers.
MayWrite == writer = NoUpdate /\ (Overlap \/ finder = NoFinder)

Update(kind, s, entries) == [is |-> kind, s |-> s, entries |-> entries]
\* save_entries and delete open the index; save and append update one that is open.
IfOpen(update) == IF index.open THEN update ELSE NoUpdate

save_entries(s) ==
    /\ MayWrite /\ indexFrame /\ UNCHANGED <<docs, mishaps, finder>>
    /\ \E e \in SearchEntries :
        /\ files' = [files EXCEPT ![s] = <<e>>]
        /\ writer' = Update("replace", s, <<e>>) /\ index' = [index EXCEPT !.open = TRUE]

save(s) ==
    /\ MayWrite /\ indexFrame /\ UNCHANGED <<docs, mishaps, finder, index>>
    /\ \E e \in SearchEntries : files' = [files EXCEPT ![s] = <<e>>]
    /\ writer' = IfOpen(Update("refresh", s, <<>>))

append_entries(s) ==
    /\ MayWrite /\ Exists(s) /\ Len(files[s]) < MaxEntries /\ indexFrame /\ UNCHANGED <<docs, mishaps, finder, index>>
    /\ \E e \in SearchEntries :
        /\ files' = [files EXCEPT ![s] = Append(@, e)]
        /\ writer' = IfOpen(Update("append", s, <<e>>))

delete(s) ==
    /\ MayWrite /\ Exists(s) /\ indexFrame /\ UNCHANGED <<docs, mishaps, finder>>
    /\ files' = [files EXCEPT ![s] = Gone]
    /\ writer' = Update("delete", s, <<>>) /\ index' = [index EXCEPT !.open = TRUE]

\* index_session replaces a session's documents, append_session_entries adds to them.
Indexed(u) ==
    CASE u.is = "replace" -> [docs EXCEPT ![u.s] = u.entries]
      [] u.is = "refresh" -> IF Exists(u.s) THEN [docs EXCEPT ![u.s] = files[u.s]] ELSE docs
      [] u.is = "append" -> [docs EXCEPT ![u.s] = @ \o u.entries]
      [] u.is = "delete" -> [docs EXCEPT ![u.s] = <<>>]

\* Best effort: a commit that fails is logged and rolled back.
CommitUpdate ==
    /\ writer # NoUpdate /\ indexFrame /\ UNCHANGED <<files, finder>> /\ writer' = NoUpdate
    /\ \/ docs' = Indexed(writer) /\ UNCHANGED <<index, mishaps>>
       \/ mishaps < MaxMishaps /\ mishaps' = mishaps + 1 /\ index' = [index EXCEPT !.lapsed = @ \cup {writer.s}] /\ UNCHANGED docs

\* The first search of a process indexes every session; rebuild_search_index starts from nothing.
with_tantivy_index ==
    /\ finder = NoFinder /\ (Overlap \/ writer = NoUpdate) /\ indexFrame /\ UNCHANGED <<files, mishaps, writer>>
    /\ index' = [index EXCEPT !.open = TRUE]
    /\ \E left \in {{s \in SearchSessions : Exists(s)}} :
        \/ ~index.built /\ finder' = [NoFinder EXCEPT !.is = "search", !.left = left] /\ UNCHANGED docs
        \/ /\ finder' = [NoFinder EXCEPT !.is = "rebuild", !.left = left]
           /\ docs' = [s \in SearchSessions |-> <<>>]

build_index_if_empty ==
    /\ finder # NoFinder /\ indexFrame /\ UNCHANGED <<files, mishaps, writer>>
    /\ \/ \E s \in finder.left :
            /\ finder.s = "none" /\ UNCHANGED <<docs, index>>
            /\ finder' = IF Exists(s) THEN [finder EXCEPT !.left = @ \ {s}, !.s = s, !.entries = files[s]]
                         ELSE NoFinder
       \/ /\ finder.s # "none" /\ UNCHANGED index
          /\ docs' = [docs EXCEPT ![finder.s] = finder.entries]
          /\ finder' = [finder EXCEPT !.s = "none", !.entries = <<>>]
       \/ /\ finder.s = "none" /\ finder.left = {} /\ finder' = NoFinder /\ UNCHANGED docs
          /\ index' = [index EXCEPT !.built = @ \/ finder.is = "search", !.lapsed = {}]

\* The process dies: files and committed documents stay.
StoreDies ==
    /\ indexFrame /\ UNCHANGED <<files, docs>> /\ index.open
    /\ mishaps < MaxMishaps /\ mishaps' = mishaps + 1
    /\ index' = [open |-> FALSE, built |-> FALSE, lapsed |-> {}]
    /\ writer' = NoUpdate /\ finder' = NoFinder

-----------------------------------------------------------------------------
(* Checkpoints: every save runs in a blocking task of its own. *)
SaverIdle == [at |-> "idle", doomed |-> {}]
checkpointFrame == searchSubject = "checkpoints" /\ UNCHANGED <<searchSubject, files, docs, index, mishaps, writer, finder, stored>>

\* prune_to: what it read of the directory, without the newest ones.
Doomed(found) == {c \in found : Cardinality({d \in found : d > c}) >= KeepCheckpoints}

save_checkpoint(t) ==
    /\ saver[t].at = "idle" /\ saved < MaxCheckpoints /\ checkpointFrame /\ UNCHANGED removed
    /\ saved' = saved + 1 /\ checkpoints' = checkpoints \cup {saved + 1}
    /\ saver' = [saver EXCEPT ![t].at = "written"]

prune_to(t) ==
    /\ checkpointFrame /\ UNCHANGED <<saved, removed>>
    /\ \/ /\ saver[t].at = "written" /\ UNCHANGED checkpoints
          /\ saver' = [saver EXCEPT ![t] = [at |-> "pruning", doomed |-> Doomed(checkpoints)]]
       \/ /\ saver[t].at = "pruning" /\ saver[t].doomed # {}
          /\ \E c \in saver[t].doomed :
                /\ saver' = [saver EXCEPT ![t].doomed = @ \ {c}]
                /\ checkpoints' \in {checkpoints \ {c}, checkpoints}
       \/ /\ saver[t].at = "pruning" /\ saver[t].doomed = {} /\ UNCHANGED checkpoints
          /\ saver' = [saver EXCEPT ![t] = SaverIdle]

delete_checkpoint ==
    /\ checkpointFrame /\ UNCHANGED <<saved, saver>>
    /\ \E c \in checkpoints : checkpoints' = checkpoints \ {c} /\ removed' = removed \cup {c}

-----------------------------------------------------------------------------
(* Migration: entries are brought to the current version, other lines pass. *)
SearchEntry(n) == [is |-> "entry", n |-> n]
IsEntry(line) == line.is = "entry"

migrate(m, entries) ==
    CASE m.does = "same" -> entries
      [] m.does = "add" -> Append(entries, SearchEntry(Len(entries) + 10))
      [] m.does = "drop" -> IF entries = <<>> THEN <<>> ELSE Tail(entries)

Slot(lines, i) == Cardinality({j \in 1..i : IsEntry(lines[j])})
weave_migrated_entries(lines, migrated) ==
    LET count == Slot(lines, Len(lines))
        Woven(i) == IF ~IsEntry(lines[i]) THEN <<lines[i]>>
                    ELSE IF Len(migrated) = count THEN <<migrated[Slot(lines, i)]>>
                    ELSE IF Slot(lines, i) = 1 THEN migrated ELSE <<>>
    IN  FlattenSeq([i \in DOMAIN lines |-> Woven(i)]) \o (IF count = 0 THEN migrated ELSE <<>>)

\* A line that does not parse is dropped; the others are entries or pass-through wrappers.
classify_and_migrate(lines) == SelectSeq(lines, LAMBDA line : line.is # "torn")

migrationFrame ==
    searchSubject = "migration" /\ UNCHANGED <<searchSubject, files, docs, index, mishaps, writer, finder, checkpoints, saved, removed, saver>>

StoreLine ==
    /\ migrationFrame /\ stored.at = "writing" /\ Len(stored.lines) < MaxLines
    /\ \E kind \in {"entry", "custom", "torn"} :
        stored' = [stored EXCEPT !.lines = Append(@, [is |-> kind, n |-> Len(stored.lines)])]

LoadOld ==
    /\ migrationFrame /\ stored.at = "writing"
    /\ \E read \in {classify_and_migrate(stored.lines)}, v \in 0..(CurrentVersion + 1) :
        stored' = [stored EXCEPT !.at = IF v > CurrentVersion THEN "refused" ELSE "migrating", !.version = v,
                                 !.lines = read, !.entries = SelectSeq(read, IsEntry)]

\* The first migrator of the version runs; without one the load fails.
run_migrations ==
    /\ migrationFrame /\ stored.at = "migrating"
    /\ IF stored.version < CurrentVersion
       THEN \E here \in {SelectSeq(Migrators, LAMBDA m : m.from = stored.version)} :
            stored' = IF here = <<>> THEN [stored EXCEPT !.at = "refused"]
                      ELSE [stored EXCEPT !.version = here[1].to, !.entries = migrate(here[1], @)]
       ELSE stored' = [stored EXCEPT !.at = "loaded",
                                     !.result = weave_migrated_entries(stored.lines, stored.entries)]

-----------------------------------------------------------------------------
SearchInit ==
    /\ searchSubject \in {"index", "checkpoints", "migration"}
    /\ files = [s \in SearchSessions |-> Gone] /\ docs = [s \in SearchSessions |-> <<>>]
    /\ index = [open |-> FALSE, built |-> FALSE, lapsed |-> {}]
    /\ mishaps = 0 /\ writer = NoUpdate /\ finder = NoFinder
    /\ checkpoints = {} /\ saved = 0 /\ removed = {} /\ saver = [t \in Savers |-> SaverIdle]
    /\ stored = [at |-> "writing", version |-> 0, lines |-> <<>>, entries |-> <<>>, result |-> <<>>]

SearchNext ==
    \/ \E s \in SearchSessions : save_entries(s) \/ save(s) \/ append_entries(s) \/ delete(s)
    \/ CommitUpdate \/ with_tantivy_index \/ build_index_if_empty \/ StoreDies
    \/ \E t \in Savers : save_checkpoint(t) \/ prune_to(t)
    \/ delete_checkpoint
    \/ StoreLine \/ LoadOld \/ run_migrations

-----------------------------------------------------------------------------
(* Once a process has built the index, the documents of every session are its *)
(* entries, each once: through saves, appends, rebuilds and restarts that cut  *)
(* an update short.  A search then gives only hits a scan of the files would   *)
(* give, whatever the filter, and fewer than the limit only when it has them   *)
(* all, but for those its own fetch had no room for.                           *)
Short(terms) == Max({0, Cardinality(MatchingDocs(terms)) - fetch})
Finds(answer, hits, terms) ==
    /\ {h \in answer : Exists(h[1])} \subseteq hits
    /\ Cardinality(answer) = HitLimit \/ Cardinality(hits \ answer) <= Short(terms)
SearchComplete ==
    (index.built /\ writer = NoUpdate /\ finder = NoFinder) =>
        /\ \A s \in SearchSessions \ index.lapsed : Exists(s) => docs[s] = files[s]
        /\ index.lapsed = {} =>
            \A term \in query_terms, options \in SearchFilters : \A answer \in index_search({term}, options) :
                Finds(answer, linear_search({term}, options), {term})

(* Retention never removes one of the newest: a checkpoint is missing only     *)
(* when a caller deleted it or enough newer ones were saved, however the       *)
(* saves and their prunes overlap.                                             *)
NewestKept ==
    \A c \in 1..saved : c \in checkpoints \/ c \in removed \/ saved - c >= KeepCheckpoints

(* Migration loses nothing: every line that is no entry keeps its order, every *)
(* migrated entry is there once, in order, and a count that did not change     *)
(* leaves each line in its place.                                              *)
MigrationWhole ==
    stored.at = "loaded" =>
        /\ SelectSeq(stored.result, LAMBDA l : ~IsEntry(l)) = SelectSeq(stored.lines, LAMBDA l : ~IsEntry(l))
        /\ SelectSeq(stored.result, IsEntry) = stored.entries
        /\ Len(stored.entries) = Slot(stored.lines, Len(stored.lines)) =>
            \A i \in DOMAIN stored.lines : stored.result[i].is = stored.lines[i].is

MemoryKept == SearchComplete /\ NewestKept /\ MigrationWhole
=============================================================================
