--------------------------- MODULE WorkspaceTools ---------------------------
(* The built-in tools (src/tools, atomic_fs.rs).  A behaviour studies one     *)
(* subject: "files", concurrent edit_file and write_file calls of one batch    *)
(* and the locks between them; "text", what an edit does to a text; "paths",  *)
(* where a path given under an execution root leads while links come and go;  *)
(* "shell", one bash call against its child, the token and the timeout.        *)
EXTENDS Integers, Sequences, SequencesExt, FiniteSetsExt

CONSTANTS FileCalls,      \* edit_file and write_file calls
          Targets,        \* files the calls work on
          PruneAt,        \* lock map size from which dead locks are pruned
          Texts,          \* texts to edit: sequences of symbols, "n" a newline, "_" a blank
          Edits,          \* edit operations: [old, new, all, hint], hint 0 for none
          MaxTextEdits,   \* edits applied to a text
          LinkTargets,    \* where the link of the workspace may point: normalized absolute paths
          GivenPaths,     \* paths given to the tools: [absolute, names]
          MaxOutput       \* bytes of output a tool returns

VARIABLES toolSubject,
          content,        \* target -> the calls whose effect the file holds
          due,            \* target -> edits no write has replaced since
          locks,          \* target -> the lock the map names for it, 0 none
          call,           \* call -> its tool, target, place in the code, lock and what it read
          text, edited,   \* the text and how many edits it has had
          tree,           \* absolute path -> [is, to]
          shell           \* the bash call and its child

toolVars == <<toolSubject, content, due, locks, call, text, edited, tree, shell>>

-----------------------------------------------------------------------------
(* Edits. *)

Slice(s, i, j) == SubSeq(s, i, j)
OccursAt(s, pattern, i) == i + Len(pattern) - 1 <= Len(s) /\ Slice(s, i, i + Len(pattern) - 1) = pattern

\* Occurrences from left to right, none overlapping the one before: ranges <<first, last>>.
Leftmost(ranges) ==
    FoldLeft(LAMBDA taken, r : IF taken = <<>> \/ taken[Len(taken)][2] < r[1] THEN Append(taken, r) ELSE taken,
             <<>>, SetToSortSeq(ranges, LAMBDA a, b : a[1] < b[1]))

find_exact(s, pattern) ==
    Leftmost({<<i, i + Len(pattern) - 1>> : i \in {i \in DOMAIN s : OccursAt(s, pattern, i)}})

Newlines(s) == {i \in DOMAIN s : s[i] = "n"}
\* The lines of a text: where each begins and ends (an empty one ends before it begins).
line_spans(s) ==
    LET ends == SetToSortSeq(Newlines(s) \cup {Len(s) + 1}, LAMBDA a, b : a < b)
    IN  [k \in DOMAIN ends |-> <<IF k = 1 THEN 1 ELSE ends[k - 1] + 1, ends[k] - 1>>]
trim_end(s) ==
    LET solid == {i \in DOMAIN s : s[i] # "_"}
    IN  IF solid = {} THEN <<>> ELSE Slice(s, 1, Max(solid))
trim_newlines(s) ==
    LET solid == {i \in DOMAIN s : s[i] # "n"}
    IN  IF solid = {} THEN <<>> ELSE Slice(s, Min(solid), Max(solid))
Trimmed(s, rows) == [k \in DOMAIN rows |-> trim_end(Slice(s, rows[k][1], rows[k][2]))]
LineTexts(s) == Trimmed(s, line_spans(s))

\* Whole lines, compared without their trailing blanks.
RowsAt(have, wanted) ==
    Leftmost({<<k, k + Len(wanted) - 1>> : k \in {k \in DOMAIN have : OccursAt(have, wanted, k)}})
Bytes(lines, rows) == [r \in DOMAIN rows |-> <<lines[rows[r][1]][1], lines[rows[r][2]][2]>>]
find_normalized(s, given) ==
    IF given = <<>> THEN <<>> ELSE Bytes(line_spans(s), RowsAt(LineTexts(s), LineTexts(given)))

line_number_at(s, i) == Cardinality({j \in Newlines(s) : j < i}) + 1
Distance(s, r, hint) == LET d == line_number_at(s, r[1]) - hint IN IF d < 0 THEN -d ELSE d

replace_ranges(s, ranges, new) ==
    LET parts == [k \in DOMAIN ranges |->
                    Slice(s, IF k = 1 THEN 1 ELSE ranges[k - 1][2] + 1, ranges[k][1] - 1) \o new]
    IN  FlattenSeq(parts) \o Slice(s, ranges[Len(ranges)][2] + 1, Len(s))

Refused == [is |-> "error", text |-> <<>>]
Ok(s) == [is |-> "ok", text |-> s]
OrElse(found, other) == IF found # <<>> THEN found ELSE other
Candidates(s, op) == OrElse(find_exact(s, op.old), find_normalized(s, trim_newlines(op.old)))
Nearest(s, ranges, hint) ==
    LET best == {k \in DOMAIN ranges : \A j \in DOMAIN ranges :
                    Distance(s, ranges[k], hint) <= Distance(s, ranges[j], hint)}
    IN  ranges[Min(best)]

Replacing(s, op, found) ==
    IF found = <<>> THEN Refused
    ELSE IF op.all \/ Len(found) = 1 THEN Ok(replace_ranges(s, found, op.new))
    ELSE IF op.hint = 0 THEN Refused
    ELSE Ok(replace_ranges(s, <<Nearest(s, found, op.hint)>>, op.new))
apply_op(s, op) == IF op.old = <<>> THEN Refused ELSE Replacing(s, op, Candidates(s, op))

\* All the edits of a call or none.
edit_file_unlocked(s, ops) ==
    FoldLeft(LAMBDA done, op : IF done.is = "ok" THEN apply_op(done.text, op) ELSE done, Ok(s), ops)

-----------------------------------------------------------------------------
(* Paths: a sequence of names from the root of the file system. *)

Root == <<"r">>
Under(path) == Len(path) >= 1 /\ path[1] = "r"
NoEntry == [is |-> "none", to |-> <<>>]
Dir == [is |-> "dir", to |-> <<>>]
Node(path) == IF path \in DOMAIN tree THEN tree[path] ELSE NoEntry
Missing == <<"missing">>

normalize(names) ==
    FoldLeft(LAMBDA p, c : IF c = "." THEN p ELSE IF c = ".." THEN (IF p = <<>> THEN p ELSE Front(p))
                           ELSE Append(p, c), <<>>, names)

\* canonicalize: every name must exist; a link leads on to its target.
Follow(p, n, c) ==
    IF n.is = "none" \/ (n.is = "link" /\ Node(n.to).is = "none") THEN Missing
    ELSE IF n.is = "link" THEN n.to ELSE Append(p, c)
canonicalize(path) ==
    FoldLeft(LAMBDA p, c : IF p = Missing THEN p ELSE Follow(p, Node(Append(p, c)), c), <<>>, path)
try_exists(path) == canonicalize(path) # Missing
\* symlink_metadata: the last name itself is not followed.
Entry(parent, name) == IF parent = Missing THEN NoEntry ELSE Node(Append(parent, name))
symlink_metadata(path) == IF path = <<>> THEN Dir ELSE Entry(canonicalize(Front(path)), path[Len(path)])
LinkAt(path) == symlink_metadata(path).is = "link"

Escapes == <<"escapes">>
Within(path) == IF Under(path) THEN path ELSE Escapes
candidate_path(given) ==
    IF given.absolute THEN normalize(given.names) ELSE Within(normalize(Root \o given.names))

\* The longest existing proper prefix.
nearest_existing_ancestor(path) ==
    SubSeq(path, 1, Max({k \in 0..(Len(path) - 1) : try_exists(SubSeq(path, 1, k))}))

Existing(p) == IF p = Escapes THEN Escapes ELSE Within(canonicalize(p))
resolve_existing_path(given) == Existing(candidate_path(given))

AncestorInside(path) == Under(canonicalize(nearest_existing_ancestor(path)))
Dangling(to) == IF Under(to) /\ Node(to).is = "none" /\ AncestorInside(to) THEN to ELSE Escapes
resolve_dangling_symlink(path) == Dangling(symlink_metadata(path).to)

Writable(p) ==
    IF p = Escapes THEN Escapes
    ELSE IF try_exists(p) THEN Within(canonicalize(p))
    ELSE IF LinkAt(p) THEN resolve_dangling_symlink(p)
    ELSE IF AncestorInside(p) THEN p ELSE Escapes
resolve_writable_path(given) == Writable(candidate_path(given))

\* What the approval of a write shows: the file the path names now, or the path as given.
Previewed(p) == IF p = Escapes THEN Escapes ELSE IF try_exists(p) THEN Within(canonicalize(p)) ELSE Within(p)
resolve_readable_path_blocking(given) == Previewed(candidate_path(given))

\* Where a write of the path ends up; directories are made, but not through a dangling link.
Made(path, base) ==
    IF \E k \in (Len(base) + 1)..Len(path) : LinkAt(SubSeq(path, 1, k)) THEN Missing
    ELSE canonicalize(base) \o SubSeq(path, Len(base) + 1, Len(path))
Landing(path) == IF try_exists(path) THEN canonicalize(path) ELSE Made(path, nearest_existing_ancestor(path))

-----------------------------------------------------------------------------
NoFileCall == [tool |-> "none", target |-> 0, at |-> "idle", lock |-> 0, seen |-> {}]
\* A stream of the child: the bytes kept of it, and what they are long as text.
NoBytes == [kept |-> 0, text |-> 0]
NoShell == [call |-> "none", child |-> "none", out |-> NoBytes, err |-> NoBytes, shown |-> <<0, 0>>]
Workspace == [p \in {<<>>, <<"r">>, <<"o">>, <<"o", "f">>} |-> IF p = <<"o", "f">> THEN [Dir EXCEPT !.is = "file"] ELSE Dir]

ToolsInit ==
    /\ toolSubject \in {"files", "text", "paths", "shell"}
    /\ content = [p \in Targets |-> {}] /\ due = content /\ locks = [p \in Targets |-> 0]
    /\ call = [c \in FileCalls |-> NoFileCall]
    /\ text \in (IF toolSubject = "text" THEN Texts ELSE {<<>>}) /\ edited = 0
    /\ tree = Workspace /\ shell = NoShell

filesFrame == toolSubject = "files" /\ UNCHANGED <<toolSubject, text, edited, tree, shell>>

\* The tool is called on a resolved path; the hash is that of the file when it was last read.
CallTool(c) ==
    /\ call[c].at = "idle"
    /\ \E tool \in {"edit", "hashed", "write"}, p \in Targets :
        call' = [call EXCEPT ![c] = [tool |-> tool, target |-> p, at |-> "called", lock |-> 0, seen |-> content[p]]]
    /\ filesFrame /\ UNCHANGED <<content, due, locks>>

Live(l) == l # 0 /\ \E c \in FileCalls : call[c].lock = l
Cleared(map) == IF Cardinality({p \in Targets : map[p] # 0}) >= PruneAt THEN [p \in Targets |-> 0] ELSE map
Pruned(map) == IF Cardinality({p \in Targets : map[p] # 0}) >= PruneAt
               THEN [p \in Targets |-> IF Live(map[p]) THEN map[p] ELSE 0] ELSE map

\* The map holds locks weakly: one that nobody holds any more is replaced.  A lock is a number
\* no live lock has; a dead entry with that number is forgotten.
lock_for_target(c) ==
    /\ call[c].at = "called" /\ call[c].tool # "write"
    /\ \E map \in {Pruned(locks)}, p \in {call[c].target} :
        \E l \in {IF Live(map[p]) THEN map[p] ELSE Min({n \in 1..(Cardinality(FileCalls) + 1) : ~Live(n)})} :
            /\ locks' = [q \in Targets |-> IF q = p THEN l ELSE IF map[q] = l THEN 0 ELSE map[q]]
            /\ call' = [call EXCEPT ![c].at = "locking", ![c].lock = l]
    /\ filesFrame /\ UNCHANGED <<content, due>>

Owned(l) == \E c \in FileCalls : call[c].lock = l /\ call[c].at \in {"owner", "read"}
with_target_lock(c) ==
    /\ call[c].at = "locking" /\ ~Owned(call[c].lock)
    /\ call' = [call EXCEPT ![c].at = "owner"]
    /\ filesFrame /\ UNCHANGED <<content, due, locks>>

Finished(c) == [call EXCEPT ![c] = [NoFileCall EXCEPT !.at = "done"]]

\* The file is read; a hash that does not match ends the call, and so does an edit that does not apply.
EditReads(c) ==
    /\ call[c].at = "owner"
    /\ IF call[c].tool = "hashed" /\ content[call[c].target] # call[c].seen THEN call' = Finished(c)
       ELSE call' \in {[call EXCEPT ![c].at = "read", ![c].seen = content[call[c].target]], Finished(c)}
    /\ filesFrame /\ UNCHANGED <<content, due, locks>>

\* A temporary file takes the target's place in one step, or the write fails and nothing changes.
atomic_write_inner(c) ==
    /\ call[c].at = "read" /\ call' = Finished(c)
    /\ \/ /\ content' = [content EXCEPT ![call[c].target] = call[c].seen \cup {c}]
          /\ due' = [due EXCEPT ![call[c].target] = @ \cup {c}]
       \/ UNCHANGED <<content, due>>
    /\ filesFrame /\ UNCHANGED locks

\* write_file takes no lock: the file is emptied and then filled.
WriteFile(c) ==
    /\ call[c].tool = "write" /\ filesFrame /\ UNCHANGED locks
    /\ \E p \in {call[c].target} :
        \/ /\ call[c].at = "called" /\ call' = [call EXCEPT ![c].at = "emptied"]
           /\ content' = [content EXCEPT ![p] = {}] /\ due' = [due EXCEPT ![p] = {}]
        \/ /\ call[c].at = "emptied" /\ call' = Finished(c)
           /\ content' = [content EXCEPT ![p] = {c}] /\ due' = [due EXCEPT ![p] = {}]

EditText ==
    /\ toolSubject = "text" /\ edited < MaxTextEdits /\ edited' = edited + 1
    /\ \E ops \in {<<a>> : a \in Edits} \cup {<<a, b>> : a, b \in Edits} :
        \E r \in {edit_file_unlocked(text, ops)} : text' = IF r.is = "ok" THEN r.text ELSE text
    /\ UNCHANGED <<toolSubject, content, due, locks, call, tree, shell>>

\* A directory, a file and a link of the workspace appear and go.
ChangeTree ==
    /\ toolSubject = "paths"
    /\ \E p \in {<<"r", "d">>, <<"r", "d", "f">>, <<"r", "l">>} :
        IF p \in DOMAIN tree
        THEN ~(\E q \in DOMAIN tree : Len(q) > Len(p) /\ IsPrefix(p, q))
             /\ tree' = [q \in DOMAIN tree \ {p} |-> tree[q]]
        ELSE /\ Front(p) \in DOMAIN tree
             /\ \E n \in IF p = <<"r", "l">> THEN {[is |-> "link", to |-> t] : t \in LinkTargets}
                         ELSE IF p = <<"r", "d">> THEN {Dir} ELSE {[Dir EXCEPT !.is = "file"]} :
                    tree' = [q \in DOMAIN tree \cup {p} |-> IF q = p THEN n ELSE tree[q]]
    /\ UNCHANGED <<toolSubject, content, due, locks, call, text, edited, shell>>

-----------------------------------------------------------------------------
(* bash: one child, and the call raced with the token and the timeout. *)
shellFrame == toolSubject = "shell" /\ UNCHANGED <<toolSubject, content, due, locks, call, text, edited, tree>>

Spawn ==
    /\ shell.call = "none" /\ shellFrame
    /\ shell' \in {[shell EXCEPT !.call = "running", !.child = "running"], [shell EXCEPT !.call = "failed"]}

\* At most MaxOutput + 1 bytes of a stream are kept, the rest is read and dropped.  A byte
\* that is no part of a character will be read as one of three bytes.
Kept(stream, width) ==
    IF stream.kept <= MaxOutput THEN [kept |-> stream.kept + 1, text |-> stream.text + width] ELSE stream
read_stream ==
    /\ shell.child = "running" /\ shellFrame
    /\ \E width \in {1, 3} :
        shell' \in {[shell EXCEPT !.out = Kept(@, width)], [shell EXCEPT !.err = Kept(@, width)]}

ChildExits == shell.child = "running" /\ shellFrame /\ shell' = [shell EXCEPT !.child = "exited"]

\* Cut at the limit, or up to three bytes before it where a character would be split.
truncate_utf8_to_boundary(len, max) ==
    IF len <= max THEN {len} ELSE {n \in (max - 3)..max : n >= 0}

\* out and err are the lengths of the two texts.
stdout_budget(out, err) == (MaxOutput * out) \div Max({out + err, 1})
format_output(out, err) ==
    IF out + err <= MaxOutput THEN {<<out, err>>}
    ELSE {<<a, b>> : a \in truncate_utf8_to_boundary(out, stdout_budget(out, err)),
                     b \in truncate_utf8_to_boundary(err, MaxOutput - stdout_budget(out, err))}

Waited ==
    /\ shell.call = "running" /\ shell.child = "exited" /\ shellFrame
    /\ \E shown \in format_output(shell.out.text, shell.err.text) :
        shell' = [shell EXCEPT !.call = "returned", !.shown = shown]

\* The token or the timeout wins: the child is killed and waited for.
Killed ==
    /\ shell.call = "running" /\ shellFrame
    /\ shell' = [shell EXCEPT !.call = "stopped", !.child = IF @ = "running" THEN "killed" ELSE @]

\* read_file keeps as much of one file, which must be text, and returns no half character.
ReadFile ==
    /\ shell.call = "none" /\ shellFrame
    /\ \E len \in 0..(MaxOutput + 1) : \E n \in truncate_utf8_to_boundary(len, MaxOutput) :
        shell' \in {[shell EXCEPT !.call = "failed"],
                    [shell EXCEPT !.call = "returned", !.child = "exited", !.out = [kept |-> len, text |-> len], !.shown = <<n, 0>>]}

ToolsNext ==
    \/ \E c \in FileCalls :
        CallTool(c) \/ lock_for_target(c) \/ with_target_lock(c) \/ EditReads(c) \/ atomic_write_inner(c) \/ WriteFile(c)
    \/ EditText \/ ChangeTree
    \/ ReadFile \/ Spawn \/ read_stream \/ ChildExits \/ Waited \/ Killed

-----------------------------------------------------------------------------
(* No edit is lost to another: with locks looked up, pruned and replaced while *)
(* calls hold them, a file has every edit made since it was last written.      *)
EditsKept == \A p \in Targets : due[p] \subseteq content[p]

(* An edit changes what it names and nothing else: the text before and after   *)
(* the replaced lines is kept, and where several places match one is chosen    *)
(* only by the line hint, as the nearest.                                      *)
Matching(m, op) == m = op.old \/ LineTexts(m) = LineTexts(trim_newlines(op.old))
Splits(op, after) ==
    {<<i, j>> \in (1..(Len(text) + 1)) \X (0..Len(text)) :
        /\ j >= i - 1 /\ Matching(Slice(text, i, j), op)
        /\ after = Slice(text, 1, i - 1) \o op.new \o Slice(text, j + 1, Len(text))}
\* Occurrences that share no symbol with an earlier one.
Apart(old) == {i \in DOMAIN text : OccursAt(text, old, i)
                /\ \A k \in 1..(Len(old) - 1) : i > k => ~OccursAt(text, old, i - k)}
OnePlace(op, after, places) ==
    /\ places # {}
    /\ op.hint = 0 => Cardinality(Apart(op.old)) <= 1
    /\ op.hint # 0 => \E r \in places : \A i \in Apart(op.old) :
                        Distance(text, r, op.hint) <= Distance(text, <<i>>, op.hint)
EditsExact ==
    toolSubject = "text" =>
        \A op \in {op \in Edits : ~op.all} :
            \A r \in {apply_op(text, op)} : r.is = "ok" => OnePlace(op, r.text, Splits(op, r.text))

(* Under an execution root a tool reads and writes inside it, whatever links   *)
(* stand on the way and whichever way the path is written, and the file a      *)
(* write replaces is the one its approval showed.                              *)
PathsContained ==
    toolSubject = "paths" =>
        \A given \in GivenPaths :
            /\ \A p \in {resolve_existing_path(given)} : p # Escapes => Under(canonicalize(p))
            /\ \A p \in {resolve_writable_path(given)} : p # Escapes =>
                    \A at \in {Landing(p)} :
                        /\ at = Missing \/ Under(at)
                        /\ Node(at).is = "file" => resolve_readable_path_blocking(given) = at

(* What a call keeps and returns is bounded: each stream up to a byte over the *)
(* limit, and a text within it.  The text is whole when it fits, bytes that    *)
(* are no characters counting for three; where it does not, neither stream     *)
(* gives way to the other beyond its share, but for a split character.  A call *)
(* that came back has left no child behind.                                    *)
Shares(shown, out, err) ==
    IF out + err <= MaxOutput THEN shown = <<out, err>>
    ELSE /\ shown[1] * (out + err) + 4 * (out + err) > MaxOutput * out
         /\ shown[2] * (out + err) + 4 * (out + err) > MaxOutput * err
ShellBounded ==
    /\ Max({shell.out.kept, shell.err.kept}) <= MaxOutput + 1
    /\ shell.shown[1] + shell.shown[2] <= MaxOutput
    /\ shell.call = "returned" => Shares(shell.shown, shell.out.text, shell.err.text)
    /\ shell.call \in {"returned", "stopped"} => shell.child \in {"exited", "killed"}

ToolsSound == EditsKept /\ EditsExact /\ PathsContained /\ ShellBounded
=============================================================================
