----------------------------- MODULE TuiWidgets -----------------------------
(* The stateful widgets of the terminal UI (tui/src/ui, wizard.rs,             *)
(* app/event_loop.rs).  A behaviour studies one subject: the input "editor"    *)
(* with its history and completion popup, the conversation "view" with its     *)
(* render cache, the "diff" of a proposed write, the tool "panel" or the       *)
(* setup "wizard".  A character is one symbol; drawing is left out but for     *)
(* what it remembers.                                                          *)
EXTENDS Integers, Sequences, SequencesExt, FiniteSetsExt, Functions

CONSTANTS Letters,      \* symbols typed: "a", "@", " " and "#", a typed "#key <provider> <secret>"
          MaxText,      \* symbols in the editor, line breaks included
          MaxRecalled,   \* submitted inputs kept
          MaxShown,     \* messages of the conversation
          Thoughts,     \* thinking texts a message may carry, 0 for none
          DiffTexts,    \* file contents: [lines, nl]
          PanelTools,   \* tool call ids
          MaxChunks,    \* parts of a tool's output
          KeyWidths,    \* bytes a character typed into the wizard may take
          MaxSecret     \* characters typed into the wizard

VARIABLES widget,       \* the subject
          editor,       \* InputEditor: [lines, row, col, history, at, saved]
          popup,        \* the open path completion: [open, row, start]
          shown,        \* the messages of the view
          view,         \* [width, hidden, picked]: inner width, show_hidden_channels, selected block
          renders,      \* RenderCache: [width, hidden, entries]
          change,       \* the write being reviewed: [old, new, approved]
          panel, tools, \* ToolPanel; tool -> the events it has sent: [sent, chunks]
          wizard        \* SetupWizard: [step, input, cursor, typed, stored, configured, failed]

widgetVars == <<widget, editor, popup, shown, view, renders, change, panel, tools, wizard>>

-----------------------------------------------------------------------------
(* The input editor: lines and a cursor after `col` characters of line `row`. *)
Line(e) == e.lines[e.row]
Blank == <<<<>>>>
At(e, row, col) == [e EXCEPT !.row = row, !.col = col]
AtEnd(e, lines) == [e EXCEPT !.lines = lines, !.row = Len(lines), !.col = Len(lines[Len(lines)])]

insert_char(e, c) == [e EXCEPT !.lines[e.row] = InsertAt(@, e.col + 1, c), !.col = @ + 1]
insert_newline(e) ==
    At([e EXCEPT !.lines = SubSeq(@, 1, e.row - 1) \o <<SubSeq(Line(e), 1, e.col), SubSeq(Line(e), e.col + 1, Len(Line(e)))>>
                           \o SubSeq(@, e.row + 1, Len(@))], e.row + 1, 0)
\* The line after `row` is pulled up behind it.
Joined(lines, row) == [RemoveAt(lines, row + 1) EXCEPT ![row] = @ \o lines[row + 1]]

backspace(e) ==
    IF e.col > 0 THEN [e EXCEPT !.lines[e.row] = RemoveAt(@, e.col), !.col = @ - 1]
    ELSE IF e.row > 1 THEN At([e EXCEPT !.lines = Joined(@, e.row - 1)], e.row - 1, Len(e.lines[e.row - 1]))
    ELSE e
input_delete(e) ==
    IF e.col < Len(Line(e)) THEN [e EXCEPT !.lines[e.row] = RemoveAt(@, e.col + 1)]
    ELSE IF e.row < Len(e.lines) THEN [e EXCEPT !.lines = Joined(@, e.row)]
    ELSE e
move_left(e) ==
    IF e.col > 0 THEN At(e, e.row, e.col - 1)
    ELSE IF e.row > 1 THEN At(e, e.row - 1, Len(e.lines[e.row - 1])) ELSE e
move_right(e) ==
    IF e.col < Len(Line(e)) THEN At(e, e.row, e.col + 1)
    ELSE IF e.row < Len(e.lines) THEN At(e, e.row + 1, 0) ELSE e
Vertical(e, row) == At(e, row, Min({e.col, Len(e.lines[row])}))

\* at = 0: not in the history; recalling an input first saves what is being typed.
history_prev(e) ==
    IF e.at = 0 /\ e.history # <<>>
    THEN AtEnd([e EXCEPT !.at = Len(e.history), !.saved = e.lines], e.history[Len(e.history)])
    ELSE IF e.at > 1 THEN AtEnd([e EXCEPT !.at = @ - 1], e.history[e.at - 1])
    ELSE e
history_next(e) ==
    IF e.at = 0 THEN e
    ELSE IF e.at < Len(e.history) THEN AtEnd([e EXCEPT !.at = @ + 1], e.history[e.at + 1])
    ELSE AtEnd([e EXCEPT !.at = 0, !.saved = Blank], e.saved)

Key(e, key) ==
    CASE key = "newline" -> insert_newline(e)
      [] key = "backspace" -> backspace(e)
      [] key = "delete" -> input_delete(e)
      [] key = "left" -> move_left(e)
      [] key = "right" -> move_right(e)
      [] key = "home" -> At(e, e.row, 0)
      [] key = "end" -> At(e, e.row, Len(Line(e)))
      [] key = "up" -> IF e.row = 1 THEN history_prev(e) ELSE Vertical(e, e.row - 1)
      [] key = "down" -> IF e.row = Len(e.lines) THEN history_next(e) ELSE Vertical(e, e.row + 1)
      [] OTHER -> insert_char(e, key)

\* The mention the cursor is in: an @ at a word's start with no space up to the cursor.
Sigils(before) ==
    {i \in DOMAIN before : before[i] = "@" /\ (\A j \in DOMAIN before : j > i => before[j] # "@")
                             /\ (i > 1 => before[i - 1] = " ") /\ (\A j \in DOMAIN before : j > i => before[j] # " ")}
sigil_query(e) == Sigils(SubSeq(Line(e), 1, e.col))

NoPopup == [open |-> FALSE, row |-> 0, start |-> 0]
\* The host offers a candidate for every query.
refresh_path_completion(e) ==
    IF sigil_query(e) = {} THEN NoPopup
    ELSE [open |-> TRUE, row |-> e.row, start |-> CHOOSE i \in sigil_query(e) : TRUE]
\* Accepting replaces the text from the sigil to the cursor by "@<path> ".
replace_mention_query(e, start) ==
    [e EXCEPT !.lines[e.row] = SubSeq(@, 1, start - 1) \o <<"@", "a", " ">> \o SubSeq(@, e.col + 1, Len(@)),
              !.col = start + 2]

Text(lines) == FlattenSeq([i \in DOMAIN lines |-> (IF i = 1 THEN <<>> ELSE <<"nl">>) \o lines[i]])
is_sensitive_input(lines) ==
    \E i \in DOMAIN lines : \E j \in DOMAIN lines[i] : lines[i][j] = "#" /\ \A k \in 1..(j - 1) : lines[i][k] = " "
submit_inner(e, push) ==
    [lines |-> Blank, row |-> 1, col |-> 0, at |-> 0, saved |-> Blank,
     history |-> IF push THEN Append(e.history, e.lines) ELSE e.history]

editorFrame == widget = "editor" /\ UNCHANGED <<widget, shown, view, renders, change, panel, tools, wizard>>

\* An open popup takes Up, Down and Enter.
handle_editing_key ==
    /\ editorFrame
    /\ \E key \in Letters \cup {"newline", "backspace", "delete", "left", "right", "home", "end", "up", "down"} :
        /\ popup.open => key \notin {"up", "down"}
        /\ key \in Letters \cup {"newline"} => Len(Text(editor.lines)) < MaxText
        /\ editor' = Key(editor, key) /\ popup' = refresh_path_completion(editor')
handle_path_completion_key ==
    /\ editorFrame /\ popup.open /\ popup' = NoPopup
    /\ \/ UNCHANGED editor
       \/ /\ editor' = replace_mention_query(editor, popup.start)
          /\ Len(Text(editor.lines)) < MaxText
submit_input ==
    /\ editorFrame /\ ~popup.open /\ UNCHANGED popup
    /\ \E s \in Range(Text(editor.lines)) : s \notin {" ", "nl"}
    /\ \E push \in {~is_sensitive_input(editor.lines)} :
        (push => Len(editor.history) < MaxRecalled) /\ editor' = submit_inner(editor, push)

-----------------------------------------------------------------------------
(* The conversation: what was drawn for a message is kept until its            *)
(* fingerprint, or anything every message depends on, changes.                 *)
ShownMessage == [role : {"assistant", "tool"}, content : {1, 2}, thinking : Thoughts, collapsed : BOOLEAN, streaming : BOOLEAN]
message_fingerprint(m, selected) ==
    [role |-> m.role, content |-> m.content, thinks |-> m.thinking # 0, collapsed |-> m.collapsed, selected |-> selected]
\* What a drawn message shows of it.
render_message_lines(m, selected, width, hidden) ==
    IF m.role = "tool" /\ m.collapsed THEN [is |-> "summary", selected |-> selected, content |-> m.content, width |-> 0, thinking |-> 0]
    ELSE [is |-> m.role, selected |-> selected /\ m.role = "tool", content |-> m.content, width |-> width,
          thinking |-> IF m.thinking # 0 /\ ~hidden THEN -1 ELSE m.thinking]

NoRender == [here |-> FALSE]
RenderEntry(m, selected) ==
    [here |-> TRUE, print |-> message_fingerprint(m, selected),
     lines |-> render_message_lines(m, selected, view.width, view.hidden)]
\* sync: entries survive while nothing global changed, and are cut or padded to the messages.
Synced ==
    [i \in DOMAIN shown |->
        IF renders.width = view.width /\ renders.hidden = view.hidden /\ i \in DOMAIN renders.entries
        THEN renders.entries[i] ELSE NoRender]
Hit(i) == Synced[i].here /\ Synced[i].print = message_fingerprint(shown[i], view.picked = i)

viewFrame == widget = "view" /\ UNCHANGED <<widget, editor, popup, change, panel, tools, wizard>>
render ==
    /\ viewFrame /\ UNCHANGED <<shown, view>>
    /\ renders' = [width |-> view.width, hidden |-> view.hidden,
                   entries |-> [i \in DOMAIN shown |->
                                  IF shown[i].streaming THEN NoRender
                                  ELSE IF Hit(i) THEN Synced[i]
                                  ELSE RenderEntry(shown[i], view.picked = i)]]
\* Messages come at the end, stream while they are last, and leave at the front.
MessageShown ==
    /\ viewFrame /\ UNCHANGED <<view, renders>> /\ Len(shown) < MaxShown
    /\ \E m \in ShownMessage :
        /\ ~m.collapsed /\ (m.role = "tool" => m.thinking = 0 /\ m.content = 1 /\ ~m.streaming)
        /\ shown' = Append([i \in DOMAIN shown |-> [shown[i] EXCEPT !.streaming = FALSE]], m)
MessageStreams ==
    /\ viewFrame /\ UNCHANGED <<view, renders>> /\ shown # <<>> /\ shown[Len(shown)].streaming
    /\ \E more \in {FALSE, TRUE} :
        shown' = [shown EXCEPT ![Len(shown)].streaming = more, ![Len(shown)].content = IF more THEN 2 ELSE @]
trim_messages_to_recent_turns ==
    /\ viewFrame /\ UNCHANGED renders /\ shown # <<>> /\ shown' = Tail(shown)
    /\ view' = [view EXCEPT !.picked = IF @ > 0 THEN @ - 1 ELSE 0]
toggle_collapse ==
    /\ viewFrame /\ UNCHANGED renders
    /\ \E i \in DOMAIN shown :
        /\ shown[i].role = "tool" /\ shown' = [shown EXCEPT ![i].collapsed = ~@]
        /\ view' = [view EXCEPT !.picked = i]
\* A result that was not opened by hand folds after a while.
tick_collapse ==
    /\ viewFrame /\ UNCHANGED <<view, renders>>
    /\ \E i \in DOMAIN shown :
        shown[i].role = "tool" /\ ~shown[i].collapsed /\ shown' = [shown EXCEPT ![i].collapsed = TRUE]
ViewChanges ==
    /\ viewFrame /\ UNCHANGED <<shown, renders>>
    /\ \/ view' = [view EXCEPT !.width = 3 - @]
       \/ view' = [view EXCEPT !.hidden = ~@]

-----------------------------------------------------------------------------
(* The diff of a proposed write, and the merge of its approved hunks. *)
\* dp[i][j] of the code: the longest common subsequence of old[i..] and new[j..].
Lengths(old, new) ==
    LET dp[i \in 1..(Len(old) + 1), j \in 1..(Len(new) + 1)] ==
            IF i > Len(old) \/ j > Len(new) THEN 0
            ELSE IF old[i] = new[j] THEN dp[i + 1, j + 1] + 1
            ELSE Max({dp[i + 1, j], dp[i, j + 1]})
    IN  dp
LcsFrom(old, new, dp) ==
    LET walk[i \in 1..(Len(old) + 1), j \in 1..(Len(new) + 1)] ==
            IF i > Len(old) \/ j > Len(new) THEN <<>>
            ELSE IF old[i] = new[j] THEN <<<<i, j>>>> \o walk[i + 1, j + 1]
            ELSE IF dp[i + 1, j] >= dp[i, j + 1] THEN walk[i + 1, j] ELSE walk[i, j + 1]
    IN  walk[1, 1]
compute_lcs(old, new) == LcsFrom(old, new, Lengths(old, new))

\* The gaps between neighbouring common lines: [from, to) of old and of new.
HunksBetween(marks) ==
    SelectSeq([k \in 1..(Len(marks) - 1) |->
                 [old_start |-> marks[k][1] + 1, old_end |-> marks[k + 1][1],
                  new_start |-> marks[k][2] + 1, new_end |-> marks[k + 1][2]]],
              LAMBDA h : h.old_start < h.old_end \/ h.new_start < h.new_end)
compute_hunks(old, new) ==
    HunksBetween(<<<<0, 0>>>> \o compute_lcs(old, new) \o <<<<Len(old) + 1, Len(new) + 1>>>>)

CutText(lines, from, to) == SubSeq(lines, from, to - 1)
\* merged: hunk by hunk, the kept lines before it and the side that was chosen.
MergeLines(old, new, hunks, approved) ==
    LET side(k) == IF k \in approved THEN CutText(new, hunks[k].new_start, hunks[k].new_end)
                   ELSE CutText(old, hunks[k].old_start, hunks[k].old_end)
        from(k) == IF k = 1 THEN 1 ELSE hunks[k - 1].old_end
        part(k) == CutText(old, from(k), hunks[k].old_start) \o side(k)
    IN  FlattenSeq([k \in DOMAIN hunks |-> part(k)]) \o CutText(old, hunks[Len(hunks)].old_end, Len(old) + 1)
Merged(old, new, hunks, approved) ==
    IF hunks = <<>> \/ approved = DOMAIN hunks THEN new
    ELSE IF approved = {} THEN old
    ELSE [lines |-> MergeLines(old.lines, new.lines, hunks, approved), nl |-> new.nl]
merge_hunks(old, new, approved) == Merged(old, new, compute_hunks(old.lines, new.lines), approved)

\* Side by side, every row of a hunk reads both sides, the shorter one past its end too.
SideReads(lines, row, end) == Min({row, end}) <= Len(lines)
render_side_by_side_diff_lines(old, new) ==
    \A h \in Range(compute_hunks(old, new)) :
        \E rows \in {Max({h.old_end - h.old_start, h.new_end - h.new_start})} :
            /\ SideReads(old, h.old_start + rows - 1, h.old_end)
            /\ SideReads(new, h.new_start + rows - 1, h.new_end)

diffFrame == widget = "diff" /\ UNCHANGED <<widget, editor, popup, shown, view, renders, panel, tools, wizard>>
ProposeWrite ==
    /\ diffFrame /\ change.old.lines = <<>> /\ change.new.lines = <<>>
    /\ \E old \in DiffTexts, new \in DiffTexts : change' = [old |-> old, new |-> new, approved |-> {}]
decide_current_hunk ==
    /\ diffFrame
    /\ \E k \in DOMAIN compute_hunks(change.old.lines, change.new.lines) \ change.approved :
        change' = [change EXCEPT !.approved = @ \cup {k}]

-----------------------------------------------------------------------------
(* The tool panel, fed by the events of tools that each start, report and end. *)
panelFrame == widget = "panel" /\ UNCHANGED <<widget, editor, popup, shown, view, renders, change, wizard>>
start_tool(p, t) == [p EXCEPT !.active = Append(@, [id |-> t, output |-> 0])]
\* A tool reports all it wrote so far: the longer text replaces the shorter one.
update_tool(p, t, output) ==
    IF \E i \in DOMAIN p.active : p.active[i].id = t
    THEN [p EXCEPT !.active = [i \in DOMAIN p.active |->
            IF p.active[i].id = t THEN [p.active[i] EXCEPT !.output = Max({@, output})] ELSE p.active[i]]]
    ELSE [p EXCEPT !.active = Append(@, [id |-> t, output |-> output])]
end_tool(p, t) ==
    [active |-> SelectSeq(p.active, LAMBDA a : a.id # t),
     completed |-> p.completed \o SelectSeq(p.active, LAMBDA a : a.id = t),
     asking |-> p.asking]
ToolEvent ==
    /\ panelFrame
    /\ \E t \in PanelTools :
        \/ /\ tools[t].sent = "none" /\ tools' = [tools EXCEPT ![t].sent = "asked"]
           /\ panel' = [panel EXCEPT !.asking = @ \cup {t}]
        \/ /\ tools[t].sent = "asked" /\ panel' = [start_tool(panel, t) EXCEPT !.asking = @ \ {t}]
           /\ tools' = [tools EXCEPT ![t].sent = "started"]
        \/ /\ tools[t].sent = "started" /\ tools[t].chunks < MaxChunks
           /\ tools' = [tools EXCEPT ![t].chunks = @ + 1]
           /\ panel' = update_tool(panel, t, tools[t].chunks + 1)
        \/ /\ tools[t].sent = "started" /\ tools' = [tools EXCEPT ![t].sent = "ended"]
           /\ panel' = end_tool(panel, t)
tick ==
    /\ panelFrame /\ UNCHANGED tools /\ panel.completed # <<>>
    /\ panel' = [panel EXCEPT !.completed = Tail(@)]

-----------------------------------------------------------------------------
(* The setup wizard: a key is typed at a byte position that counts characters. *)
Providers == {1, 2}
RequiresKey == {1}
wizardFrame == widget = "wizard" /\ UNCHANGED <<widget, editor, popup, shown, view, renders, change, panel, tools>>
KeyBytes(input) == FoldLeft(LAMBDA n, c : n + c, 0, input)
\* The character that starts after `bytes` bytes; none inside another character.
CharAt(input, bytes) == {i \in 0..Len(input) : KeyBytes(SubSeq(input, 1, i)) = bytes}

Fresh(step) == [wizard EXCEPT !.step = step, !.input = <<>>, !.cursor = 0, !.typed = <<>>, !.failed = FALSE]
handle_welcome_key == wizardFrame /\ wizard.step = "welcome" /\ wizard' = [wizard EXCEPT !.step = "list"]
handle_provider_list_key ==
    /\ wizardFrame /\ wizard.step = "list"
    /\ \/ \E p \in RequiresKey : wizard' = [Fresh("key") EXCEPT !.provider = p]
       \/ wizard' = [wizard EXCEPT !.step = "done"]
handle_key_entry_key ==
    /\ wizardFrame /\ wizard.step = "key"
    /\ \/ wizard' = Fresh("list")
       \/ /\ wizard.input # <<>>
          /\ \/ wizard' = [Fresh("list") EXCEPT !.configured = @ \cup {wizard.provider}, !.stored = wizard.input, !.wanted = wizard.typed]
             \/ wizard' = [wizard EXCEPT !.failed = TRUE]
       \/ /\ wizard.input # <<>> /\ wizard.cursor > 0
          /\ \E at \in CharAt(wizard.input, wizard.cursor - 1) :
                wizard' = [wizard EXCEPT !.input = RemoveAt(@, at + 1), !.cursor = @ - 1, !.failed = FALSE, !.typed = Front(@)]
       \/ /\ Len(wizard.typed) < MaxSecret
          /\ \E c \in KeyWidths, at \in CharAt(wizard.input, wizard.cursor) :
                wizard' = [wizard EXCEPT !.input = InsertAt(@, at + 1, c), !.cursor = @ + 1, !.failed = FALSE, !.typed = Append(@, c)]

-----------------------------------------------------------------------------
WidgetInit ==
    /\ widget \in {"editor", "view", "diff", "panel", "wizard"}
    /\ editor = [lines |-> Blank, row |-> 1, col |-> 0, history |-> <<>>, at |-> 0, saved |-> Blank]
    /\ popup = NoPopup /\ shown = <<>>
    /\ view = [width |-> 1, hidden |-> FALSE, picked |-> 0]
    /\ renders = [width |-> 0, hidden |-> FALSE, entries |-> <<>>]
    /\ change = [old |-> [lines |-> <<>>, nl |-> FALSE], new |-> [lines |-> <<>>, nl |-> FALSE], approved |-> {}]
    /\ panel = [active |-> <<>>, completed |-> <<>>, asking |-> {}]
    /\ tools = [t \in PanelTools |-> [sent |-> "none", chunks |-> 0]]
    /\ wizard = [step |-> "welcome", provider |-> 1, input |-> <<>>, cursor |-> 0, typed |-> <<>>,
                 stored |-> <<>>, wanted |-> <<>>, configured |-> Providers \ RequiresKey, failed |-> FALSE]

WidgetNext ==
    \/ handle_editing_key \/ handle_path_completion_key \/ submit_input
    \/ render \/ MessageShown \/ MessageStreams \/ trim_messages_to_recent_turns \/ toggle_collapse \/ tick_collapse \/ ViewChanges
    \/ ProposeWrite \/ decide_current_hunk
    \/ ToolEvent \/ tick
    \/ handle_welcome_key \/ handle_provider_list_key \/ handle_key_entry_key

-----------------------------------------------------------------------------
(* Lines and cursor are a text with a position: every key does to them what it *)
(* does to the flat text, and leaving the history brings back what was typed.  *)
Position(e) == Len(Text(SubSeq(e.lines, 1, e.row - 1))) + (IF e.row > 1 THEN 1 ELSE 0) + e.col
Flat(e) == [text |-> Text(e.lines), at |-> Position(e)]
FlatKey(f, key) ==
    CASE key = "backspace" -> IF f.at = 0 THEN f ELSE [text |-> RemoveAt(f.text, f.at), at |-> f.at - 1]
      [] key = "delete" -> IF f.at = Len(f.text) THEN f ELSE [f EXCEPT !.text = RemoveAt(@, f.at + 1)]
      [] key = "left" -> [f EXCEPT !.at = Max({@ - 1, 0})]
      [] key = "right" -> [f EXCEPT !.at = Min({@ + 1, Len(f.text)})]
      [] key = "newline" -> [text |-> InsertAt(f.text, f.at + 1, "nl"), at |-> f.at + 1]
      [] OTHER -> [text |-> InsertAt(f.text, f.at + 1, key), at |-> f.at + 1]
EditorExact ==
    widget = "editor" =>
        /\ \A key \in Letters \cup {"newline", "backspace", "delete", "left", "right"} :
              Flat(Key(editor, key)) = FlatKey(Flat(editor), key)
        /\ editor.at = 0 => history_next(history_prev(editor)).lines = editor.lines
        /\ \A i \in DOMAIN editor.history : ~is_sensitive_input(editor.history[i])
        /\ popup.open => popup.row = editor.row /\ popup.start \in sigil_query(editor)

(* A message is never shown from a stale rendering: whatever was resized,      *)
(* switched, collapsed, streamed or trimmed since, a cache hit holds what a    *)
(* fresh rendering would.                                                      *)
RenderExact ==
    \A i \in DOMAIN shown : (~shown[i].streaming /\ Hit(i)) => Synced[i].lines = RenderEntry(shown[i], view.picked = i).lines

(* The hunks of a diff are what is between a longest set of common lines, and  *)
(* choosing among them changes exactly the chosen places.                      *)
DiffExact ==
    \E old \in {change.old.lines}, new \in {change.new.lines} : \E hunks \in {compute_hunks(old, new)} :
        \E m \in {merge_hunks(change.old, change.new, change.approved)} :
        /\ Len(m.lines) = Len(old) + MapThenSumSet(LAMBDA k : (hunks[k].new_end - hunks[k].new_start)
                                                    - (hunks[k].old_end - hunks[k].old_start), change.approved)
        /\ \A k \in DOMAIN hunks : k > 1 => hunks[k - 1].old_end < hunks[k].old_start /\ hunks[k - 1].new_end < hunks[k].new_start
        /\ Cardinality(change.approved) < Len(hunks) =>
            \A k \in change.approved : \A i \in hunks[k].new_start..(hunks[k].new_end - 1) : new[i] \in Range(m.lines)
        /\ (change.approved = {} /\ hunks # <<>>) => m = change.old
        /\ change.approved = DOMAIN hunks => m = change.new
        /\ \A common \in SUBSET DOMAIN old :
            (\E f \in [common -> DOMAIN new] : \A i, j \in common : old[i] = new[f[i]] /\ (i < j => f[i] < f[j]))
                => Cardinality(common) <= Len(compute_lcs(old, new))

(* Each tool that started and has not ended is in the panel once, with all it  *)
(* has written.                                                                *)
PanelExact ==
    /\ {t \in PanelTools : tools[t].sent = "started"} = {panel.active[i].id : i \in DOMAIN panel.active}
    /\ \A i, j \in DOMAIN panel.active : panel.active[i].id = panel.active[j].id => i = j
    /\ \A i \in DOMAIN panel.active : panel.active[i].output = tools[panel.active[i].id].chunks

(* The secret stored is the one typed. *)
SecretTyped == wizard.stored = wizard.wanted /\ (wizard.step = "key" => wizard.input = wizard.typed)

WidgetsExact == EditorExact /\ RenderExact /\ DiffExact /\ PanelExact /\ SecretTyped

=============================================================================
