----------------------------- MODULE MCWorkspace -----------------------------
(***************************************************************************)
(* What the agent finds in its own house, one subject at a time: a         *)
(* behaviour is one of `part` (the files its tools change, search and      *)
(* checkpoints beside the sessions, the policies, the host's helpers, the  *)
(* widgets of the terminal), and the others stay in an initial state.      *)
(***************************************************************************)
EXTENDS WorkspaceTools, SessionSearch, Policies, HostSupport, TuiWidgets

VARIABLE part

Parts == {"tools", "search", "policies", "support", "widgets"}

workspaceVars == <<part, toolVars, searchVars, policyVars, supportVars, widgetVars>>

WorkspaceInit ==
  /\ part \in Parts
  /\ ToolsInit /\ (part # "tools" => toolSubject = "files")
  /\ SearchInit /\ (part # "search" => searchSubject = "index")
  /\ PolicyInit
  /\ part # "policies" => chain = CHOOSE c \in Chains : TRUE
  /\ SupportInit /\ (part # "support" => helper = "watcher")
  /\ WidgetInit /\ (part # "widgets" => widget = "editor")

WorkspaceNext ==
  /\ UNCHANGED part
  /\ \/ part = "tools" /\ ToolsNext
     \/ part # "tools" /\ UNCHANGED toolVars
  /\ \/ part = "search" /\ SearchNext
     \/ part # "search" /\ UNCHANGED searchVars
  /\ \/ part = "policies" /\ PolicyNext
     \/ part # "policies" /\ UNCHANGED policyVars
  /\ \/ part = "support" /\ SupportNext
     \/ part # "support" /\ UNCHANGED supportVars
  /\ \/ part = "widgets" /\ WidgetNext
     \/ part # "widgets" /\ UNCHANGED widgetVars

WorkspaceSpec == WorkspaceInit /\ [][WorkspaceNext]_workspaceVars

-----------------------------------------------------------------------------
(* The instance. *)
MCTexts == {<<"a", "n", "a">>, <<"a", "_", "n", "b">>, <<"a", "a", "a">>,
            <<"b", "n", "a", "_", "n", "a">>}
MCEdits ==
  {[old |-> o, new |-> w, all |-> l, hint |-> h] :
     o \in {<<"a">>, <<"a", "a">>, <<"a", "n", "b">>, <<"a", "_", "_">>},
     w \in {<< >>, <<"b", "n">>}, l \in BOOLEAN, h \in {0, 2}}
MCLinks == {<<"o">>, <<"o", "f">>, <<"o", "x">>, <<"r", "d">>, <<"r", "d", "f">>}
MCGiven ==
  {[absolute |-> FALSE, names |-> s] :
     s \in UNION {[1..n -> {"d", "f", "l", ".."}] : n \in 1..3}}
  \cup {[absolute |-> TRUE, names |-> s] :
          s \in {<<"o", "f">>, <<"r", "d", "f">>, <<"r", "..", "o">>, <<"r", "l">>}}

MCEntries == {[type |-> "message", time |-> 1, terms |-> {"x"}],
              [type |-> "label", time |-> 2, terms |-> {"x", "y"}]}
MCFilters ==
  {[sessions |-> i, types |-> y, times |-> {1, 2}] : i \in {{}, {"s1"}}, y \in {{}, {"label"}}}
  \cup {[sessions |-> {}, types |-> {}, times |-> {2}]}
MCMigrators ==
  <<[from |-> 0, to |-> 1, does |-> "add"], [from |-> 1, to |-> 2, does |-> "same"],
    [from |-> 1, to |-> 3, does |-> "add"], [from |-> 2, to |-> 4, does |-> "drop"]>>

Inside == [given |-> TRUE, abs |-> TRUE, to |-> <<"w", "d">>]
Outside == [given |-> TRUE, abs |-> TRUE, to |-> <<"o">>]
(* A turn of a priced model, and a longer one of a model without a price.  *)
MCUses == {[cost |-> 1, input |-> 1, output |-> 1], [cost |-> 0, input |-> 1, output |-> 2]}
Unlimited == Budget(NoLimit, NoLimit, NoLimit)
PolicyChains ==
  LET plan(limits, denied) == recommended(limits, 3, SandboxRoot, denied)
      rude == [name |-> "host", verdict |-> Panic, path |-> Outside]
      kind == [name |-> "host", verdict |-> Inject(<<[hint |-> 1]>>), path |-> Inside]
      filter == push_keyword_rule([ContentFilter EXCEPT !.whole_word = TRUE], "c", "spam")
      filters(mode, on) ==
        <<[filter EXCEPT !.enabled = on], PiiRedactor(mode), PromptInjectionGuard,
          [name |-> "memory-nudge", sensitivity |-> "Medium"],
          [name |-> "max_turns", max_turns |-> 3]>>
      detector(act) == <<[name |-> "loop_detection", lookback |-> 2, on_detect |-> act]>>
  IN  {[pre |-> <<rude, PromptInjectionGuard>> \o plan(Budget(2, NoLimit, NoLimit), {"bash"}).pre,
        dispatch |-> plan(Unlimited, {"bash"}).dispatch \o <<rude>>,
        post |-> filters("Redact", {"c"}) \o detector("Stop")],
       [pre |-> plan(Unlimited, {}).pre, dispatch |-> <<kind>> \o plan(Unlimited, {}).dispatch,
        post |-> detector("Inject") \o filters("Stop", {"all"})],
       [pre |-> << >>, dispatch |-> <<[kind EXCEPT !.verdict = Stop("host")]>>, post |-> << >>],
       [pre |-> <<rude>> \o plan(Budget(NoLimit, NoLimit, 2), {"bash"}).pre,
        dispatch |-> <<kind>> \o plan(Unlimited, {"bash"}).dispatch, post |-> << >>],
       [pre |-> << >>, dispatch |-> << >>,
        post |-> <<[name |-> "rolling-checkpoint"], [name |-> "checkpoint"]>>]}

MCGlobTexts == SeqOf({"a", "b"}, 4)
MCGlobPatterns == SeqOf({"a", "*", "?"}, 3)

(* Both texts of a change have at most three lines. *)
MCDiffTexts ==
  {[lines |-> s, nl |-> b] : s \in SeqOf({1, 2}, 3) \ {<< >>}, b \in BOOLEAN}
  \cup {[lines |-> << >>, nl |-> FALSE]}

-----------------------------------------------------------------------------
(* Files and what is derived from them: edits of one batch are all in the  *)
(* file, a search finds what the sessions hold, the newest checkpoints     *)
(* stay, a migrated session keeps its entries in order (edit_file,         *)
(* JsonlSessionStore, FileCheckpointStore).                                *)
FilesKept == ToolsSound /\ MemoryKept

(* The helpers show what they were given: the watched tools, the restored  *)
(* agent, every answer of the remote bridge, the glob's matches, the       *)
(* editor, the conversation and the diff (hot_reload, checkpointing,       *)
(* tui-remote, tool_filter, the terminal's widgets).                       *)
HelpersExact == SupportExact /\ WidgetsExact
=============================================================================
