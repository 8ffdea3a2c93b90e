------------------------------- MODULE Keymap -------------------------------
(***************************************************************************)
(* keymap.rs: one table of bindings for the panes, one short table for     *)
(* each overlay, and resolve, which turns a key into an action.  An        *)
(* overlay takes every key but Ctrl-C and Ctrl-G.  The actions of the line *)
(* editors, lists and prompts have one name each here, the overlay open    *)
(* telling them apart, where the source has one for each overlay.          *)
(***************************************************************************)
EXTENDS Naturals, Sequences, FiniteSets, SequencesExt

Foci == <<"ChatList", "History", "Composer">>   \* in the order of Tab

Overlays == {"None", "Help", "SearchInput", "SearchResults", "Forward", "Reaction", "SendMedia",
             "SecretChat", "ContactSearchInput", "ContactSearchResults", "Settings",
             "DeleteConfirm", "LogoutConfirm"}

\* Keys: "x" and " " stand for the characters no binding names.
Chars == {"c", "g", "r", "q", "j", "k", "]", "[", "s", "n", "G", "i", "e", "d", "R", "p", "f",
          "a", "S", "y", "/", ",", "b", "?", "x", " "}
Codes == Chars \cup {"Enter", "Esc", "Tab", "BackTab", "Backspace", "Left", "Right", "Home",
                     "End", "Up", "Down", "PageUp", "PageDown", "F1"}
KeyPresses == [code : Codes, mods : SUBSET {"ctrl", "alt", "shift"}]

Unmodified(key) == key.mods \cap {"ctrl", "alt"} = {}
Printable(key) == key.code \in Chars /\ Unmodified(key)

\* Trigger::matches: a trigger is the set of keys it matches.
Plain(codes) == {k \in KeyPresses : k.code \in codes /\ Unmodified(k)}
Ctrl(code) == {k \in KeyPresses : k.code = code /\ "ctrl" \in k.mods}
Alt(code) == {k \in KeyPresses : k.code = code /\ "alt" \in k.mods /\ "ctrl" \notin k.mods}
Shift(code) == {k \in KeyPresses : k.code = code /\ "shift" \in k.mods}

\* The bindings of one context: keys and action of each.
Group(context, pairs) ==
  [i \in DOMAIN pairs |-> [context |-> context, keys |-> pairs[i][1], action |-> pairs[i][2]]]

GlobalBindings == Group("Global", <<
  <<Ctrl("c"), "Quit">>,
  <<Plain({"Tab"}), "FocusNext">>,
  <<Plain({"BackTab"}), "FocusPrev">>,
  <<Plain({"F1"}), "ToggleHelp">>,
  <<Ctrl("g"), "NoticeDismiss">>,
  <<Ctrl("r"), "Resync">>,
  <<Ctrl("q"), "LogoutOpen">> >>)
ChatListBindings == Group("ChatList", <<
  <<Plain({"j", "Down"}), "SelectNext">>,
  <<Plain({"k", "Up"}), "SelectPrev">>,
  <<Plain({"]"}), "NextList">>,
  <<Plain({"["}), "PrevList">>,
  <<Plain({"Enter"}), "OpenInHistory">>,
  <<Plain({"s"}), "SecretOpen">>,
  <<Plain({"n"}), "ContactSearchOpen">> >>)
HistoryBindings == Group("History", <<
  <<Plain({"j", "Down"}), "ScrollDown">>,
  <<Plain({"k", "Up"}), "ScrollUp">>,
  <<Plain({"PageDown"}), "PageDown">>,
  <<Plain({"PageUp"}), "PageUp">>,
  <<Plain({"G", "End"}), "JumpToNewest">>,
  <<Plain({"i"}), "Write">>,
  <<Plain({"r"}), "ReplyMessage">>,
  <<Plain({"e"}), "EditMessage">>,
  <<Plain({"g"}), "JumpToQuoted">>,
  <<Plain({"d"}), "DeleteMessage">>,
  <<Plain({"R"}), "ReactionOpen">>,
  <<Plain({"p"}), "PinToggle">>,
  <<Plain({"f"}), "ForwardMessage">>,
  <<Plain({"a"}), "AttachOpen">>,
  <<Plain({"S"}), "SaveMedia">>,
  <<Plain({"y"}), "CopyMessage">> >>)
ComposerBindings == Group("Composer", <<
  <<Alt("Enter"), "ComposerNewline">>,
  <<Shift("Enter"), "ComposerNewline">>,
  <<Plain({"Enter"}), "ComposerSubmit">>,
  <<Plain({"Esc"}), "ComposerCancel">>,
  <<Plain({"Backspace"}), "Backspace">>,
  <<Plain({"Left"}), "MoveCaret">>,
  <<Plain({"Right"}), "MoveCaret">>,
  <<Plain({"Home"}), "MoveCaret">>,
  <<Plain({"End"}), "MoveCaret">>,
  <<Plain({"Up"}), "MoveCaret">>,
  <<Plain({"Down"}), "MoveCaret">> >>)
NavBindings == Group("Nav", <<
  <<Plain({"/"}), "SearchOpen">>,
  <<Plain({","}), "SettingsOpen">>,
  <<Plain({"b"}), "ToggleChatListCollapse">>,
  <<Plain({"q"}), "Quit">>,
  <<Plain({"?"}), "ToggleHelp">> >>)
BINDINGS == GlobalBindings \o ChatListBindings \o HistoryBindings \o ComposerBindings \o NavBindings

\* Mutant: the commands of the read-only panes are taken in the composer too.
NavApplies(context, f) == context \in {"Global", "Nav", f}

\* Context::applies
Applies(context, f) ==
  \/ context \in {"Global", f}
  \/ context = "Nav" /\ f \in {"ChatList", "History"}

\* resolve_panes: the first binding that applies; in the composer, else, the character.
Candidates(f, key) ==
  {i \in DOMAIN BINDINGS : Applies(BINDINGS[i].context, f) /\ key \in BINDINGS[i].keys}
First(S) == CHOOSE i \in S : \A j \in S : i <= j
ResolvePanes(f, key) ==
  IF Candidates(f, key) # {} THEN BINDINGS[First(Candidates(f, key))].action
  ELSE IF f = "Composer" /\ Printable(key) THEN "Input"
  ELSE "Noop"

\* What an overlay makes of a key's code, whatever is held with it.
Lines == {<<"Backspace", "Backspace">>} \cup ({"Left", "Right", "Home", "End"} \X {"MoveCaret"})
Rows == ({"j", "Down"} \X {"Next"}) \cup ({"k", "Up"} \X {"Prev"})
Prompt == {<<"Esc", "Cancel">>, <<"Enter", "Confirm">>}
OverlayKeys == [
  Help |-> ({"?", "q", "Esc"} \X {"ToggleHelp"}) \cup Rows,
  SearchInput |-> Prompt \cup Lines,
  ContactSearchInput |-> Prompt \cup Lines,
  SearchResults |-> Prompt \cup Rows \cup {<<"f", "ForwardOpen">>},
  ContactSearchResults |-> Prompt \cup Rows,
  Forward |-> Prompt \cup Rows,
  Reaction |-> Prompt \cup {<<"Backspace", "Backspace">>, <<"Down", "Next">>, <<"Up", "Prev">>},
  SendMedia |-> Prompt \cup Lines \cup {<<"Tab", "NextField">>},
  Settings |-> Prompt \cup Lines \cup {<<"Tab", "NextField">>, <<"BackTab", "PrevField">>},
  SecretChat |-> Prompt,
  DeleteConfirm |-> Prompt \cup {<<"Tab", "NextField">>},
  LogoutConfirm |-> Prompt]
TextOverlays == {"SearchInput", "ContactSearchInput", "Reaction", "SendMedia", "Settings"}

\* In the reaction picker a character is passed on as it is: the picker's mode says what it does.
ResolveOverlay(o, key) ==
  LET acts == {p \in OverlayKeys[o] : p[1] = key.code} IN
  IF key \in Ctrl("c") THEN "Quit"
  ELSE IF acts # {} THEN (CHOOSE p \in acts : TRUE)[2]
  ELSE IF o \in TextOverlays /\ Printable(key)
       THEN IF o = "Reaction" /\ key.code \in {"j", "k", "c"} THEN key.code ELSE "Input"
  ELSE "Noop"

\* resolve, of a key pressed; a release is a Noop.
Resolve(o, f, key) ==
  IF key \in Ctrl("g") THEN "NoticeDismiss"
  ELSE IF o = "None" THEN ResolvePanes(f, key)
  ELSE ResolveOverlay(o, key)

\* The same as a table.
ActionOf == [o \in Overlays |-> [f \in ToSet(Foci) |-> [k \in KeyPresses |-> Resolve(o, f, k)]]]

\* help_line_count: a heading for each of five groups, blank lines between them, a line for
\* each binding, and one for the characters.
HelpLines == 5 + 4 + Len(BINDINGS) + 1

-----------------------------------------------------------------------------
\* The keymap by itself: Ctrl-C quits from everywhere; what is bound is reached by some
\* key, so that the help, made from the same table, lists no dead binding; a character
\* typed in the composer is never a command.
KeymapIsSound ==
  /\ \A o \in Overlays, f \in ToSet(Foci) : ActionOf[o][f][[code |-> "c", mods |-> {"ctrl"}]] = "Quit"
  /\ \A i \in DOMAIN BINDINGS :
       \E f \in ToSet(Foci), k \in BINDINGS[i].keys :
         Applies(BINDINGS[i].context, f) /\ First(Candidates(f, k)) = i
  /\ \A k \in KeyPresses : Printable(k) => ActionOf["None"]["Composer"][k] = "Input"

=============================================================================
