------------------------------ MODULE Cockpit ------------------------------
(***************************************************************************)
(* Which chat a key acts on: the chat list and its cursor (chat_list.rs),  *)
(* the focus and the overlays (app.rs), the composer, and the run loop,    *)
(* which after each event works out the open chat from the cursor and      *)
(* sends what was composed or confirmed.  Meanwhile the router reorders    *)
(* the lists in the store.  A message matters only by its chat.            *)
(***************************************************************************)
EXTENDS Naturals, Sequences, FiniteSets, SequencesExt

CONSTANTS
  Chats,
  NoChat,
  MaxMoves       \* bound: how often the store's lists change

ASSUME CockpitAssumption == NoChat \notin Chats /\ IsFiniteSet(Chats) /\ MaxMoves \in Nat

VARIABLES
  stored,        \* the lists of ChatStore, as project_lists reads them
  moves,         \* bound counter
  view,          \* ChatListView: lists, active, and selected (a row, from 0)
  collapsed,     \* App: chat_list_collapsed,
  focus,         \*   focus,
  composer,      \*   composer,
  overlay,       \*   overlay, with what its view holds,
  intent,        \*   and what the loop is to send: outbound or a pending_*
  pc,            \* where the loop is: at its select, or before its drives
  open,          \* HistoryState: open
  shown,         \* ConversationView: chat_id
  tdOpens,       \* TDLib's open count of each chat, by the calls in their order
  request        \* what the last drive sent

storeVars == <<stored, moves>>
listVars == <<view, collapsed, focus>>
appVars == <<listVars, composer, overlay, intent>>
loopVars == <<open, shown, tdOpens, request>>
vars == <<storeVars, appVars, pc, loopVars>>

AnyChat == Chats \cup {NoChat}
Folders == <<"family", "work">>   \* in the user's order
Kinds == {"main", "archive"} \cup ToSet(Folders)
IsList(list) == list.kind \in Kinds /\ list.chats \in Seq(Chats) /\ IsInjective(list.chats)

Blank == [mode |-> "compose", target |-> NoChat, text |-> FALSE]
Composers == [mode : {"compose", "reply", "edit"}, target : AnyChat, text : BOOLEAN]

Nothing == [kind |-> "none"]
Acts == {"compose", "reply", "edit", "media", "delete", "forward", "reaction", "pin"}
\* What to do: with a message of the chat "from", if any, in the chat "to", or the
\* open one.  "meant" is a ghost: the chat the user saw when they chose the message
\* or gave the text.
Act(kind, from, to, meant) == [kind |-> kind, from |-> from, to |-> to, meant |-> meant]
Intents == {Nothing} \cup [kind : Acts, from : AnyChat, to : AnyChat, meant : AnyChat]

NoOverlay == [kind |-> "none"]

TypeOK ==
  /\ \A k \in 1 .. Len(stored) : IsList(stored[k])
  /\ moves \in 0 .. MaxMoves
  /\ \A k \in 1 .. Len(view.lists) : IsList(view.lists[k])
  /\ view.active \in 1 .. Len(view.lists)
  /\ collapsed \in BOOLEAN /\ focus \in {"list", "history", "composer"}
  /\ collapsed => focus # "list"
  /\ composer \in Composers /\ intent \in Intents /\ request \in Intents
  /\ overlay.kind \in {"none", "delete", "forward", "reaction", "media"}
  /\ pc \in {"select", "drive"} /\ open \in AnyChat /\ shown \in AnyChat
  /\ tdOpens \in [Chats -> Nat]

Init ==
  /\ stored = <<[kind |-> "main", chats |-> SetToSeq(Chats)],
               [kind |-> "archive", chats |-> << >>]>>
  /\ moves = 0
  /\ view = [lists |-> <<[kind |-> "main", chats |-> << >>]>>, active |-> 1, selected |-> 0]
  /\ collapsed = FALSE /\ focus = "list"
  /\ composer = Blank /\ overlay = NoOverlay /\ intent = Nothing
  /\ pc = "select"
  /\ open = NoChat /\ shown = NoChat
  /\ tdOpens = [c \in Chats |-> 0]
  /\ request = Nothing

-----------------------------------------------------------------------------
\* The router: a chat goes to the top of a list (a folder shows chats of the other
\* two), and leaves the other; a chat leaves a list; a folder comes or goes.
Moved == moves < MaxMoves /\ moves' = moves + 1 /\ UNCHANGED <<appVars, pc, loopVars>>

\* The index of a chat in a list that has it.
IndexOf(chats, c) == CHOOSE k \in 1 .. Len(chats) : chats[k] = c

Without(list, c) ==
  IF c \in ToSet(list.chats)
  THEN [list EXCEPT !.chats = RemoveAt(@, IndexOf(@, c))]
  ELSE list
OnTop(list, c) == [list EXCEPT !.chats = <<c>> \o Without(list, c).chats]

Bump ==
  /\ Moved
  /\ \E c \in Chats, n \in 1 .. Len(stored) :
       stored' = [k \in 1 .. Len(stored) |->
                    IF k = n THEN OnTop(stored[k], c)
                    ELSE IF {k, n} = {1, 2} THEN Without(stored[k], c) ELSE stored[k]]

Leave ==
  /\ Moved
  /\ \E c \in Chats, n \in 1 .. Len(stored) :
       stored' = [stored EXCEPT ![n] = Without(@, c)]

\* The index of a list by kind; the first one if there is none.
IndexOfKind(lists, kind) ==
  IF \E k \in 1 .. Len(lists) : lists[k].kind = kind
  THEN CHOOSE k \in 1 .. Len(lists) : lists[k].kind = kind
  ELSE 1

\* A new list of folders: those that stay keep their chats.
SetFolders ==
  /\ Moved
  /\ \E folders \in {Folders, << >>} \cup {<<f>> : f \in ToSet(Folders)} :
       stored' = SubSeq(stored, 1, 2) \o
                   [k \in 1 .. Len(folders) |->
                      IF \E n \in 1 .. Len(stored) : stored[n].kind = folders[k]
                      THEN stored[IndexOfKind(stored, folders[k])]
                      ELSE [kind |-> folders[k], chats |-> << >>]]

-----------------------------------------------------------------------------
\* ChatListView

ActiveChats(v) == v.lists[v.active].chats
SelectedChat(v) ==
  IF v.selected < Len(ActiveChats(v)) THEN ActiveChats(v)[v.selected + 1] ELSE NoChat

Clamped(row, chats) ==
  IF Len(chats) = 0 THEN 0 ELSE IF row < Len(chats) THEN row ELSE Len(chats) - 1

SelectNext(v) == [v EXCEPT !.selected = Clamped(@ + 1, ActiveChats(v))]
SelectPrev(v) == [v EXCEPT !.selected = IF @ = 0 THEN 0 ELSE @ - 1]

\* A chat that is not in the active list leaves the cursor alone.
SelectChat(v, c) ==
  IF c \in ToSet(ActiveChats(v))
  THEN [v EXCEPT !.selected = IndexOf(ActiveChats(v), c) - 1]
  ELSE v

\* Mutant: the cursor's row is kept as it is.
ProjectUnclamped(v, lists) ==
  [v EXCEPT !.lists = lists, !.active = IndexOfKind(lists, v.lists[v.active].kind)]

\* Mutant: the active list is found again by its index.
ProjectByIndex(v, lists) ==
  LET active == IF v.active <= Len(lists) THEN v.active ELSE 1
  IN [lists |-> lists, active |-> active, selected |-> Clamped(v.selected, lists[active].chats)]

\* project: the active list is found again by its kind, the cursor keeps its row.
Project(v, lists) ==
  LET active == IndexOfKind(lists, v.lists[v.active].kind)
  IN [lists |-> lists, active |-> active, selected |-> Clamped(v.selected, lists[active].chats)]

\* next_list and prev_list go to the top of another list.
GoToList(v, n) == [v EXCEPT !.active = n, !.selected = 0]

-----------------------------------------------------------------------------
\* The loop's select: one event, and then its drives.
Event ==
  /\ pc = "select" /\ pc' = "drive"
  /\ request' = Nothing
  /\ UNCHANGED <<storeVars, open, shown, tdOpens>>

\* A key or a click under no overlay, under one, and one that leaves an intent alone.
Browsing == Event /\ overlay = NoOverlay
Under(kind) == Event /\ overlay.kind = kind

\* reproject_chats, on a Chats or Lagged signal.
Reproject ==
  /\ Event
  /\ view' = Project(view, stored)
  /\ UNCHANGED <<collapsed, focus, composer, overlay, intent>>

\* Any event that leaves this module's part alone.
Tick == Event /\ UNCHANGED appVars

\* The keys in the chat list, and the wheel over it.
MoveCursor ==
  /\ Browsing /\ ~collapsed
  /\ view' \in {SelectNext(view), SelectPrev(view)}
  /\ UNCHANGED <<collapsed, focus, composer, overlay, intent>>

SwitchList ==
  /\ Browsing /\ focus = "list"
  /\ LET n == Len(view.lists) IN
       view' \in {GoToList(view, (view.active % n) + 1), GoToList(view, ((view.active + n - 2) % n) + 1)}
  /\ UNCHANGED <<collapsed, focus, composer, overlay, intent>>

Following(pane) == CASE pane = "list" -> "history" [] pane = "history" -> "composer" [] OTHER -> "list"
Preceding(pane) == CASE pane = "list" -> "composer" [] pane = "history" -> "list" [] OTHER -> "history"

\* Tab and Shift-Tab: a collapsed chat list is passed over.
CycleFocus ==
  /\ Browsing
  /\ \/ focus' = IF collapsed /\ focus = "composer" THEN "history" ELSE Following(focus)
     \/ focus' = IF collapsed /\ focus = "history" THEN "composer" ELSE Preceding(focus)
  /\ UNCHANGED <<view, collapsed, composer, overlay, intent>>

\* SetFocus: Enter in the list, i in the history, a click into a pane.
SetFocus ==
  /\ Browsing
  /\ focus' \in {"list", "history", "composer"} /\ (collapsed => focus' # "list")
  /\ UNCHANGED <<view, collapsed, composer, overlay, intent>>

\* Mutant: the collapsed list keeps the focus.
ToggleKeepsFocus ==
  /\ Browsing /\ focus # "composer"
  /\ collapsed' = ~collapsed
  /\ UNCHANGED <<view, focus, composer, overlay, intent>>

ToggleCollapse ==
  /\ Browsing /\ focus # "composer"
  /\ collapsed' = ~collapsed
  /\ focus' = IF ~collapsed /\ focus = "list" THEN "history" ELSE focus
  /\ UNCHANGED <<view, composer, overlay, intent>>

\* A click on a chat's row, or the choice of a search hit.
OpenChat ==
  /\ Browsing
  /\ \E c \in Chats : view' = SelectChat(view, c)
  /\ focus' = "history"
  /\ UNCHANGED <<collapsed, composer, overlay, intent>>

-----------------------------------------------------------------------------
\* Composer

\* Typing; erasing it all, which keeps the mode; or cancelling.
Write ==
  /\ Browsing /\ focus = "composer"
  /\ composer' \in {[composer EXCEPT !.text = TRUE], [composer EXCEPT !.text = FALSE], Blank}
  /\ UNCHANGED <<listVars, overlay, intent>>

\* Reply to the selected message, keeping what is typed; or edit it, replacing that.
TargetMessage ==
  /\ Browsing /\ focus = "history" /\ shown # NoChat
  /\ composer' \in {[composer EXCEPT !.mode = "reply", !.target = shown],
                    [mode |-> "edit", target |-> shown, text |-> TRUE]}
  /\ focus' = "composer"
  /\ UNCHANGED <<view, collapsed, overlay, intent>>

\* submit: an empty text is not.
Submit ==
  /\ Browsing /\ focus = "composer"
  /\ composer.text
  /\ intent' = Act(composer.mode, composer.target, NoChat, shown)
  /\ composer' = Blank
  /\ UNCHANGED <<listVars, overlay>>

-----------------------------------------------------------------------------
\* The overlays that act on the selected message or the open chat.

\* The forward picker is a copy of the chat list.
OpenOverlay ==
  /\ Browsing /\ focus = "history"
  /\ \E kind \in {"delete", "forward", "reaction", "media"} :
       /\ kind # "media" => shown # NoChat
       /\ overlay' = [kind |-> kind, chat |-> shown, picker |-> view]
  /\ UNCHANGED <<listVars, composer, intent>>

CancelOverlay ==
  /\ Event /\ overlay # NoOverlay
  /\ overlay' = NoOverlay
  /\ UNCHANGED <<listVars, composer, intent>>

PickTarget ==
  /\ Under("forward")
  /\ overlay' \in {[overlay EXCEPT !.picker = SelectNext(@)], [overlay EXCEPT !.picker = SelectPrev(@)]}
  /\ UNCHANGED <<listVars, composer, intent>>

Confirmed(act) == overlay' = NoOverlay /\ intent' = act /\ UNCHANGED <<listVars, composer>>

\* DeletePrompt holds the message it was opened for, ...
ConfirmDelete ==
  Under("delete") /\ Confirmed(Act("delete", overlay.chat, overlay.chat, overlay.chat))

\* ... and so does the forward picker; without a target nothing is forwarded.
ConfirmForward ==
  /\ Under("forward")
  /\ LET to == SelectedChat(overlay.picker) IN
       Confirmed(IF to = NoChat THEN Nothing ELSE Act("forward", overlay.chat, to, overlay.chat))

\* A reaction is to the message selected when it is confirmed.
ConfirmReaction ==
  /\ Under("reaction")
  /\ Confirmed(IF shown = NoChat THEN Nothing ELSE Act("reaction", shown, shown, shown))

ConfirmMedia == Under("media") /\ Confirmed(Act("media", NoChat, NoChat, shown))

\* A pin needs no overlay.
PinToggle ==
  /\ Browsing /\ focus = "history" /\ shown # NoChat
  /\ intent' = Act("pin", shown, shown, shown)
  /\ UNCHANGED <<listVars, composer, overlay>>

-----------------------------------------------------------------------------
\* The drives.

\* open_chat_id
OpenChatId == IF focus = "list" THEN NoChat ELSE SelectedChat(view)

\* Mutant: only leaving for the list closes a chat.
OpenCountUnclosed(old, new) ==
  [c \in Chats |-> (tdOpens[c] + IF c = new THEN 1 ELSE 0) - IF c = old /\ new = NoChat THEN 1 ELSE 0]

\* The chat left is closed, and the chat entered is opened.
OpenCount(old, new) ==
  [c \in Chats |-> (tdOpens[c] + IF c = new THEN 1 ELSE 0) - IF c = old THEN 1 ELSE 0]

\* What an intent comes to: text and media go to the open chat, or nowhere.
Sent(chat) ==
  IF intent = Nothing \/ intent.to # NoChat THEN intent
  ELSE IF chat = NoChat THEN Nothing ELSE [intent EXCEPT !.to = chat]

\* Mutant: the lists are projected again before the open chat is worked out.
DriveReprojects ==
  /\ pc = "drive"
  /\ view' = Project(view, stored)
  /\ open' = IF focus = "list" THEN NoChat ELSE SelectedChat(view')
  /\ shown' = IF open' # open /\ open' # NoChat THEN open' ELSE shown
  /\ tdOpens' = IF open' = open THEN tdOpens ELSE OpenCount(open, open')
  /\ request' = Sent(open')
  /\ intent' = Nothing
  /\ pc' = "select"
  /\ UNCHANGED <<storeVars, collapsed, focus, composer, overlay>>

\* drive_open_chat, then drive_outbound, _forward, _reaction, _pin, _media, _delete.
Drive ==
  /\ pc = "drive"
  /\ open' = OpenChatId
  /\ shown' = IF open' # open /\ open' # NoChat THEN open' ELSE shown
  /\ tdOpens' = IF open' = open THEN tdOpens ELSE OpenCount(open, open')
  /\ request' = Sent(open')
  /\ intent' = Nothing
  /\ pc' = "select"
  /\ UNCHANGED <<storeVars, listVars, composer, overlay>>

Next ==
  \/ Bump \/ Leave \/ SetFolders
  \/ Reproject \/ Tick
  \/ MoveCursor \/ SwitchList \/ CycleFocus \/ SetFocus \/ ToggleCollapse \/ OpenChat
  \/ Write \/ TargetMessage \/ Submit
  \/ OpenOverlay \/ CancelOverlay \/ PickTarget
  \/ ConfirmDelete \/ ConfirmForward \/ ConfirmReaction \/ ConfirmMedia \/ PinToggle
  \/ Drive

Spec == Init /\ [][Next]_vars

-----------------------------------------------------------------------------
\* The cursor is on a row of the active list, whatever lists come and go under it:
\* a key never finds a list with chats and no chat selected.
CursorOnARow ==
  view.selected < Len(ActiveChats(view)) \/ (view.selected = 0 /\ ActiveChats(view) = << >>)

\* A re-projection leaves the user in the list where they were, as long as it is
\* there: "a folder appearing or disappearing never silently jumps the active list".
StaysInList ==
  [][LET kind == view.lists[view.active].kind IN
       view'.lists # view.lists =>
         \/ view'.lists[view'.active].kind = kind
         \/ \A k \in 1 .. Len(view'.lists) : view'.lists[k].kind # kind]_vars

\* Between events the conversation pane shows the open chat, the one under the
\* cursor, which is on a row; and it alone is open for TDLib once the calls have
\* run in their order (the state being well typed).
PaneIsOpenChat ==
  /\ TypeOK
  /\ CursorOnARow
  /\ pc = "select" =>
       /\ open # NoChat => shown = open
       /\ \A c \in Chats : tdOpens[c] = IF c = open THEN 1 ELSE 0

\* A text or an attachment goes to the chat the pane showed when it was given, and a
\* deletion or a forward takes the message it was asked for: no re-projection comes
\* between what the user saw and what is sent.
SentAsShown ==
  request # Nothing =>
    request.meant = IF request.kind \in {"compose", "reply", "edit", "media"}
                    THEN request.to ELSE request.from

=============================================================================
