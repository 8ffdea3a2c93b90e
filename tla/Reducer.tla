------------------------------ MODULE Reducer ------------------------------
(***************************************************************************)
(* App, the reducer of app.rs, in the loop that feeds it: one step is a    *)
(* turn of the loop of lib.rs.  An event (a key, the mouse, an answer, a   *)
(* signal) is turned into an action and applied; the drives take what it   *)
(* left for them; the frame is drawn if something visible changed.  The    *)
(* mouse is answered from the rows of the last frame drawn.  The chats and *)
(* the text being edited are Cockpit's and ComposerText's, and what a      *)
(* projection does to the selection is Conversation's: here it may be any. *)
(***************************************************************************)
EXTENDS Keymap, Forms

CONSTANTS
  ChatRows,   \* the rows of the chat list, from the top
  Private,    \* those a secret chat can be started from or closed
  MessageIds, \* ids of the messages, above 0
  Own,        \* the messages we sent
  WithText,   \* the messages whose body is text
  WithFile,   \* the messages with a file
  Quotes,     \* the message each replies to, 0 for none
  Answers,    \* the hits a search may find
  HomeOf,     \* the chat of each hit
  People,     \* the contacts a search may find
  Spellings   \* what may be typed into each field of the settings

ASSUME ReducerAssumption ==
  /\ MessageIds \subseteq Nat \ {0} /\ Own \cup WithText \cup WithFile \subseteq MessageIds
  /\ Quotes \in [MessageIds -> MessageIds \cup {0}]
  /\ \A s \in {ChatRows} \cup Answers \cup People : s \in Seq(ToSet(s))

VARIABLES
  focus, collapsed, cursor,   \* the pane with focus, the list's width, its selected row
  pane,       \* the messages loaded and the one selected
  composer,   \* its text and what submitting it will do
  overlay, form,   \* the overlay open and what it edits
  toast,      \* a notice is up
  storage,    \* the settings App holds
  quit,
  dirty,      \* still to be drawn when the loop waits for an event
  remeasured, \* the last frame was laid out differently from the one before
  frame,      \* what the last frame showed
  handed,     \* what the drives took in the last turn
  live        \* the settings the sweep and the file go by

panes == <<focus, collapsed, cursor, pane>>
modal == <<overlay, form>>
held == <<storage, quit>>
appVars == <<panes, composer, modal, toast, held>>
turnVars == <<appVars, dirty, remeasured, frame, handed, live>>

Panes == {p \in [loaded : SUBSET MessageIds, sel : MessageIds \cup {0}] :
            p.sel \in p.loaded \/ p = [loaded |-> {}, sel |-> 0]}
NoForm == [empty |-> TRUE]
Fresh == [text |-> "empty", mode |-> "send", to |-> 0]
Intent(kind, on, by) == [kind |-> kind, on |-> on, by |-> by]

View == [focus |-> focus, collapsed |-> collapsed, cursor |-> cursor, pane |-> pane,
         composer |-> composer, overlay |-> overlay, form |-> form, toast |-> toast]

AppInit ==
  /\ focus = "ChatList" /\ collapsed = FALSE /\ cursor = 1
  /\ pane = [loaded |-> {}, sel |-> 0] /\ composer = Fresh
  /\ overlay = "None" /\ form = NoForm /\ toast = FALSE
  /\ storage = [f \in AllFields |-> IF f = "graphics" THEN TRUE ELSE Unlimited]
  /\ quit = FALSE /\ dirty = FALSE /\ remeasured = TRUE /\ frame = View
  /\ handed = {} /\ live = storage

-----------------------------------------------------------------------------
\* The rest of a turn: the drives take the intents; drive_settings and
\* drive_graphics_setting put the settings into effect; a dirty frame is drawn.
InEffect(intents) ==
  [f \in AllFields |->
     LET new == {i.by[f] : i \in {x \in intents : x.kind = IF f = "graphics" THEN "graphics"
                                                            ELSE "storage"}}
     IN IF new = {} THEN live[f] ELSE CHOOSE v \in new : TRUE]
TurnEnds(touched, intents) ==
  LET drawn == (touched \/ dirty) /\ ~quit' IN
  /\ handed' = intents
  /\ live' = InEffect(intents)
  /\ frame' = IF drawn THEN View' ELSE frame
  /\ dirty' = FALSE
  /\ remeasured' = (drawn /\ <<composer.text, collapsed>>' # <<frame.composer.text, frame.collapsed>>)
Repaint == TurnEnds(TRUE, {})
Quiet == TurnEnds(FALSE, {})
Hand(intent) == TurnEnds(TRUE, {intent})

\* set_conversation_viewport and set_conversation_width, after a draw that measured the
\* history anew: the selection may be anchored again, for the frame after the next event.
Reanchor ==
  /\ remeasured /\ ~quit
  /\ \E m \in pane.loaded : pane' = [pane EXCEPT !.sel = m]
  /\ dirty' = TRUE /\ remeasured' = FALSE /\ handed' = {}
  /\ UNCHANGED <<focus, collapsed, cursor, composer, modal, toast, held, frame, live>>

\* The actions keys and the wheel ask for.
KeyActions == {<<o, f, ActionOf[o][f][k]>> : o \in Overlays, f \in ToSet(Foci), k \in KeyPresses}
WheelActions == [o \in Overlays |->
  CASE o = "None" -> {"SelectNext", "SelectPrev", "ScrollDown", "ScrollUp"}
    [] o \in {"Help", "SearchResults", "Forward", "ContactSearchResults", "Reaction"} -> {"Next", "Prev"}
    [] o = "Settings" -> {"NextField", "PrevField"}
    [] OTHER -> {}]
\* A list without width is under no pointer.
Wheels(action) ==
  action \in WheelActions[overlay] /\ (action \in {"SelectNext", "SelectPrev"} => ~frame.collapsed)
On(action) == ~quit /\ (<<overlay, focus, action>> \in KeyActions \/ Wheels(action))
In(overlays, action) == overlay \in overlays /\ On(action)
Close == overlay' = "None" /\ form' = NoForm
Open(o, f) == overlay' = o /\ form' = f

-----------------------------------------------------------------------------
\* The panes.  A chat opened, by its row or by the focus, is projected in the same turn.
OpenChatId(f, c) == IF f = "ChatList" THEN 0 ELSE c
Projects ==
  IF OpenChatId(focus, cursor)' \in {0, OpenChatId(focus, cursor)} THEN UNCHANGED pane
  ELSE pane' \in Panes
Beneath == UNCHANGED <<composer, modal, toast, held>>

Position(f) == CHOOSE i \in DOMAIN Foci : Foci[i] = f
Cycled(f, by) == Foci[((Position(f) + by - 1) % Len(Foci)) + 1]
CycleFocus ==
  \E by \in {1, Len(Foci) - 1} :
    /\ On(IF by = 1 THEN "FocusNext" ELSE "FocusPrev")
    /\ focus' = LET next == Cycled(focus, by)
                IN IF collapsed /\ next = "ChatList" THEN Cycled(next, by) ELSE next
    /\ UNCHANGED <<collapsed, cursor>> /\ Projects /\ Beneath /\ Repaint

\* Enter in the list, i in the history, and a click on no row of either.
SetFocus ==
  \E f \in ToSet(Foci) :
    /\ \/ f = "History" /\ On("OpenInHistory")
       \/ f = "Composer" /\ On("Write")
       \/ ~quit /\ overlay = "None" /\ (f = "ChatList" => ~frame.collapsed)
    /\ focus' = f
    /\ UNCHANGED <<collapsed, cursor>> /\ Projects /\ Beneath /\ Repaint

ToggleChatListCollapse ==
  /\ On("ToggleChatListCollapse")
  /\ collapsed' = ~collapsed
  /\ focus' = IF collapsed' /\ focus = "ChatList" THEN "History" ELSE focus
  /\ UNCHANGED cursor /\ Projects /\ Beneath /\ Repaint

MoveCursor ==
  \E a \in {"SelectNext", "SelectPrev", "NextList", "PrevList"} :
    /\ On(a)
    /\ cursor' = CASE a = "SelectNext" -> StepRow(cursor, Len(ChatRows), "Next")
                   [] a = "SelectPrev" -> StepRow(cursor, Len(ChatRows), "Prev")
                   [] OTHER -> 1
    /\ UNCHANGED <<focus, collapsed>> /\ Projects /\ Beneath /\ Repaint

\* A click on a chat's row.
OpenChat ==
  /\ ~quit /\ overlay = "None" /\ ~frame.collapsed
  /\ cursor' \in DOMAIN ChatRows /\ focus' = "History"
  /\ UNCHANGED collapsed /\ Projects /\ Beneath /\ Repaint

\* A click on a message's row.
SelectMessageAt ==
  /\ ~quit /\ overlay = "None"
  /\ \E m \in frame.pane.loaded : pane' = [pane EXCEPT !.sel = IF m \in pane.loaded THEN m ELSE @]
  /\ focus' = "History" /\ UNCHANGED <<collapsed, cursor>> /\ Beneath /\ Repaint

\* Scrolling moves the selection; up from the oldest row it asks for older messages.
Scroll ==
  \E a \in {"ScrollDown", "ScrollUp", "PageDown", "PageUp", "JumpToNewest"} :
  \E older \in SUBSET {Intent("older", 0, 0)} :
    /\ On(a)
    /\ older # {} => a \in {"ScrollUp", "PageUp"} /\ pane.loaded # {}
    /\ pane' \in {p \in Panes : p.loaded = pane.loaded}
    /\ UNCHANGED <<focus, collapsed, cursor>> /\ Beneath /\ TurnEnds(TRUE, older)

JumpToQuoted ==
  /\ On("JumpToQuoted") /\ pane.sel # 0 /\ Quotes[pane.sel] \in pane.loaded
  /\ pane' = [pane EXCEPT !.sel = Quotes[pane.sel]]
  /\ UNCHANGED <<focus, collapsed, cursor>> /\ Beneath /\ Repaint

-----------------------------------------------------------------------------
\* The composer, and what the history does with the message selected.
Writes(c) == composer' = c /\ UNCHANGED <<panes, modal, toast, held>>
Ping == {Intent("typing", 0, 0)}

ComposerInput ==
  \E a \in {"Input", "ComposerNewline"}, char \in {" ", "x"} :
    /\ In({"None"}, a) /\ (a = "ComposerNewline" => char = " ")
    /\ Writes([composer EXCEPT !.text = Typed(@, char)]) /\ TurnEnds(TRUE, Ping)
ComposerBackspace ==
  /\ In({"None"}, "Backspace")
  /\ \E t \in Backspaced(composer.text) :
       Writes([composer EXCEPT !.text = t]) /\ TurnEnds(TRUE, IF t = "empty" THEN {} ELSE Ping)
\* drive_outbound
ComposerSubmit ==
  /\ On("ComposerSubmit") /\ composer.text = "text"
  /\ Writes(Fresh) /\ Hand(Intent(composer.mode, composer.to, composer.text))
ComposerCancel == On("ComposerCancel") /\ Writes(Fresh) /\ Repaint

\* The key of a history command, with a message selected; Explain says why it is not done.
OnSelected(action) == On(action) /\ pane.sel # 0
Explain == toast' = TRUE /\ UNCHANGED <<panes, composer, modal, held>> /\ Repaint

ReplyMessage ==
  /\ OnSelected("ReplyMessage") /\ focus' = "Composer"
  /\ composer' = [composer EXCEPT !.mode = "reply", !.to = pane.sel]
  /\ UNCHANGED <<collapsed, cursor, modal, toast, held>> /\ Projects /\ Repaint
EditMessage ==
  /\ OnSelected("EditMessage")
  /\ IF pane.sel \in Own \cap WithText
     THEN /\ composer' = [text |-> "text", mode |-> "edit", to |-> pane.sel] /\ focus' = "Composer"
          /\ UNCHANGED <<collapsed, cursor, modal, toast, held>> /\ Projects /\ Repaint
     ELSE Explain

\* drive_pin, drive_copy and drive_save, which tell how it went.
PinToggle ==
  /\ OnSelected("PinToggle") /\ UNCHANGED appVars /\ Hand(Intent("pin", pane.sel, 0))
Takes(kind) ==
  toast' = TRUE /\ UNCHANGED <<panes, composer, modal, held>> /\ Hand(Intent(kind, pane.sel, 0))
CopyMessage ==
  OnSelected("CopyMessage") /\ IF pane.sel \in WithText THEN Takes("copy") ELSE Explain
SaveMedia == On("SaveMedia") /\ IF pane.sel \in WithFile THEN Takes("save") ELSE Explain

\* Ctrl-R, Ctrl-G, q and Ctrl-C.
Resync ==
  /\ On("Resync") /\ toast' = TRUE /\ UNCHANGED <<panes, composer, modal, held>>
  /\ Hand(Intent("resync", 0, 0))
NoticeDismiss ==   \* another may be waiting
  /\ On("NoticeDismiss") /\ toast /\ toast' \in BOOLEAN
  /\ UNCHANGED <<panes, composer, modal, held>> /\ Repaint
Quit ==   \* a key, or the end of the input
  /\ ~quit /\ quit' = TRUE /\ UNCHANGED <<panes, composer, modal, toast, storage>> /\ Quiet

-----------------------------------------------------------------------------
\* The overlays.  Under all of them the panes stay as they are.
Under == UNCHANGED <<panes, composer, toast, held>>

Opens(action, o, f) == In({"None"}, action) /\ Open(o, f) /\ Under /\ Repaint
OpenOverlay ==
  \/ Opens("ToggleHelp", "Help", [scroll |-> 0])
  \/ Opens("SearchOpen", "SearchInput", [query |-> "empty"])
  \/ Opens("ContactSearchOpen", "ContactSearchInput", [query |-> "empty"])
  \/ Opens("AttachOpen", "SendMedia", NoMedia)
  \/ Opens("SettingsOpen", "Settings", FromSettings(storage))
  \/ Opens("LogoutOpen", "LogoutConfirm", NoForm)
  \/ pane.sel # 0 /\ Opens("ReactionOpen", "Reaction", NewPicker)
  \/ pane.sel # 0 /\ Opens("DeleteMessage", "DeleteConfirm", [of |-> pane.sel, revoke |-> FALSE])
  \/ pane.sel # 0 /\ Opens("ForwardMessage", "Forward", [of |-> pane.sel, row |-> cursor, back |-> NoForm])
  \/ ChatRows[cursor] \in Private /\ Opens("SecretOpen", "SecretChat", [with |-> ChatRows[cursor]])

\* Esc: a forward goes back to where it was started, a line of emoji to the palette.
Cancel ==
  /\ On("Cancel") \/ (overlay = "Help" /\ On("ToggleHelp"))
  /\ CASE overlay = "Forward" /\ form.back # NoForm -> Open("SearchResults", form.back)
       [] overlay = "Reaction" /\ IsCustom(form) -> Open(overlay, [form EXCEPT !.custom = "none"])
       [] OTHER -> Close
  /\ Under /\ Repaint

Edits(f) == Open(overlay, f) /\ Under /\ Repaint

\* The lines of the searches, of the attachment and of the picker.
WithLine(text) ==
  CASE overlay \in {"SearchInput", "ContactSearchInput"} -> [form EXCEPT !.query = text]
    [] overlay = "SendMedia" -> EditMedia(form, text)
    [] OTHER -> [form EXCEPT !.custom = text]
Line == CASE overlay \in {"SearchInput", "ContactSearchInput"} -> form.query
          [] overlay = "SendMedia" -> form[form.field]
          [] OTHER -> form.custom
EditLine ==
  /\ overlay \in TextOverlays \ {"Settings"} /\ (overlay = "Reaction" => IsCustom(form))
  /\ \/ \E char \in {" ", "x"} : On("Input") /\ Edits(WithLine(Typed(Line, char)))
     \/ On("Backspace") /\ \E t \in Backspaced(Line) : Edits(WithLine(t))

\* The fields of the settings: a run of keys in one of them; and Tab.
EditSettings ==
  In({"Settings"}, "Input") /\ \E s \in Spellings[Fields[form.at]] : Edits(EditField(form, s))
NextField ==
  \/ In({"Settings"}, "NextField") /\ Edits(MoveField(form, 1))
  \/ In({"Settings"}, "PrevField") /\ Edits(MoveField(form, Len(Fields) - 1))
  \/ In({"SendMedia"}, "NextField") /\ Edits(OtherField(form))
  \/ In({"DeleteConfirm"}, "NextField")
       /\ Edits(IF form.of \in Own THEN [form EXCEPT !.revoke = ~@] ELSE form)

\* The lists: their length, and a step of the row selected.
Lists == {"SearchResults", "ContactSearchResults", "Forward", "Reaction"}
Length(o, f) ==
  CASE o \in {"SearchResults", "ContactSearchResults"} -> Len(f.hits)
    [] o = "Forward" -> Len(ChatRows)
    [] OTHER -> PaletteLen
MoveRow ==
  \E by \in {"Next", "Prev"} :
    /\ On(by) \/ (overlay = "Reaction" /\ On(IF by = "Next" THEN "j" ELSE "k"))
    /\ overlay \in Lists /\ (overlay = "Reaction" => ~IsCustom(form))
    /\ Edits([form EXCEPT !.row = StepRow(@, Length(overlay, form), by)])
EnterCustom ==
  In({"Reaction"}, "c") /\ ~IsCustom(form) /\ Edits([form EXCEPT !.custom = "empty"])
HelpScroll ==
  \/ In({"Help"}, "Next") /\ Edits([scroll |-> IF form.scroll < HelpLines - 1 THEN form.scroll + 1 ELSE form.scroll])
  \/ In({"Help"}, "Prev") /\ Edits([scroll |-> IF form.scroll > 0 THEN form.scroll - 1 ELSE 0])

\* Enter on a query: drive_search and drive_contact_search.
SearchSubmit ==
  /\ In({"SearchInput", "ContactSearchInput"}, "Confirm") /\ form.query = "text"
  /\ Open(IF overlay = "SearchInput" THEN "SearchResults" ELSE "ContactSearchResults",
          [hits |-> << >>, row |-> 1])
  /\ Under /\ Hand(Intent(overlay, 0, form.query))

\* Enter on the row selected, or a click on a line the last frame drew.
Drawn(o, f) ==
  IF o \notin Lists \/ (o = "Reaction" /\ IsCustom(f)) THEN {} ELSE DrawnRows(f.row, Length(o, f))
Clicked ==
  {RowAt(frame.form.row, line) : line \in
     IF Drawn(frame.overlay, frame.form) = {} THEN {} ELSE DrawnLines(Length(frame.overlay, frame.form))}
Highlighted(o) ==
  LET n == Length(o, form)
      rows == {form.row} \cup {IF r <= n THEN r ELSE n : r \in Clicked}
  IN IF In({o}, "Confirm") /\ n > 0 THEN {[form EXCEPT !.row = r] : r \in rows} ELSE {}

ConfirmSearchResult ==
  \E f \in Highlighted("SearchResults") :
    LET hit == f.hits[f.row]
        at == {i \in DOMAIN ChatRows : ChatRows[i] = HomeOf[hit]}   \* none in another list
    IN
    /\ cursor' = IF at = {} THEN cursor ELSE CHOOSE i \in at : TRUE
    /\ focus' = "History" /\ Close /\ UNCHANGED <<collapsed, composer, toast, held>>
    /\ Projects /\ Hand(Intent("jump", hit, 0))
ConfirmContact ==
  \E f \in Highlighted("ContactSearchResults") :
    Open("SecretChat", [with |-> f.hits[f.row]]) /\ Under /\ Repaint
ConfirmForward ==
  \E f \in Highlighted("Forward") : Close /\ Under /\ Hand(Intent("forward", f.of, f.row))
ConfirmReaction ==
  \E f \in Highlighted("Reaction") :
    /\ Close /\ Under
    /\ TurnEnds(TRUE, {Intent("react", pane.sel, e) : e \in {x \in ConfirmedEmoji(f) : pane.sel # 0}})
ForwardOpen ==
  /\ In({"SearchResults"}, "ForwardOpen") /\ form.hits # << >>
  /\ Open("Forward", [of |-> form.hits[form.row], row |-> cursor, back |-> form]) /\ Under /\ Repaint

\* drive_media, drive_secret, drive_delete
Agree ==
  \/ /\ In({"SendMedia"}, "Confirm") /\ form.path = "text"
     /\ Close /\ Under /\ Hand(Intent("media", form.path, form.caption))
  \/ In({"SecretChat"}, "Confirm") /\ Close /\ Under /\ Hand(Intent("secret", form.with, 0))
  \/ In({"DeleteConfirm"}, "Confirm") /\ Close /\ Under /\ Hand(Intent("delete", form.of, form.revoke))

\* Mutant: a changed graphics setting is applied and not recorded for the loop.
SettingsIntentsStorage(new) == {Intent("storage", 0, new)}
SettingsIntents(new) ==
  {Intent("storage", 0, new)} \cup
  {Intent("graphics", 0, new) : f \in {x \in {"graphics"} : new[x] # storage[x]}}
\* A save that fails is told; the settings stay in effect.
SettingsConfirm ==
  /\ In({"Settings"}, "Confirm") /\ UNCHANGED <<panes, composer, quit>>
  /\ IF Refused(form) # {}
     THEN Open(overlay, Reject(form)) /\ UNCHANGED <<toast, storage>> /\ Repaint
     ELSE /\ Close /\ storage' = Confirmed(form) /\ toast' \in {toast, TRUE}
          /\ TurnEnds(TRUE, SettingsIntents(storage'))

\* drive_logout: the loop ends, or the failure is told.
LogoutConfirm ==
  /\ In({"LogoutConfirm"}, "Confirm") /\ Close
  /\ \/ quit' = TRUE /\ UNCHANGED toast
     \/ toast' = TRUE /\ UNCHANGED quit
  /\ UNCHANGED <<panes, composer, storage>> /\ Hand(Intent("logout", 0, 0))

-----------------------------------------------------------------------------
\* What else wakes the loop.

\* Mutant: the hits are put in the view and no frame is asked for.
SetResultsQuietly(f, hits) == Open(overlay, [f EXCEPT !.hits = hits, !.row = 1]) /\ Under /\ Quiet
\* set_search_results and set_contact_results; under the forward picker they wait.
SetResults(f, hits) == Open(overlay, [f EXCEPT !.hits = hits, !.row = 1]) /\ Under /\ Repaint
Answered ==
  /\ ~quit
  /\ \/ overlay = "SearchResults" /\ \E hits \in Answers : SetResults(form, hits)
     \/ overlay = "ContactSearchResults" /\ \E hits \in People : SetResults(form, hits)
     \/ /\ overlay = "Forward" /\ form.back # NoForm
        /\ \E hits \in Answers :
             Edits([form EXCEPT !.back = [hits |-> hits, row |-> 1]])

\* The open chat's messages, read again; a landing jump may select another.
Reproject ==
  /\ ~quit /\ OpenChatId(focus, cursor) # 0 /\ pane' \in Panes
  /\ UNCHANGED <<focus, collapsed, cursor, composer, modal, toast, held>> /\ Repaint
Notified == ~quit /\ toast' = TRUE /\ UNCHANGED <<panes, composer, modal, held>> /\ Repaint
NoticeTick ==   \* without a notice leaving, no frame
  /\ ~quit /\ toast /\ toast' \in BOOLEAN /\ UNCHANGED <<panes, composer, modal, held>> /\ Repaint
\* A tick, a signal, a picture: only a frame; or nothing at all.
Render == ~quit /\ UNCHANGED appVars /\ Repaint
Ignored == ~quit /\ UNCHANGED appVars /\ Quiet
\* A resize measures every pane again.
Resize ==
  /\ ~quit /\ UNCHANGED <<appVars, live>> /\ handed' = {} /\ frame' = View /\ dirty' = FALSE
  /\ remeasured' = TRUE

AppNext ==
  \/ Reanchor \/ Resize \/ Render \/ Ignored \/ Reproject \/ Answered \/ Notified \/ NoticeTick
  \/ CycleFocus \/ SetFocus \/ ToggleChatListCollapse \/ MoveCursor \/ OpenChat
  \/ SelectMessageAt \/ Scroll \/ JumpToQuoted
  \/ ComposerInput \/ ComposerBackspace \/ ComposerSubmit \/ ComposerCancel
  \/ ReplyMessage \/ EditMessage \/ PinToggle \/ CopyMessage \/ SaveMedia
  \/ Resync \/ NoticeDismiss \/ Quit
  \/ OpenOverlay \/ Cancel \/ EditLine \/ EditSettings \/ NextField
  \/ MoveRow \/ EnterCustom \/ HelpScroll \/ SearchSubmit
  \/ ConfirmSearchResult \/ ConfirmContact \/ ConfirmForward \/ ConfirmReaction \/ ForwardOpen
  \/ Agree \/ SettingsConfirm \/ LogoutConfirm

AppSpec == AppInit /\ [][AppNext]_turnVars

-----------------------------------------------------------------------------
\* The frame is what App would draw, but for the selection the history was given back
\* after a draw: the clicks that come are resolved against it.
FrameIsFresh == frame = View \/ (dirty /\ [frame EXCEPT !.pane.sel = pane.sel] = View)

\* An intent is for what the last frame showed: the text in the composer with its mode and
\* target, the message selected (unless it was anchored anew since), the row of a list in
\* sight, the emoji, the person, the scope, the settings as they read.
WasDrawn(i) ==
  CASE i.kind \in {"send", "reply", "edit"} ->
         frame.composer = [text |-> i.by, mode |-> i.kind, to |-> i.on]
    [] i.kind \in {"pin", "save", "copy"} -> dirty \/ i.on = frame.pane.sel
    [] i.kind \in {"SearchInput", "ContactSearchInput"} ->
         frame.overlay = i.kind /\ frame.form.query = i.by
    [] i.kind = "jump" ->
         \E r \in Drawn("SearchResults", frame.form) : frame.form.hits[r] = i.on
    [] i.kind = "forward" -> frame.form.of = i.on /\ i.by \in Drawn("Forward", frame.form)
    [] i.kind = "react" ->
         /\ dirty \/ i.on = frame.pane.sel
         /\ IF IsCustom(frame.form) THEN frame.form.custom = i.by ELSE i.by \in Drawn("Reaction", frame.form)
    [] i.kind = "media" -> frame.form.path = i.on /\ frame.form.caption = i.by
    [] i.kind = "secret" -> frame.overlay = "SecretChat" /\ frame.form.with = i.on
    [] i.kind = "delete" ->
         /\ frame.overlay = "DeleteConfirm" /\ frame.form.of = i.on /\ frame.form.revoke = i.by
         /\ i.by => i.on \in Own
    [] i.kind \in {"storage", "graphics"} ->
         \A f \in AllFields : ParseField(f, frame.form.says[f]) = {i.by[f]}
    [] OTHER -> TRUE

\* Whatever the order of keys, clicks on the rows of the last frame, answers and projections,
\* no visible change goes undrawn, and what the drives are handed in a turn is what the user
\* saw when the turn began; a deletion for everyone is of a message of ours.
ActsOnScreen == [](quit \/ FrameIsFresh) /\ [][\A i \in handed' : WasDrawn(i)]_turnVars

\* How many presses of Esc away the panes are.
Depth == CASE overlay = "None" -> 0
           [] overlay = "Forward" /\ form.back # NoForm -> 2
           [] overlay = "Reaction" /\ IsCustom(form) -> 2
           [] OTHER -> 1

\* A key means one thing in one place: the keymap is sound, every cancelling leads towards the
\* panes, nothing done in an overlay changes the draft in the composer, or the focus but in
\* closing the overlay, and a list without width is never in focus.
KeysKeepTheirPlace ==
  /\ [](KeymapIsSound /\ (collapsed => focus # "ChatList"))
  /\ [][/\ Cancel => Depth' < Depth
        /\ overlay # "None" => composer' = composer /\ (focus # focus' => overlay' = "None")]_turnVars

\* A setting reads back as itself, in whatever unit it is displayed.
DisplaysParse ==
  \A f \in AllFields :
    \A v \in IF f = "graphics" THEN BOOLEAN ELSE {Unlimited} \cup 1 .. MaxCount :
      ParseField(f, DisplayField(f, v)) = {v}

\* The settings App shows are those the sweep and the file go by; they change only when the
\* form is confirmed with something edited, to what its lines say, and a form that is refused
\* points at a line which does not parse.
SettingsAgree ==
  /\ [](DisplaysParse /\ live = storage)
  /\ [](overlay = "Settings" /\ form.error => ParseField(Fields[form.at], form.says[Fields[form.at]]) = {})
  /\ [][/\ storage' # storage =>
             /\ overlay = "Settings" /\ form.says # FromSettings(storage).says
             /\ \A f \in AllFields : storage'[f] \in ParseField(f, form.says[f])
     ]_turnVars

=============================================================================
