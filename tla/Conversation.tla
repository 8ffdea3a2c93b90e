---------------------------- MODULE Conversation ----------------------------
(***************************************************************************)
(* The conversation view (conversation.rs) of one chat under everything    *)
(* that moves it: the loop projects the store's history onto it at its own *)
(* pace, a frame measures the pane, the user scrolls, clicks, follows      *)
(* quotes and search hits, and reacts.  The cursor is a message and a row  *)
(* of it; the view holds no mode, and whether it follows the newest        *)
(* message is worked out from where the cursor stands.                     *)
(*                                                                         *)
(* The store is that of the chat `a`; any other chat stands for all the    *)
(* others, with an empty history.  Messages are known by their ids, in     *)
(* order.                                                                  *)
(***************************************************************************)
EXTENDS HistoryLayout

CONSTANTS
    AtStart,         \* how many messages the chat has when the program starts
    Ports, Widths,   \* the sizes a frame may measure
    MaxChanges       \* bound: changes in the account and of the settings

ASSUME ConversationAssumption ==
    /\ AtStart \in 0..Cardinality(Ids)
    /\ Ports \subseteq Nat /\ Widths \subseteq Nat /\ MaxChanges \in Nat

VARIABLES
    store,     \* the account's state of the chat, as the router folds it
    view,      \* ConversationView
    open,      \* HistoryState.open: "a", "b", or "none"
    jump,      \* App.pending_jump, for a message of the chat; 0 if none
    picker,    \* the message selected when the reaction picker was opened, 0 if closed
    changes,   \* bound counter
    \* Ghosts.
    openedAt,  \* the read mark when the chat was last opened
    seen       \* the newest message when the reader last stood at the newest

vars == <<store, view, open, jump, picker, changes, openedAt, seen>>

Pending == -1   \* the rule's target is not resolved yet
NoRule == 0
FileStates == {"none", "active", "present"}

NewView(chat, v) ==
    [chat |-> chat, msgs |-> <<>>, off |-> 0, skip |-> 0, port |-> v.port, width |-> v.width,
     capable |-> v.capable, files |-> [id \in Ids |-> "none"], rule |-> Pending, below |-> FALSE]

Init ==
    /\ store = [arrived |-> AtStart, gone |-> {}, loaded |-> {}, long |-> {}, failed |-> {},
                others |-> {}, mine |-> {}, files |-> [id \in Ids |-> "none"], inbox |-> 0]
    /\ view = NewView("none", [port |-> 0, width |-> 0, capable |-> FALSE])
    /\ open = "none" /\ jump = 0 /\ picker = 0
    /\ changes = 0 /\ openedAt = 0 /\ seen = 0

Existing == (1..store.arrived) \ store.gone

(***************************************************************************)
(* What the loop reads back: the folded history, oldest first.             *)
(***************************************************************************)
Message(s, id) == [id |-> id, long |-> id \in s.long, failed |-> id \in s.failed,
                   others |-> id \in s.others, mine |-> id \in s.mine]
History(s, chat) ==
    LET upTo[id \in 0..Len(Shape)] ==
            IF id = 0 THEN <<>>
            ELSE IF id \in s.loaded THEN Append(upTo[id - 1], Message(s, id))
            ELSE upTo[id - 1]
    IN IF chat = "a" THEN upTo[Len(Shape)] ELSE <<>>

Inbox(chat) == IF chat = "a" THEN store.inbox ELSE 0

NewestId(v) == IF v.msgs = <<>> THEN 0 ELSE v.msgs[Len(v.msgs)].id

(***************************************************************************)
(* ConversationView::project                                               *)
(***************************************************************************)
\* Mutant: the cursor stays on its row of the list instead of on its message.
HeldByIndex(v, w) ==
    [w EXCEPT !.off = Min({v.off, Max({0, Len(w.msgs) - 1})})]

\* Mutant: a cursor whose message is gone is not brought back into the history.
HeldUnclamped(v, w) ==
    IF HasSelected(v) /\ Selected(v).id \in IdsOf(w.msgs)
    THEN [w EXCEPT !.off = IndexOf(w.msgs, Selected(v).id) - 1]
    ELSE [w EXCEPT !.off = v.off, !.skip = 0]

\* The same messages under a reader who is not at the newest one.
Held(v, w) ==
    LET kept == HasSelected(v) /\ Selected(v).id \in IdsOf(w.msgs) IN
    [w EXCEPT
        !.off = IF kept THEN IndexOf(w.msgs, Selected(v).id) - 1
                ELSE Min({v.off, Max({0, Len(w.msgs) - 1})}),
        !.skip = IF kept THEN v.skip ELSE 0]

\* Mutant: what is new below is told from the number of messages.
GrewBelow(v, w) == v.below \/ Len(w.msgs) > Len(v.msgs)

UnseenBelow(v, w) == v.below \/ NewestId(w) # NewestId(v)

\* Mutant: the newest position is computed before the messages are replaced.
AnchoredTooEarly(v, msgs) ==
    LET w == [v EXCEPT !.msgs = msgs] IN
    IF AtNewest(v) THEN [Anchored(v) EXCEPT !.msgs = msgs, !.below = FALSE]
    ELSE [ClampSkip(Held(v, w)) EXCEPT !.below = UnseenBelow(v, w)]

Refreshed(v, msgs) ==
    LET w == [v EXCEPT !.msgs = msgs] IN
    IF AtNewest(v) THEN [Anchored(w) EXCEPT !.below = FALSE]
    ELSE [ClampSkip(Held(v, w)) EXCEPT !.below = UnseenBelow(v, w)]

\* Mutant: a chat opened again keeps the rule of the last time.
RuleKept(v, inbox, fresh) ==
    IF v.rule = Pending /\ v.msgs # <<>>
    THEN LET unread == {id \in IdsOf(v.msgs) : ~Shape[id].own /\ id > inbox}
         IN [v EXCEPT !.rule = IF unread = {} THEN NoRule ELSE Min(unread)]
    ELSE v

\* The rule above the first unread message is set once per opening, as soon as
\* there are messages.
RuleResolved(v, inbox, fresh) ==
    LET unread == {id \in IdsOf(v.msgs) : ~Shape[id].own /\ id > inbox}
        pending == fresh \/ v.rule = Pending
    IN CASE ~pending -> v
         [] pending /\ v.msgs = <<>> -> [v EXCEPT !.rule = Pending]
         [] OTHER -> [v EXCEPT !.rule = IF unread = {} THEN NoRule ELSE Min(unread)]

Projected(v, chat, msgs, inbox, fresh) ==
    RuleResolved(IF v.chat = chat THEN Refreshed(v, msgs)
                 ELSE Anchored([NewView(chat, v) EXCEPT !.msgs = msgs]), inbox, fresh)

\* select_message: the header of a loaded message.
Select(v, id) ==
    IF id \in IdsOf(v.msgs) THEN [v EXCEPT !.off = IndexOf(v.msgs, id) - 1, !.skip = 0] ELSE v

\* Mutant: the new heights are not looked at.
DownloadsUnclamped(v, files) == [v EXCEPT !.files = files]

SetDownloads(v, files) == ClampSkip([v EXCEPT !.files = files])

\* What a change of the view shows: a reader at the newest, before it or after it,
\* has seen everything there is.
Show(v) ==
    /\ view' = v
    /\ seen' = IF NewestId(v) # seen /\ (v.chat # view.chat \/ AtNewest(view) \/ AtNewest(v))
               THEN NewestId(v) ELSE seen

\* project_conversation: the history, then a jump waiting for it, then the files.
Project(chat, fresh, target) ==
    LET v == Projected(view, chat, History(store, chat), Inbox(chat), fresh)
        files == [id \in Ids |-> IF id \in IdsOf(v.msgs) THEN store.files[id] ELSE "none"]
    IN /\ Show(SetDownloads(IF chat = "a" THEN Select(v, target) ELSE v, files))
       /\ jump' = IF chat = "a" /\ target \notin IdsOf(v.msgs) THEN target ELSE 0
       /\ openedAt' = IF fresh THEN Inbox(chat) ELSE openedAt

\* The loop's arms re-project the open chat, after any number of folds.
Reproject ==
    /\ open # "none" /\ Project(open, FALSE, jump)
    /\ UNCHANGED <<store, open, picker, changes>>

(***************************************************************************)
(* The user opens and leaves chats, and follows a search hit into one.     *)
(***************************************************************************)
OpenChat(chat) ==
    /\ picker = 0 /\ open # chat
    /\ open' = chat /\ Project(chat, TRUE, jump)
    /\ UNCHANGED <<store, picker, changes>>

CloseChat ==
    /\ picker = 0 /\ open # "none" /\ open' = "none"
    /\ UNCHANGED <<store, view, jump, picker, changes, openedAt, seen>>

\* A hit in the chat already open waits for its next projection.
OpenHit(id) ==
    /\ picker = 0 /\ open' = "a"
    /\ IF open = "a" THEN jump' = id /\ UNCHANGED <<view, openedAt, seen>>
       ELSE Project("a", TRUE, id)
    /\ UNCHANGED <<store, picker, changes>>

(***************************************************************************)
(* Scrolling, by the row, by the pane, to the newest or to a message.      *)
(***************************************************************************)
Browse(v) ==
    /\ picker = 0 /\ Show(v)
    /\ UNCHANGED <<store, open, jump, picker, changes, openedAt>>

CaughtUp(v) == IF AtNewest(v) THEN [v EXCEPT !.below = FALSE] ELSE v

AtOrPastNewest(v) ==
    LET stop == NewestAnchor(v)
    IN v.off > stop[1] \/ (v.off = stop[1] /\ v.skip >= stop[2])

\* Mutant: the last row of a message, its blank line, is never skipped alone.
DownShort(v) ==
    IF v.msgs = <<>> \/ AtOrPastNewest(v) THEN v
    ELSE IF v.skip + 2 < Height(v, Selected(v)) THEN CaughtUp([v EXCEPT !.skip = @ + 1])
    ELSE IF v.off + 1 < Len(v.msgs) THEN CaughtUp([v EXCEPT !.off = @ + 1, !.skip = 0])
    ELSE v

Down(v) ==
    IF v.msgs = <<>> \/ AtOrPastNewest(v) THEN v
    ELSE IF v.skip + 1 < Height(v, Selected(v)) THEN CaughtUp([v EXCEPT !.skip = @ + 1])
    ELSE IF v.off + 1 < Len(v.msgs) THEN CaughtUp([v EXCEPT !.off = @ + 1, !.skip = 0])
    ELSE CaughtUp(v)

Up(v) ==
    CASE v.skip > 0 -> [v EXCEPT !.skip = @ - 1]
      [] v.skip = 0 /\ v.off > 0 ->
            [v EXCEPT !.off = @ - 1, !.skip = Height(v, v.msgs[v.off]) - 1]
      [] OTHER -> v

\* A page is as many steps as the pane has rows, one at least.
PageOf(v) == 0..Max({1, v.port})
PagedDown(v) ==
    LET at[i \in PageOf(v)] == IF i = 0 THEN v ELSE Down(at[i - 1]) IN at[Max(PageOf(v))]
PagedUp(v) ==
    LET at[i \in PageOf(v)] == IF i = 0 THEN v ELSE Up(at[i - 1]) IN at[Max(PageOf(v))]

ScrollDown == Browse(Down(view))
ScrollUp == Browse(Up(view))
PageDown == Browse(PagedDown(view))
PageUp == Browse(PagedUp(view))
JumpToNewest == Browse([Anchored(view) EXCEPT !.below = FALSE])

\* A click on a row selects its message and enters the history.
Click == open # "none" /\ \E i \in Drawn(view) : Browse(Select(view, view.msgs[i].id))

\* The quote's target, if it is loaded.
JumpToQuoted ==
    /\ open # "none" /\ HasSelected(view)
    /\ Browse(Select(view, Shape[Selected(view).id].re))

(***************************************************************************)
(* The reaction picker is modal, and acts on what is selected when it is   *)
(* confirmed; the chips change at once.                                    *)
(***************************************************************************)
ReactionOpen ==
    /\ open # "none" /\ picker = 0 /\ HasSelected(view) /\ picker' = Selected(view).id
    /\ UNCHANGED <<store, view, open, jump, changes, openedAt, seen>>

ReactionCancel ==
    /\ picker # 0 /\ picker' = 0
    /\ UNCHANGED <<store, view, open, jump, changes, openedAt, seen>>

ReactionConfirm ==
    /\ picker # 0 /\ picker' = 0
    /\ Show(IF HasSelected(view) THEN [view EXCEPT !.msgs[view.off + 1].mine = ~@] ELSE view)
    /\ UNCHANGED <<store, open, jump, changes, openedAt>>

(***************************************************************************)
(* A frame measures the pane, and the settings turn graphics on or off.    *)
(***************************************************************************)
Following(v, w) == IF AtNewest(v) THEN Anchored(w) ELSE w

Change == changes < MaxChanges /\ changes' = changes + 1

Resize(port, width) ==
    /\ <<port, width>> # <<view.port, view.width>>
    /\ LET tall == IF port = view.port THEN view
                   ELSE Following(view, [view EXCEPT !.port = port])
       IN Show(IF width = tall.width THEN tall ELSE Following(tall, [tall EXCEPT !.width = width]))
    /\ UNCHANGED <<store, open, jump, picker, changes, openedAt>>

SetGraphicsCapable ==
    /\ Change /\ picker = 0
    /\ Show(Following(view, [view EXCEPT !.capable = ~@]))
    /\ UNCHANGED <<store, open, jump, picker, openedAt>>

(***************************************************************************)
(* The account changes beside the loop.                                    *)
(***************************************************************************)
Fold(s) ==
    /\ Change /\ store' = s
    /\ UNCHANGED <<view, open, jump, picker, openedAt, seen>>

Arrive ==
    /\ store.arrived + 1 \in Ids
    /\ Fold([store EXCEPT !.arrived = @ + 1, !.loaded = @ \cup {store.arrived + 1}])

\* A page brings what is missing, from the newest down.
PageMerged == \E low \in Existing \ store.loaded :
    /\ store' = [store EXCEPT !.loaded = @ \cup {id \in Existing : id >= low}]
    /\ UNCHANGED <<view, open, jump, picker, changes, openedAt, seen>>

Delete == \E id \in Existing :
    Fold([store EXCEPT !.gone = @ \cup {id}, !.loaded = @ \ {id}])

Edit == \E id \in store.loaded : Fold([store EXCEPT !.long = SymDiff(@, {id})])

SendFails == \E id \in store.loaded \ store.failed :
    Shape[id].own /\ Fold([store EXCEPT !.failed = @ \cup {id}])

Reactions == \E id \in store.loaded :
    \/ Fold([store EXCEPT !.others = SymDiff(@, {id})])
    \/ Fold([store EXCEPT !.mine = SymDiff(@, {id})])

FileMoves == \E id \in Existing, f \in FileStates \ {"none"} :
    /\ Shape[id].kind # "text" /\ f # store.files[id]
    /\ Fold([store EXCEPT !.files[id] = f])

\* The download is given up, or the sweep removes the file.
FileGoes == \E id \in Existing :
    store.files[id] # "none" /\ Fold([store EXCEPT !.files[id] = "none"])

\* Read here, which takes loaded messages, or on another device.
Read == \E id \in Existing : id > store.inbox /\ Fold([store EXCEPT !.inbox = id])

Next ==
    \/ Reproject
    \/ \E chat \in {"a", "b"} : OpenChat(chat)
    \/ CloseChat
    \/ \E id \in Existing : OpenHit(id)
    \/ ScrollDown \/ ScrollUp \/ PageDown \/ PageUp \/ JumpToNewest
    \/ Click \/ JumpToQuoted
    \/ ReactionOpen \/ ReactionCancel \/ ReactionConfirm
    \/ \E port \in Ports, width \in Widths : Resize(port, width)
    \/ SetGraphicsCapable
    \/ Arrive \/ PageMerged \/ Delete \/ Edit \/ SendFails \/ Reactions
    \/ FileMoves \/ FileGoes \/ Read

Spec == Init /\ [][Next]_vars

(***************************************************************************)
(* Properties.                                                             *)
(***************************************************************************)
MessageRecord == [id : Ids, long : BOOLEAN, failed : BOOLEAN, others : BOOLEAN, mine : BOOLEAN]

\* The state is well typed, and the cursor is a message of the history unless it is empty.
TypeOK ==
    /\ store \in [arrived : 0..Cardinality(Ids), gone : SUBSET Ids, loaded : SUBSET Ids,
                  long : SUBSET Ids, failed : SUBSET Ids, others : SUBSET Ids, mine : SUBSET Ids,
                  files : [Ids -> FileStates], inbox : {0} \cup Ids]
    /\ store.loaded \subseteq Existing
    /\ view.chat \in {"a", "b", "none"}
    /\ \A i \in DOMAIN view.msgs : view.msgs[i] \in MessageRecord
    /\ \A i, j \in DOMAIN view.msgs : i < j => view.msgs[i].id < view.msgs[j].id
    /\ view.off \in 0..Max({0, Len(view.msgs) - 1}) /\ view.skip \in Nat
    /\ view.port \in Ports \cup {0} /\ view.width \in Widths \cup {0}
    /\ view.capable \in BOOLEAN /\ view.below \in BOOLEAN
    /\ view.files \in [Ids -> FileStates]
    /\ view.rule \in {Pending, NoRule} \cup Ids
    /\ open \in {"a", "b", "none"} /\ jump \in {0} \cup Ids /\ picker \in {0} \cup Ids
    /\ changes \in 0..MaxChanges /\ openedAt \in {0} \cup Ids /\ seen \in {0} \cup Ids

\* A step that shows other messages or files of the same chat: a projection, for
\* the picker, which changes a chip, is closed by its step.
Refreshes ==
    /\ view'.chat = view.chat /\ open' = open /\ picker' = picker
    /\ <<view'.msgs, view'.files>> # <<view.msgs, view.files>>

\* After a re-projection at least one row of the cursor's message is on screen,
\* whatever collapsed meanwhile (clamp_row_skip, and its second call in set_downloads).
RowOnScreen == HasSelected(view') => view'.skip < Height(view', Selected(view'))

\* A reader away from the newest message keeps the message under the cursor, and
\* is never taken further into it, whatever is loaded above, arrives or is
\* deleted (ConversationView::project: "so reading history is never interrupted");
\* and never out of it, whatever collapsed.
SelectionHeld ==
    [][Refreshes =>
         /\ jump = 0 /\ ~AtNewest(view) /\ HasSelected(view)
              /\ Selected(view).id \in IdsOf(view'.msgs)
            => Selected(view').id = Selected(view).id /\ view'.skip <= view.skip
         /\ RowOnScreen]_vars

\* A reader at the newest message stays there over any re-projection, as long as
\* no download moved meanwhile (is_at_newest, project).
TailHeld ==
    [][Refreshes /\ jump = 0 /\ AtNewest(view) /\ view'.files = view.files
         => AtNewest(view')]_vars

\* Nothing but the user moves what is on screen: neither the place read nor the tail followed.
PlaceHeld == SelectionHeld /\ TailHeld

\* The unread rule stands above a message of somebody else that was unread when
\* the user opened the chat, however often it is opened and whoever reads it since.
RuleIsUnread ==
    view.chat = "a" /\ view.rule \in Ids => ~Shape[view.rule].own /\ view.rule > openedAt

\* A newer message than the reader has had on screen at the newest position is
\* announced by the badge until it is reached (new_messages_below).
UnseenIsMarked == view.chat = "a" /\ NewestId(view) > seen => view.below

\* What is new is told from what is not: by the rule and by the badge.
UnreadIsTold == RuleIsUnread /\ UnseenIsMarked

\* What the view counts is what the renderer draws: at the newest position, with
\* more history than the pane holds, the newest message ends on the last row,
\* unless one of the two lines the view does not count is in the pane.
NewestOnLastRow ==
    LET n == Len(view.msgs)
        shown == (view.off + 1)..n
    IN n > 0 /\ view.port > 0 /\ AtNewest(view) /\ AllRows(view) >= view.port
         /\ (\A i \in shown : ~view.msgs[i].failed /\ view.msgs[i].id # view.rule)
       => EndRow(view, n) = view.port

\* One key moves by one row, over message boundaries too, and does not move only
\* at the newest position or past it, or at the top (scroll_down, scroll_up).
StepIsOneRow ==
    HasSelected(view) /\ view.skip < Height(view, Selected(view)) =>
        LET here == Position(view)
            newest == Position(Anchored(view))
        IN /\ Position(Down(view)) = IF here < newest THEN here + 1 ELSE here
           /\ Position(Up(view)) = Max({0, here - 1})

\* The rows the view steps by and anchors to are the rows that are drawn, in a
\* well-typed view.
RowsAgree ==
    /\ TypeOK
    /\ NewestOnLastRow
    /\ StepIsOneRow

\* A confirmed reaction lands on the message the picker was opened for ("Open the
\* reaction picker on the selected history message").
ReactsToChosen ==
    [][picker # 0 /\ picker' = 0 /\ view' # view => Selected(view).id = picker]_vars
==============================================================================
