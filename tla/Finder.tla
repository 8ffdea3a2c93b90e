------------------------------- MODULE Finder -------------------------------
(***************************************************************************)
(* Looking things up: the message and contact searches (search.rs,         *)
(* contact_picker.rs), the jump to a hit, forwarding one, the secret chat  *)
(* prompt (secret.rs) and the queue of toasts (status.rs), with the App    *)
(* actions and the drives of lib.rs behind them.  Requests run as tasks;   *)
(* an answer goes into its overlay's list with no word of what was asked.  *)
(* Every event is one turn of the loop: its arm, then the drives.          *)
(***************************************************************************)
EXTENDS Naturals, Sequences, FiniteSets, SequencesExt

CONSTANTS
  Chats, NoChat, Users, NoUser,
  Listed,        \* the chats of the active list
  KindOf, Peer,  \* each chat's ChatKind and, of a one-to-one chat, its user
  Messages, NoMessage,   \* [chat, id]
  Recent,        \* those on the landing page of their chat
  Queries, Blank,        \* Queries[kind]: what the user may ask the search or the contacts
  Matches,       \* Matches[q]: the messages TDLib finds
  Contacts,      \* Contacts[q]: the users it finds
  InfoTtl, ErrorTtl,     \* DEFAULT_TTL, ERROR_TTL
  MaxAsks,       \* bound: requests made
  MaxPushes      \* bound: toasts

ASSUME ChatsAssumption ==
  /\ NoChat \notin Chats /\ NoUser \notin Users /\ Listed \subseteq Chats
  /\ Chats \cap Users = {} /\ IsFiniteSet(Users)
  /\ KindOf \in [Chats -> {"private", "secret", "group"}]
  /\ Peer \in [Chats -> Users \cup {NoUser}]
  /\ \A c \in Chats : Peer[c] = NoUser <=> KindOf[c] = "group"
ASSUME MessagesAssumption ==
  /\ Messages \subseteq [chat : Chats, id : Nat] /\ NoMessage \notin Messages
  /\ IsFiniteSet(Messages)
  /\ Recent \subseteq Messages
  /\ DOMAIN Queries = {"search", "contacts"} /\ \A k \in DOMAIN Queries : Blank \notin Queries[k]
  /\ Matches \in [Queries["search"] -> SUBSET Messages]
  /\ Contacts \in [Queries["contacts"] -> SUBSET Users]
ASSUME BoundsAssumption ==
  {InfoTtl, ErrorTtl} \subseteq Nat \ {0} /\ {MaxAsks, MaxPushes} \subseteq Nat

VARIABLES
  loaded,        \* MessageStore
  \* The run loop.
  open,          \* HistoryState::open
  paging,        \* paging[c]: the landing page's task
  tasks, asks,   \* the requests not answered, and their number so far
  \* The app.
  cursor,        \* the chat under the chat list's cursor
  secret,        \* secret[c]: the state of a secret chat, as last projected into
                 \*   the list; "live" is pending, ready or not announced yet
  focus,         \* the chat list, or the history with its composer
  pane,          \* ConversationView, pending_jump, and ghosts: "target", the hit
                 \*   last opened, until it is shown or another chat is, and whether
                 \*   its message was in the pane already ("inSight")
  overlay,
  search, contacts,      \* SearchView, ContactPickerView
  forwarding,    \* ForwardView's message, and forward_return
  prompt,        \* SecretChatPrompt
  notices, pushes,       \* Notifications, and the toasts pushed so far
  \* Ghosts.
  crossed,       \* the pickers filled while two searches were under way
  shownFor,      \* the ticks the first toast has been shown for
  dismissed      \* the last change of the toasts was their dismissal

storeVars == <<loaded, secret>>
pickers == <<search, contacts>>
noticeVars == <<notices, pushes, shownFor, dismissed>>
taskVars == <<tasks, asks>>
overlayVars == <<overlay, forwarding, prompt>>
loopVars == <<open, paging, cursor, focus, pane>>
vars == <<storeVars, loopVars, taskVars, overlayVars, pickers, noticeVars, crossed>>

Pickers == {"search", "contacts"}
Overlays == {"none", "search", "hits", "contacts", "people", "secret", "forward"}
\* A list of answers: what is asked, what the rows answer, the row selected.
Fresh == [query |-> Blank, answers |-> NoMessage, row |-> 0]
Asked(kind, q, scope) == [kind |-> kind, query |-> q, scope |-> scope]

\* What SecretLifecycle offers.
\* "about" is a ghost: the chat or contact the prompt was opened on.
Lifecycles == [act : {"start"}, with : Users, about : Chats \cup Users]
         \cup [act : {"close"}, with : Chats, about : Chats]
NoPrompt == [act |-> "none"]
NoForward == [message |-> NoMessage, back |-> "none"]
Forward(m, back) == [message |-> m, back |-> back]

\* The rows an answer gives; TDLib's order does not matter here.
Rows(asked) ==
  IF asked = NoMessage THEN << >>
  ELSE IF asked.kind = "contacts" THEN SetToSeq(Contacts[asked.query])
  ELSE SetToSeq({m \in Matches[asked.query] : asked.scope \in {m.chat, NoChat}})
SelectedHit(p) == Rows(p.answers)[p.row + 1]
HasHit(p) == Rows(p.answers) # << >>

Searches(kind) == [kind : {kind}, query : Queries[kind], scope : Chats \cup {NoChat}]
Views(kind) == [query : Queries[kind] \cup {Blank}, answers : Searches(kind) \cup {NoMessage}, row : Nat]

TypeOK ==
  /\ loaded \subseteq Messages
  /\ secret \in [{c \in Chats : KindOf[c] = "secret"} -> {"live", "closed"}]
  /\ {open, cursor} \subseteq Chats \cup {NoChat}
  /\ paging \in [Chats -> {"never", "asked", "answered", "done"}]
  /\ focus \in {"list", "history"}
  /\ pane.chat \in Chats \cup {NoChat} /\ pane.messages \subseteq loaded
  /\ {pane.jump, pane.target} \subseteq Messages \cup {NoMessage}
  /\ overlay \in Overlays /\ search \in Views("search") /\ contacts \in Views("contacts")
  /\ \A p \in {search, contacts} : HasHit(p) => p.row < Len(Rows(p.answers))
  /\ overlay = "secret" <=> prompt # NoPrompt
  /\ prompt \in Lifecycles \cup {NoPrompt}
  /\ Cardinality(tasks) <= asks /\ asks \in 0 .. MaxAsks
  /\ pushes \in 0 .. MaxPushes /\ Len(notices) <= pushes
  /\ crossed \subseteq Pickers /\ dismissed \in BOOLEAN

Init ==
  /\ loaded = {}
  /\ secret \in [{c \in Chats : KindOf[c] = "secret"} -> {"live", "closed"}]
  /\ open = NoChat /\ paging = [c \in Chats |-> "never"]
  /\ tasks = {} /\ asks = 0
  /\ cursor = NoChat /\ focus = "list"
  /\ pane = [chat |-> NoChat, messages |-> {}, jump |-> NoMessage,
             target |-> NoMessage, inSight |-> FALSE]
  /\ overlay = "none" /\ search = Fresh /\ contacts = Fresh
  /\ forwarding = NoForward /\ prompt = NoPrompt
  /\ notices = << >> /\ pushes = 0
  /\ crossed = {} /\ shownFor = 0 /\ dismissed = FALSE

-----------------------------------------------------------------------------
\* The router and the page tasks.

\* A message comes by an update or an older page.
Learn(m) ==
  /\ m \notin loaded
  /\ loaded' = loaded \cup {m}
  /\ UNCHANGED <<secret, loopVars, taskVars, overlayVars, pickers, noticeVars, crossed>>

\* reproject_secret_states, after either side has closed it.
SecretCloses(c) ==
  /\ secret[c] = "live" /\ secret' = [secret EXCEPT ![c] = "closed"]
  /\ UNCHANGED <<loaded, loopVars, taskVars, overlayVars, pickers, noticeVars, crossed>>

\* The landing page is merged, or its request fails.
PageAnswered(c) ==
  /\ paging[c] = "asked"
  /\ paging' = [paging EXCEPT ![c] = "answered"]
  /\ loaded' \in {loaded, loaded \cup {m \in Recent : m.chat = c}}
  /\ UNCHANGED <<secret, open, cursor, focus, pane, taskVars, overlayVars, pickers,
                 noticeVars, crossed>>

-----------------------------------------------------------------------------
\* The conversation.

\* Mutant: a jump is tried once.
JumpDropped(p, c, messages) == TRUE

\* Mutant: a jump waits for its message, whatever chat is shown.
JumpOnlyLands(p, c, messages) == p.jump # NoMessage => p.jump \in messages

\* A jump is over when it lands, and when its chat is not the one shown.
JumpOver(p, c, messages) == p.jump # NoMessage => p.jump \in messages \/ p.jump.chat # c

\* App::project_conversation, with a chat's opening or later.  Which message is selected
\* beside a landing jump is Conversation's matter.
Projected(p, c) ==
  LET messages == {m \in loaded : m.chat = c}
      landed == p.jump = p.target /\ p.jump \in messages IN
  [chat |-> c, messages |-> messages,
   jump |-> IF JumpOver(p, c, messages) THEN NoMessage ELSE p.jump,
   target |-> IF p.target = NoMessage \/ landed THEN NoMessage
              ELSE IF p.target.chat # c THEN NoMessage ELSE p.target,
   inSight |-> FALSE]

\* The end of a turn whose arm left pane p, focus f, cursor c and the page tasks so:
\* open_chat_id and drive_open_chat.
Turn(p, f, c, pages) ==
  LET o == IF f = "history" THEN c ELSE NoChat
      opens == o # open /\ o # NoChat IN
  /\ focus' = f /\ cursor' = c /\ open' = o
  /\ pane' = IF opens THEN Projected(p, o) ELSE p
  /\ paging' = IF opens /\ pages[o] = "never" THEN [pages EXCEPT ![o] = "asked"] ELSE pages
  /\ UNCHANGED storeVars

Reread == IF open = NoChat THEN pane ELSE Projected(pane, open)

PageReported(c) ==
  /\ paging[c] = "answered"
  /\ Turn(IF open = c THEN Reread ELSE pane, focus, cursor, [paging EXCEPT ![c] = "done"])
  /\ UNCHANGED <<taskVars, overlayVars, pickers, noticeVars, crossed>>

\* A signal of the feed: the pane is read again, and the list, which may put another
\* chat, or none, under the cursor.
Signal(c) ==
  /\ Turn(Reread, focus, c, paging)
  /\ UNCHANGED <<taskVars, overlayVars, pickers, noticeVars, crossed>>

Browsing == overlay = "none" /\ UNCHANGED <<taskVars, overlayVars, pickers, noticeVars, crossed>>

\* Keys and clicks on the list and the panes.
MoveCursor(c) == Browsing /\ cursor # NoChat /\ Turn(pane, focus, c, paging)
MoveFocus(f) == Browsing /\ f # focus /\ Turn(pane, f, cursor, paging)

-----------------------------------------------------------------------------
\* The searches.  "kind" names the overlay of the query line.  From here on the open
\* chat stays what it is, except when a hit is opened.

Picker(kind) == IF kind = "search" THEN search ELSE contacts
Results(kind) == IF kind = "search" THEN "hits" ELSE "people"
Fill(kind, p) ==
  IF kind = "search" THEN search' = p /\ UNCHANGED contacts ELSE contacts' = p /\ UNCHANGED search

\* One task more; "n" tells those that ask for the same apart.
Spawn(kind, what) ==
  /\ asks < MaxAsks /\ asks' = asks + 1
  /\ LET like == {t \in tasks : t.kind = kind /\ t.what = what}
         n == CHOOSE k \in 0 .. Cardinality(like) : \A t \in like : t.n # k IN
     tasks' = tasks \cup {[kind |-> kind, what |-> what, n |-> n]}

SearchOpen(kind) ==
  /\ overlay = "none" /\ (kind = "contacts" => focus = "list")
  /\ Fill(kind, Fresh) /\ overlay' = kind
  /\ UNCHANGED <<storeVars, loopVars, taskVars, forwarding, prompt, noticeVars, crossed>>

\* Any edit of the query line.
EditQuery(kind, q) ==
  /\ overlay = kind
  /\ Fill(kind, [Picker(kind) EXCEPT !.query = q])
  /\ UNCHANGED <<storeVars, loopVars, taskVars, overlayVars, noticeVars, crossed>>

\* Mutant: the rows are left for the answer to replace.
SubmittedOver(p) == p

Submitted(p) == [p EXCEPT !.answers = NoMessage, !.row = 0]

\* A blank query stays on its line.  The search runs in the open chat, if there is one.
SearchSubmit(kind) ==
  LET q == Picker(kind).query IN
  /\ overlay = kind /\ q # Blank
  /\ Fill(kind, Submitted(Picker(kind))) /\ overlay' = Results(kind)
  /\ Spawn(kind, Asked(kind, q, IF kind = "search" THEN open ELSE NoChat))
  /\ crossed' = IF \E t \in tasks : t.kind = kind THEN crossed \cup {kind} ELSE crossed \ {kind}
  /\ UNCHANGED <<storeVars, loopVars, forwarding, prompt, noticeVars>>

\* Mutant: the selected row stays where it was.
FilledInPlace(p, asked) == [p EXCEPT !.answers = asked]

\* set_results
Filled(p, asked) == [p EXCEPT !.answers = asked, !.row = 0]

\* The answer replaces the rows, whatever overlay is up.
Answered(t) ==
  /\ t.kind \in Pickers
  /\ Fill(t.kind, Filled(Picker(t.kind), t.what))
  /\ tasks' = tasks \ {t}
  /\ UNCHANGED <<storeVars, loopVars, asks, overlayVars, noticeVars, crossed>>

\* select_next and select_prev.
MoveRow(kind, k) ==
  /\ overlay = Results(kind) /\ HasHit(Picker(kind))
  /\ k \in {Picker(kind).row + 1, Picker(kind).row - 1} \cap (0 .. Len(Rows(Picker(kind).answers)) - 1)
  /\ Fill(kind, [Picker(kind) EXCEPT !.row = k])
  /\ UNCHANGED <<storeVars, loopVars, taskVars, overlayVars, noticeVars, crossed>>

\* A click selects its row and confirms it; Enter confirms the one selected.
Confirmed(kind, k) ==
  /\ overlay = Results(kind) /\ k < Len(Rows(Picker(kind).answers))
  /\ Fill(kind, [Picker(kind) EXCEPT !.row = k])

\* confirm_search_result: a chat that is not in the active list leaves the cursor alone.
ResultOpen(k) ==
  /\ Confirmed("search", k) /\ overlay' = "none"
  /\ LET m == Rows(search.answers)[k + 1] IN
       Turn([pane EXCEPT !.jump = m, !.target = m,
                         !.inSight = open = m.chat /\ m \in pane.messages], "history",
            IF m.chat \in Listed THEN m.chat ELSE cursor, paging)
  /\ UNCHANGED <<taskVars, forwarding, prompt, noticeVars, crossed>>

SearchCancel ==
  /\ overlay \in Pickers \cup {"hits", "people"} /\ overlay' = "none"
  /\ UNCHANGED <<storeVars, loopVars, taskVars, forwarding, prompt, pickers, noticeVars, crossed>>

-----------------------------------------------------------------------------
\* Forwarding: a hit, or the selected message.
ForwardOpen ==
  /\ \/ overlay = "hits" /\ HasHit(search)
        /\ forwarding' = Forward(SelectedHit(search), "hits")
     \/ overlay = "none" /\ focus = "history"
        /\ \E m \in pane.messages : forwarding' = Forward(m, "none")
  /\ overlay' = "forward"
  /\ UNCHANGED <<storeVars, loopVars, taskVars, prompt, pickers, noticeVars, crossed>>

\* Without a target the picker just closes.  What a closed one held is read no more.
ForwardConfirm ==
  /\ overlay = "forward" /\ overlay' = "none" /\ forwarding' = NoForward
  /\ Spawn("forward", forwarding.message) \/ UNCHANGED taskVars
  /\ UNCHANGED <<storeVars, loopVars, prompt, pickers, noticeVars, crossed>>

ForwardCancel ==
  /\ overlay = "forward" /\ overlay' = forwarding.back /\ forwarding' = NoForward
  /\ UNCHANGED <<storeVars, loopVars, taskVars, prompt, pickers, noticeVars, crossed>>

-----------------------------------------------------------------------------
\* The secret chat prompt.

\* SecretLifecycle::for_chat
ForChat(c) ==
  IF KindOf[c] = "private" \/ (KindOf[c] = "secret" /\ secret[c] = "closed")
  THEN [act |-> "start", with |-> Peer[c], about |-> c]
  ELSE IF KindOf[c] = "secret" THEN [act |-> "close", with |-> c, about |-> c]
  ELSE NoPrompt

SecretOpen ==
  /\ overlay = "none" /\ focus = "list" /\ cursor # NoChat /\ ForChat(cursor) # NoPrompt
  /\ prompt' = ForChat(cursor) /\ overlay' = "secret"
  /\ UNCHANGED <<storeVars, loopVars, taskVars, forwarding, pickers, noticeVars, crossed>>

ContactConfirm(k) ==
  /\ Confirmed("contacts", k) /\ overlay' = "secret"
  /\ LET u == Rows(contacts.answers)[k + 1] IN
       prompt' = [act |-> "start", with |-> u, about |-> u]
  /\ UNCHANGED <<storeVars, loopVars, taskVars, forwarding, noticeVars, crossed>>

\* Mutant: what to do is worked out again, from the chat under the cursor.
AgreedAnew == IF cursor \in Chats /\ ForChat(cursor) # NoPrompt
              THEN [ForChat(cursor) EXCEPT !.about = prompt.about] ELSE prompt

\* What the prompt holds.
Agreed == prompt

SecretConfirm ==
  /\ overlay = "secret" /\ overlay' = "none"
  /\ Spawn("secret", Agreed) /\ prompt' = NoPrompt
  /\ UNCHANGED <<storeVars, loopVars, forwarding, pickers, noticeVars, crossed>>

SecretCancel ==
  /\ overlay = "secret" /\ overlay' = "none" /\ prompt' = NoPrompt
  /\ UNCHANGED <<storeVars, loopVars, taskVars, forwarding, pickers, noticeVars, crossed>>

\* A forward or a secret chat request is carried out; its effects come as updates.
Done(t) ==
  /\ t.kind \in {"forward", "secret"}
  /\ tasks' = tasks \ {t}
  /\ UNCHANGED <<storeVars, loopVars, asks, overlayVars, pickers, noticeVars, crossed>>

-----------------------------------------------------------------------------
\* The toasts.

Ttl(level) == IF level = "error" THEN ErrorTtl ELSE InfoTtl

Push(level) ==
  /\ pushes < MaxPushes /\ pushes' = pushes + 1
  /\ notices' = Append(notices, [n |-> pushes, level |-> level, ttl |-> Ttl(level)])
  /\ dismissed' = FALSE /\ UNCHANGED shownFor

\* A request that fails says so.
Fails(t) ==
  /\ tasks' = tasks \ {t} /\ Push("error")
  /\ UNCHANGED <<storeVars, loopVars, asks, overlayVars, pickers, crossed>>

\* A key that has only something to say, as copying a photo.
Explain ==
  /\ overlay = "none" /\ focus = "history" /\ pane.messages # {} /\ Push("info")
  /\ UNCHANGED <<storeVars, loopVars, taskVars, overlayVars, pickers, crossed>>

\* Mutant: every toast ages, the waiting ones too.
AgedAll(queue) ==
  LET aged == [k \in 1 .. Len(queue) |-> [queue[k] EXCEPT !.ttl = IF @ = 1 THEN 1 ELSE @ - 1]] IN
  IF Head(queue).ttl = 1 THEN Tail(aged) ELSE aged

\* Notifications::tick: the first ages, and leaves when its time is up.
Aged(queue) ==
  IF Head(queue).ttl = 1 THEN Tail(queue) ELSE <<[Head(queue) EXCEPT !.ttl = @ - 1]>> \o Tail(queue)

NoticeTick ==
  /\ notices # << >>
  /\ notices' = Aged(notices) /\ dismissed' = FALSE
  /\ shownFor' = IF Len(notices') < Len(notices) THEN 0 ELSE shownFor + 1
  /\ UNCHANGED <<pushes, storeVars, loopVars, taskVars, overlayVars, pickers, crossed>>

\* Ctrl-G, under any overlay.
NoticeDismiss ==
  /\ notices # << >> /\ notices' = Tail(notices) /\ shownFor' = 0 /\ dismissed' = TRUE
  /\ UNCHANGED <<pushes, storeVars, loopVars, taskVars, overlayVars, pickers, crossed>>

-----------------------------------------------------------------------------
Next ==
  \/ \E m \in Messages : Learn(m)
  \/ \E c \in Chats : PageAnswered(c) \/ PageReported(c)
  \/ \E c \in DOMAIN secret : SecretCloses(c)
  \/ \E c \in Listed : Signal(c) \/ MoveCursor(c)
  \/ Signal(NoChat)
  \/ \E f \in {"list", "history"} : MoveFocus(f)
  \/ \E kind \in Pickers :
       \/ SearchOpen(kind) \/ SearchSubmit(kind)
       \/ \E q \in Queries[kind] \cup {Blank} : EditQuery(kind, q)
       \/ \E k \in 0 .. Cardinality(Messages \cup Users) : MoveRow(kind, k)
  \/ \E k \in 0 .. Cardinality(Messages) : ResultOpen(k)
  \/ \E k \in 0 .. Cardinality(Users) : ContactConfirm(k)
  \/ SearchCancel
  \/ ForwardOpen \/ ForwardConfirm \/ ForwardCancel
  \/ SecretOpen \/ SecretConfirm \/ SecretCancel
  \/ \E t \in tasks : Answered(t) \/ Done(t) \/ Fails(t)
  \/ Explain \/ NoticeTick \/ NoticeDismiss

Spec == Init /\ [][Next]_vars

-----------------------------------------------------------------------------
\* The rows shown answer the query shown above them, unless it was asked while an
\* earlier search was under way: what came of a search closed since is gone.
HitsAnswerQuery ==
  \A kind \in Pickers \ crossed :
    LET p == Picker(kind) IN
    overlay = Results(kind) /\ p.answers # NoMessage => p.answers.query = p.query

\* A jump still pending is to the hit the user opened last, and no other chat has been
\* shown since: it moves no view it was not meant for.
JumpIsMeant == pane.jump \in {pane.target, NoMessage}

\* A secret chat is started or closed with whom the prompt was opened on, whatever
\* the list, the contacts found and the state of the chat have become meanwhile.
SecretAsAsked ==
  \A t \in {r \in tasks : r.kind = "secret"} :
    LET about == t.what.about IN
    t.what.with = IF t.what.act = "close" \/ about \in Users THEN about ELSE Peer[about]

\* A hit is selected as soon as the pane has its message, if its chat stays open: with
\* the chat's opening, its landing page or a later one.  The exception is a hit that
\* was in the open chat's pane when it was opened, which waits for the next reading.
HitIsSelected ==
  (pane.target # NoMessage /\ open = pane.target.chat /\ pane.target \in pane.messages) =>
    pane.inSight

\* Opening a hit takes the reader to it, and takes no one anywhere else (the state
\* being well typed, the row chosen included).
HitLands ==
  /\ TypeOK
  /\ JumpIsMeant
  /\ HitIsSelected

\* A toast leaves when it was shown for its full time, or dismissed; one that waits
\* behind it loses nothing.
ShownInFull ==
  [][Len(notices') < Len(notices) =>
       dismissed' \/ shownFor + 1 = Ttl(Head(notices).level)]_vars

=============================================================================
