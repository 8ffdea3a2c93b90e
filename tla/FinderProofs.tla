---------------------------- MODULE FinderProofs ----------------------------
(***************************************************************************)
(* Proofs about Finder for every set of chats, users, messages and         *)
(* queries, whatever TDLib finds, any number of requests and toasts and    *)
(* any lifetimes.  The inductive invariant is cut along the variables: the *)
(* pane with its jump, the pickers, the requests, the overlay with its     *)
(* prompt, the answers with their queries, the toasts.                     *)
(***************************************************************************)
EXTENDS Finder, FiniteSetTheorems, TLAPS

USE ChatsAssumption, MessagesAssumption, BoundsAssumption

Panes == [chat : Chats \cup {NoChat}, messages : SUBSET Messages,
          jump : Messages \cup {NoMessage}, target : Messages \cup {NoMessage},
          inSight : BOOLEAN]

\* A pane beside open chat o: its jump is the hit opened last, which is not there yet.
PaneOK(p, o) ==
  /\ p \in Panes
  /\ p.jump = p.target
  /\ (p.target # NoMessage /\ o = p.target.chat /\ p.target \in p.messages) => p.inSight

LoopType ==
  /\ loaded \subseteq Messages
  /\ secret \in [{c \in Chats : KindOf[c] = "secret"} -> {"live", "closed"}]
  /\ {open, cursor} \subseteq Chats \cup {NoChat}
  /\ paging \in [Chats -> {"never", "asked", "answered", "done"}]
  /\ focus \in {"list", "history"}

LoopInv == LoopType /\ PaneOK(pane, open) /\ pane.messages \subseteq loaded

PickerInv ==
  /\ search \in Views("search") /\ contacts \in Views("contacts")
  /\ \A p \in {search, contacts} : HasHit(p) => p.row < Len(Rows(p.answers))

\* With whom a decision is, for what it was made on.
Proper(p) == p.with = IF p.act = "close" \/ p.about \in Users THEN p.about ELSE Peer[p.about]

Request(t) ==
  /\ t.kind \in Pickers \cup {"forward", "secret"}
  /\ t.kind \in Pickers => t.what \in Searches(t.kind)
  /\ t.kind = "secret" => Proper(t.what)

TaskInv ==
  /\ IsFiniteSet(tasks) /\ Cardinality(tasks) <= asks /\ asks \in 0 .. MaxAsks
  /\ \A t \in tasks : Request(t)

OverlayInv ==
  /\ overlay \in Overlays
  /\ overlay = "secret" <=> prompt # NoPrompt
  /\ prompt \in Lifecycles \cup {NoPrompt}
  /\ overlay = "secret" => Proper(prompt)
  /\ overlay = "forward" => forwarding.back \in {"none", "hits"}

\* The results of the picker are shown, or will be when the forward is given up.
Shows(kind) ==
  \/ overlay = Results(kind)
  \/ kind = "search" /\ overlay = "forward" /\ forwarding.back = "hits"

\* All that may fill a list shown is for its query.
AnswersInv ==
  /\ crossed \subseteq Pickers
  /\ \A kind \in Pickers \ crossed : Shows(kind) =>
       /\ Picker(kind).answers # NoMessage =>
            Picker(kind).answers.query = Picker(kind).query
       /\ \A t \in tasks : t.kind = kind => t.what.query = Picker(kind).query

\* A toast's time is what it has been shown for and what is left.
Toasts == [n : Nat, level : {"info", "error"}, ttl : Nat \ {0}]
ToastInv ==
  /\ notices \in Seq(Toasts) /\ pushes \in 0 .. MaxPushes /\ Len(notices) <= pushes
  /\ shownFor \in Nat
  /\ notices = << >> => shownFor = 0
  /\ notices # << >> => notices[1].ttl + shownFor = Ttl(notices[1].level)
  /\ \A k \in 2 .. Len(notices) : notices[k].ttl = Ttl(notices[k].level)

IInv ==
  /\ LoopInv /\ PickerInv /\ TaskInv /\ OverlayInv /\ AnswersInv /\ ToastInv
  /\ dismissed \in BOOLEAN

-----------------------------------------------------------------------------
\* A finite set put in order is a sequence of its members.
LEMMA SetToSeqFacts ==
  ASSUME NEW S, IsFiniteSet(S)
  PROVE  SetToSeq(S) \in Seq(S)
<1>1. Cardinality(S) \in Nat /\ \E f \in [1 .. Cardinality(S) -> S] : IsInjective(f)
  BY FS_CardinalityType DEF ExistsBijection, Bijection, Injection
<1>2. SetToSeq(S) \in [1 .. Cardinality(S) -> S]
  BY <1>1 DEF SetToSeq
<1>3. ASSUME NEW n \in Nat, NEW f \in [1 .. n -> S]
      PROVE  f \in Seq(S)
  OBVIOUS
<1> QED
  BY <1>1, <1>2, <1>3

\* What a picker's rows may hold.
Found(kind) == IF kind = "search" THEN Messages ELSE Users

\* An answer's rows are messages for a search, people for a contact search.
LEMMA RowsFacts ==
  ASSUME NEW kind \in Pickers, NEW asked \in Searches(kind) \cup {NoMessage}
  PROVE  Rows(asked) \in Seq(Found(kind))
<1>1. CASE asked = NoMessage
  BY <1>1 DEF Rows
<1>2. CASE asked # NoMessage /\ kind = "contacts"
  <2>1. asked.kind = "contacts" /\ asked.query \in Queries["contacts"]
    BY <1>2 DEF Searches
  <2>2. Contacts[asked.query] \subseteq Users
    BY <2>1
  <2>3. SetToSeq(Contacts[asked.query]) \in Seq(Contacts[asked.query])
    BY <2>2, SetToSeqFacts, FS_Subset
  <2> QED
    BY <1>2, <2>1, <2>2, <2>3 DEF Rows, Found
<1>3. CASE asked # NoMessage /\ kind = "search"
  <2> DEFINE hits == {m \in Matches[asked.query] : asked.scope \in {m.chat, NoChat}}
  <2>1. asked.kind = "search" /\ asked.query \in Queries["search"]
    BY <1>3 DEF Searches
  <2>2. hits \subseteq Messages
    BY <2>1
  <2>3. SetToSeq(hits) \in Seq(hits)
    BY <2>2, SetToSeqFacts, FS_Subset
  <2>4. Rows(asked) = SetToSeq(hits)
    BY <1>3, <2>1 DEF Rows
  <2> QED
    BY <1>3, <2>2, <2>3, <2>4 DEF Found
<1> QED
  BY <1>1, <1>2, <1>3 DEF Pickers

\* The selected row is one of them.
LEMMA ChosenFacts ==
  ASSUME PickerInv, NEW kind \in Pickers, NEW k \in Nat, k < Len(Rows(Picker(kind).answers))
  PROVE  Rows(Picker(kind).answers)[k + 1] \in Found(kind)
<1>1. Picker(kind) \in Views(kind)
  BY DEF PickerInv, Picker, Pickers
<1>2. Rows(Picker(kind).answers) \in Seq(Found(kind))
  BY <1>1, RowsFacts DEF Views
<1> QED
  BY <1>2

-----------------------------------------------------------------------------
\* The pane.

\* Read again, a pane has no jump left to a message it has.
LEMMA ProjectedFacts ==
  ASSUME LoopType, NEW p \in Panes, p.jump = p.target, NEW c \in Chats, NEW o
  PROVE  PaneOK(Projected(p, c), o) /\ Projected(p, c).messages \subseteq loaded
<1> DEFINE messages == {m \in loaded : m.chat = c}
<1>1. messages \subseteq loaded /\ messages \subseteq Messages
  BY DEF LoopType
<1>2. Projected(p, c) \in Panes
  BY <1>1 DEF Projected, Panes, JumpOver
<1>3. Projected(p, c).jump = Projected(p, c).target
  BY DEF Projected, Panes, JumpOver
<1>4. Projected(p, c).target # NoMessage => Projected(p, c).target \notin Projected(p, c).messages
  BY DEF Projected, Panes, JumpOver
<1>5. Projected(p, c).messages = messages
  BY DEF Projected
<1> QED
  BY <1>1, <1>2, <1>3, <1>4, <1>5 DEF PaneOK

\* A turn of the loop leaves the pane's jump and target in agreement (drive_open_chat).
LEMMA TurnInv ==
  ASSUME LoopType, NEW p, NEW f \in {"list", "history"}, NEW c \in Chats \cup {NoChat},
         NEW pages \in [Chats -> {"never", "asked", "answered", "done"}],
         PaneOK(p, open), p.messages \subseteq loaded, Turn(p, f, c, pages)
  PROVE  LoopInv'
<1> DEFINE o == IF f = "history" THEN c ELSE NoChat
           opens == o # open /\ o # NoChat
<1>1. /\ focus' = f /\ cursor' = c /\ open' = o
      /\ pane' = IF opens THEN Projected(p, o) ELSE p
      /\ paging' = IF opens /\ pages[o] = "never" THEN [pages EXCEPT ![o] = "asked"] ELSE pages
      /\ UNCHANGED <<loaded, secret>>
  BY DEF Turn, storeVars
<1>2. o \in Chats \cup {NoChat}
  OBVIOUS
<1>3. LoopType'
  <2>1. paging' \in [Chats -> {"never", "asked", "answered", "done"}]
    BY <1>1, <1>2
  <2> QED
    BY <1>1, <1>2, <2>1 DEF LoopType
<1>4. CASE opens
  <2>1. PaneOK(Projected(p, o), o) /\ Projected(p, o).messages \subseteq loaded
    BY <1>2, <1>4, ProjectedFacts DEF PaneOK
  <2> QED
    BY <1>1, <1>3, <1>4, <2>1 DEF LoopInv, PaneOK
<1>5. CASE ~opens
  <2>1. o = open \/ o = NoChat
    BY <1>5
  <2>2. PaneOK(p, NoChat)
    BY DEF PaneOK, Panes
  <2>3. PaneOK(p, o)
    BY <2>1, <2>2
  <2> QED
    BY <1>1, <1>3, <1>5, <2>3 DEF LoopInv, PaneOK
<1> QED
  BY <1>4, <1>5

\* A re-read of the open chat shows nothing that was not loaded.
LEMMA RereadFacts ==
  ASSUME LoopInv
  PROVE  PaneOK(Reread, open) /\ Reread.messages \subseteq loaded
<1>1. CASE open = NoChat
  BY <1>1 DEF Reread, LoopInv
<1>2. CASE open # NoChat
  <2>1. open \in Chats
    BY <1>2 DEF LoopInv, LoopType
  <2> QED
    BY <1>2, <2>1, ProjectedFacts DEF Reread, LoopInv, PaneOK
<1> QED
  BY <1>1, <1>2

\* Every step keeps the pane's own invariant.
LEMMA LoopStep ==
  ASSUME LoopInv, PickerInv, [Next]_vars
  PROVE  LoopInv'
<1> USE DEF LoopInv
<1>1. ASSUME NEW m \in Messages, Learn(m)
      PROVE  LoopInv'
  BY <1>1 DEF Learn, LoopType, PaneOK, loopVars
<1>2. ASSUME NEW c \in DOMAIN secret, SecretCloses(c)
      PROVE  LoopInv'
  BY <1>2 DEF SecretCloses, LoopType, PaneOK, loopVars
<1>3. ASSUME NEW c \in Chats, PageAnswered(c)
      PROVE  LoopInv'
  BY <1>3 DEF PageAnswered, LoopType, PaneOK
<1>4. ASSUME NEW c \in Chats, PageReported(c)
      PROVE  LoopInv'
  <2> DEFINE p == IF open = c THEN Reread ELSE pane
             pages == [paging EXCEPT ![c] = "done"]
  <2>1. Turn(p, focus, cursor, pages)
    BY <1>4 DEF PageReported
  <2>2. PaneOK(p, open) /\ p.messages \subseteq loaded
    BY RereadFacts
  <2>3. pages \in [Chats -> {"never", "asked", "answered", "done"}]
    BY DEF LoopType
  <2> HIDE DEF p, pages
  <2> QED
    BY <2>1, <2>2, <2>3, TurnInv DEF LoopType
<1>5. ASSUME NEW c \in Chats \cup {NoChat}, Signal(c)
      PROVE  LoopInv'
  BY <1>5, RereadFacts, TurnInv DEF Signal, LoopType
<1>6. ASSUME NEW c \in Chats, MoveCursor(c)
      PROVE  LoopInv'
  BY <1>6, TurnInv DEF MoveCursor, LoopType
<1>7. ASSUME NEW f \in {"list", "history"}, MoveFocus(f)
      PROVE  LoopInv'
  BY <1>7, TurnInv DEF MoveFocus, LoopType
<1>8. ASSUME NEW k \in Nat, ResultOpen(k)
      PROVE  LoopInv'
  <2> DEFINE m == Rows(search.answers)[k + 1]
             p == [pane EXCEPT !.jump = m, !.target = m,
                               !.inSight = open = m.chat /\ m \in pane.messages]
             c == IF m.chat \in Listed THEN m.chat ELSE cursor
  <2>1. Turn(p, "history", c, paging) /\ k < Len(Rows(search.answers))
    BY <1>8 DEF ResultOpen, Confirmed, Picker
  <2>2. m \in Messages
    BY <2>1, ChosenFacts DEF Picker, Pickers, Found
  <2>3. PaneOK(p, open) /\ p.messages \subseteq loaded
    BY <2>2 DEF PaneOK, Panes
  <2>4. c \in Chats \cup {NoChat}
    BY DEF LoopType
  <2> HIDE DEF p, c
  <2> QED
    BY <2>1, <2>3, <2>4, TurnInv DEF LoopType
<1>9. CASE UNCHANGED <<storeVars, loopVars>>
  BY <1>9 DEF LoopType, PaneOK, storeVars, loopVars
<1>10. \/ \E m \in Messages : Learn(m)
       \/ \E c \in DOMAIN secret : SecretCloses(c)
       \/ \E c \in Chats : PageAnswered(c) \/ PageReported(c)
       \/ \E c \in Chats \cup {NoChat} : Signal(c)
       \/ \E c \in Chats : MoveCursor(c)
       \/ \E f \in {"list", "history"} : MoveFocus(f)
       \/ \E k \in Nat : ResultOpen(k)
       \/ UNCHANGED <<storeVars, loopVars>>
  <2> DEFINE quiet == UNCHANGED <<storeVars, loopVars>>
  <2>1. \A kind \in Pickers :
          /\ SearchOpen(kind) \/ SearchSubmit(kind) => quiet
          /\ \A q : EditQuery(kind, q) => quiet
          /\ \A k : MoveRow(kind, k) \/ ContactConfirm(k) => quiet
    BY DEF SearchOpen, SearchSubmit, EditQuery, MoveRow, ContactConfirm
  <2>2. SearchCancel \/ ForwardOpen \/ ForwardConfirm \/ ForwardCancel => quiet
    BY DEF SearchCancel, ForwardOpen, ForwardConfirm, ForwardCancel
  <2>3. SecretOpen \/ SecretConfirm \/ SecretCancel => quiet
    BY DEF SecretOpen, SecretConfirm, SecretCancel
  <2>4. \A t : Answered(t) \/ Done(t) \/ Fails(t) => quiet
    BY DEF Answered, Done, Fails
  <2>5. Explain \/ NoticeTick \/ NoticeDismiss => quiet
    BY DEF Explain, NoticeTick, NoticeDismiss
  <2>6. UNCHANGED vars => quiet
    BY DEF vars
  <2>7. Cardinality(Messages) \in Nat
    BY FS_CardinalityType
  <2>8. quiet => UNCHANGED <<storeVars, loopVars>>
    OBVIOUS
  <2> HIDE DEF quiet
  <2> QED
    BY <2>1, <2>2, <2>3, <2>4, <2>5, <2>6, <2>7, <2>8 DEF Next, Pickers
<1> QED
  BY <1>1, <1>2, <1>3, <1>4, <1>5, <1>6, <1>7, <1>8, <1>9, <1>10

-----------------------------------------------------------------------------
\* The pickers.

\* Filling one picker keeps the invariant of both.
LEMMA FillFacts ==
  ASSUME PickerInv, NEW kind \in Pickers, NEW p \in Views(kind), Fill(kind, p),
         HasHit(p) => p.row < Len(Rows(p.answers))
  PROVE  PickerInv'
<1>1. CASE kind = "search"
  BY <1>1 DEF PickerInv, Fill, HasHit
<1>2. CASE kind = "contacts"
  BY <1>2 DEF PickerInv, Fill, HasHit
<1> QED
  BY <1>1, <1>2 DEF Pickers

\* Filling one picker leaves the other alone.
LEMMA FillPicks ==
  ASSUME NEW kind \in Pickers, NEW p, Fill(kind, p)
  PROVE  /\ Picker(kind)' = p
         /\ \A other \in Pickers \ {kind} : Picker(other)' = Picker(other)
BY DEF Fill, Picker, Pickers

\* A picker is a view whose cursor is on a row of its answer.
LEMMA PickerFacts ==
  ASSUME PickerInv, NEW kind \in Pickers
  PROVE  /\ Picker(kind) \in Views(kind)
         /\ HasHit(Picker(kind)) => Picker(kind).row < Len(Rows(Picker(kind).answers))
         /\ Rows(Picker(kind).answers) \in Seq(Found(kind))
<1>1. /\ Picker(kind) \in Views(kind)
      /\ HasHit(Picker(kind)) => Picker(kind).row < Len(Rows(Picker(kind).answers))
  BY DEF PickerInv, Picker, Pickers
<1> QED
  BY <1>1, RowsFacts DEF Views

\* Every step keeps both pickers well formed.
LEMMA PickerStep ==
  ASSUME PickerInv, TaskInv, [Next]_vars
  PROVE  PickerInv'
<1>1. ASSUME NEW kind \in Pickers, SearchOpen(kind)
      PROVE  PickerInv'
  <2>1. Fresh \in Views(kind) /\ ~HasHit(Fresh)
    BY DEF Fresh, Views, HasHit, Rows
  <2> QED
    BY <1>1, <2>1, FillFacts DEF SearchOpen
<1>2. ASSUME NEW kind \in Pickers, NEW q \in Queries[kind] \cup {Blank}, EditQuery(kind, q)
      PROVE  PickerInv'
  <2> DEFINE p == [Picker(kind) EXCEPT !.query = q]
  <2>1. p \in Views(kind) /\ p.answers = Picker(kind).answers /\ p.row = Picker(kind).row
    BY PickerFacts DEF Views
  <2>2. HasHit(p) => p.row < Len(Rows(p.answers))
    BY <2>1, PickerFacts DEF HasHit
  <2> QED
    BY <1>2, <2>1, <2>2, FillFacts DEF EditQuery
<1>3. ASSUME NEW kind \in Pickers, SearchSubmit(kind)
      PROVE  PickerInv'
  <2> DEFINE p == Submitted(Picker(kind))
  <2>1. p \in Views(kind) /\ p.answers = NoMessage
    BY PickerFacts DEF Views, Submitted
  <2>2. ~HasHit(p)
    BY <2>1 DEF HasHit, Rows
  <2> QED
    BY <1>3, <2>1, <2>2, FillFacts DEF SearchSubmit
<1>4. ASSUME NEW t \in tasks, Answered(t)
      PROVE  PickerInv'
  <2> DEFINE p == Filled(Picker(t.kind), t.what)
  <2>1. t.kind \in Pickers /\ Fill(t.kind, p) /\ t.what \in Searches(t.kind)
    BY <1>4 DEF Answered, TaskInv, Request
  <2>2. p \in Views(t.kind) /\ p.answers = t.what /\ p.row = 0
    BY <2>1, PickerFacts DEF Views, Filled
  <2>3. HasHit(p) => p.row < Len(Rows(p.answers))
    BY <2>1, <2>2, RowsFacts DEF HasHit
  <2> QED
    BY <2>1, <2>2, <2>3, FillFacts
<1>5. ASSUME NEW kind \in Pickers, NEW k \in Nat, k < Len(Rows(Picker(kind).answers)),
             Fill(kind, [Picker(kind) EXCEPT !.row = k])
      PROVE  PickerInv'
  <2> DEFINE p == [Picker(kind) EXCEPT !.row = k]
  <2>1. p \in Views(kind) /\ p.answers = Picker(kind).answers /\ p.row = k
    BY PickerFacts DEF Views
  <2>2. HasHit(p) => p.row < Len(Rows(p.answers))
    BY <1>5, <2>1
  <2> QED
    BY <1>5, <2>1, <2>2, FillFacts
<1>6. ASSUME NEW kind \in Pickers, NEW k, MoveRow(kind, k)
      PROVE  PickerInv'
  <2>1. k \in Nat /\ k < Len(Rows(Picker(kind).answers))
    BY <1>6, PickerFacts DEF MoveRow
  <2> QED
    BY <1>5, <1>6, <2>1 DEF MoveRow
<1>7. ASSUME NEW k \in Nat, ResultOpen(k) \/ ContactConfirm(k)
      PROVE  PickerInv'
  <2>1. \E kind \in Pickers : Confirmed(kind, k)
    BY <1>7 DEF ResultOpen, ContactConfirm, Pickers
  <2> QED
    BY <1>5, <2>1 DEF Confirmed
<1>8. CASE UNCHANGED pickers
  BY <1>8 DEF PickerInv, pickers, HasHit
<1>9. \/ \E kind \in Pickers :
           \/ SearchOpen(kind) \/ SearchSubmit(kind)
           \/ \E q \in Queries[kind] \cup {Blank} : EditQuery(kind, q)
           \/ \E k : MoveRow(kind, k)
      \/ \E t \in tasks : Answered(t)
      \/ \E k \in Nat : ResultOpen(k) \/ ContactConfirm(k)
      \/ UNCHANGED pickers
  <2> DEFINE quiet == UNCHANGED pickers
  <2>1. \A c : Learn(c) \/ SecretCloses(c) \/ PageAnswered(c) => quiet
    BY DEF Learn, SecretCloses, PageAnswered
  <2>2. \A c : PageReported(c) \/ Signal(c) \/ MoveCursor(c) \/ MoveFocus(c) => quiet
    BY DEF PageReported, Signal, MoveCursor, MoveFocus, Browsing
  <2>3. SearchCancel \/ ForwardOpen \/ ForwardConfirm \/ ForwardCancel => quiet
    BY DEF SearchCancel, ForwardOpen, ForwardConfirm, ForwardCancel
  <2>4. SecretOpen \/ SecretConfirm \/ SecretCancel => quiet
    BY DEF SecretOpen, SecretConfirm, SecretCancel
  <2>5. \A t : Done(t) \/ Fails(t) => quiet
    BY DEF Done, Fails
  <2>6. Explain \/ NoticeTick \/ NoticeDismiss \/ UNCHANGED vars => quiet
    BY DEF Explain, NoticeTick, NoticeDismiss, vars
  <2>7. Cardinality(Messages) \in Nat /\ Cardinality(Users) \in Nat
    BY FS_CardinalityType
  <2>8. quiet => UNCHANGED pickers
    OBVIOUS
  <2> HIDE DEF quiet
  <2> QED
    BY <2>1, <2>2, <2>3, <2>4, <2>5, <2>6, <2>7, <2>8 DEF Next
<1> QED
  BY <1>1, <1>2, <1>3, <1>4, <1>6, <1>7, <1>8, <1>9

-----------------------------------------------------------------------------
\* The requests.

\* A spawned request is one more task, well formed if its request is.
LEMMA SpawnFacts ==
  ASSUME TaskInv, NEW kind, NEW what, Spawn(kind, what)
  PROVE  \E n : LET t == [kind |-> kind, what |-> what, n |-> n] IN
           /\ tasks' = tasks \cup {t}
           /\ Request(t) => TaskInv'
<1>1. PICK n : tasks' = tasks \cup {[kind |-> kind, what |-> what, n |-> n]}
  BY DEF Spawn
<1> DEFINE t == [kind |-> kind, what |-> what, n |-> n]
<1>2. IsFiniteSet(tasks') /\ Cardinality(tasks') <= Cardinality(tasks) + 1
  <2>1. IsFiniteSet(tasks) /\ Cardinality(tasks) \in Nat
    BY FS_CardinalityType DEF TaskInv
  <2>2. ASSUME NEW x
        PROVE  /\ IsFiniteSet(tasks \cup {x})
               /\ Cardinality(tasks \cup {x}) <= Cardinality(tasks) + 1
    <3>1. /\ IsFiniteSet(tasks \cup {x})
          /\ Cardinality(tasks \cup {x}) =
               IF x \in tasks THEN Cardinality(tasks) ELSE Cardinality(tasks) + 1
      BY <2>1, FS_AddElement, Zenon
    <3> QED
      BY <2>1, <3>1
  <2> QED
    BY <1>1, <2>2
<1>3. asks < MaxAsks /\ asks' = asks + 1
  BY DEF Spawn
<1>4. Cardinality(tasks') <= asks' /\ asks' \in 0 .. MaxAsks
  BY <1>2, <1>3, FS_CardinalityType DEF TaskInv
<1>5. ASSUME Request(t)
      PROVE  TaskInv'
  BY <1>1, <1>2, <1>4, <1>5 DEF TaskInv
<1> QED
  BY <1>1, <1>5

\* Every step keeps the tasks under way well formed.
LEMMA TaskStep ==
  ASSUME PickerInv, TaskInv, LoopInv, OverlayInv, [Next]_vars
  PROVE  TaskInv'
<1>1. ASSUME NEW kind \in Pickers, SearchSubmit(kind)
      PROVE  TaskInv'
  <2> DEFINE what == Asked(kind, Picker(kind).query, IF kind = "search" THEN open ELSE NoChat)
  <2>1. what \in Searches(kind)
    BY <1>1, PickerFacts DEF SearchSubmit, Views, Asked, Searches, LoopInv, LoopType
  <2>2. \A n : Request([kind |-> kind, what |-> what, n |-> n])
    BY <2>1 DEF Request, Pickers
  <2> QED
    BY <1>1, <2>2, SpawnFacts DEF SearchSubmit
<1>2. CASE ForwardConfirm
  <2>1. \A n : Request([kind |-> "forward", what |-> forwarding.message, n |-> n])
    BY DEF Request, Pickers
  <2>2. CASE UNCHANGED taskVars
    BY <2>2 DEF TaskInv, taskVars
  <2> QED
    BY <1>2, <2>1, <2>2, SpawnFacts DEF ForwardConfirm
<1>3. CASE SecretConfirm
  <2>1. Proper(prompt)
    BY <1>3 DEF SecretConfirm, OverlayInv
  <2>2. \A n : Request([kind |-> "secret", what |-> prompt, n |-> n])
    BY <2>1 DEF Request, Pickers
  <2> QED
    BY <1>3, <2>2, SpawnFacts DEF SecretConfirm, Agreed
<1>4. ASSUME NEW t \in tasks, Answered(t) \/ Done(t) \/ Fails(t)
      PROVE  TaskInv'
  <2>1. tasks' = tasks \ {t} /\ asks' = asks
    BY <1>4 DEF Answered, Done, Fails
  <2>2. IsFiniteSet(tasks') /\ Cardinality(tasks') <= Cardinality(tasks)
    <3>1. IsFiniteSet(tasks) /\ Cardinality(tasks) \in Nat
      BY FS_CardinalityType DEF TaskInv
    <3>2. IsFiniteSet(tasks \ {t}) /\ Cardinality(tasks \ {t}) = Cardinality(tasks) - 1
      BY <3>1, FS_RemoveElement, Zenon
    <3> QED
      BY <2>1, <3>1, <3>2
  <2>3. Cardinality(tasks') \in Nat /\ Cardinality(tasks) \in Nat
    BY <2>2, FS_CardinalityType DEF TaskInv
  <2> QED
    BY <2>1, <2>2, <2>3 DEF TaskInv
<1>5. CASE UNCHANGED taskVars
  BY <1>5 DEF TaskInv, taskVars
<1>6. \/ \E kind \in Pickers : SearchSubmit(kind)
      \/ ForwardConfirm \/ SecretConfirm
      \/ \E t \in tasks : Answered(t) \/ Done(t) \/ Fails(t)
      \/ UNCHANGED taskVars
  <2> DEFINE quiet == UNCHANGED taskVars
  <2>1. \A c : Learn(c) \/ SecretCloses(c) \/ PageAnswered(c) => quiet
    BY DEF Learn, SecretCloses, PageAnswered
  <2>2. \A c : PageReported(c) \/ Signal(c) \/ MoveCursor(c) \/ MoveFocus(c) => quiet
    BY DEF PageReported, Signal, MoveCursor, MoveFocus, Browsing
  <2>3. \A kind : /\ SearchOpen(kind) => quiet
                  /\ \A q : EditQuery(kind, q) \/ MoveRow(kind, q) => quiet
    BY DEF SearchOpen, EditQuery, MoveRow
  <2>4. \A k : ResultOpen(k) \/ ContactConfirm(k) => quiet
    BY DEF ResultOpen, ContactConfirm
  <2>5. SearchCancel \/ ForwardOpen \/ ForwardCancel \/ SecretOpen \/ SecretCancel => quiet
    BY DEF SearchCancel, ForwardOpen, ForwardCancel, SecretOpen, SecretCancel
  <2>6. Explain \/ NoticeTick \/ NoticeDismiss \/ UNCHANGED vars => quiet
    BY DEF Explain, NoticeTick, NoticeDismiss, vars
  <2>7. quiet => UNCHANGED taskVars
    OBVIOUS
  <2> HIDE DEF quiet
  <2> QED
    BY <2>1, <2>2, <2>3, <2>4, <2>5, <2>6, <2>7 DEF Next
<1> QED
  BY <1>1, <1>2, <1>3, <1>4, <1>5, <1>6

-----------------------------------------------------------------------------
\* The overlays and the prompt.

\* The lifecycle prompt of a chat is about that chat (ForChat).
LEMMA ForChatFacts ==
  ASSUME LoopType, NEW c \in Chats, ForChat(c) # NoPrompt
  PROVE  ForChat(c) \in Lifecycles /\ Proper(ForChat(c))
<1>1. CASE KindOf[c] = "private" \/ (KindOf[c] = "secret" /\ secret[c] = "closed")
  <2>1. ForChat(c) = [act |-> "start", with |-> Peer[c], about |-> c]
    BY <1>1 DEF ForChat
  <2>2. Peer[c] \in Users /\ c \notin Users
    BY <1>1
  <2> QED
    BY <2>1, <2>2 DEF Lifecycles, Proper
<1>2. CASE KindOf[c] = "secret" /\ secret[c] # "closed"
  <2>1. ForChat(c) = [act |-> "close", with |-> c, about |-> c]
    BY <1>2 DEF ForChat
  <2> QED
    BY <2>1 DEF Lifecycles, Proper
<1>3. CASE KindOf[c] # "private" /\ KindOf[c] # "secret"
  BY <1>3 DEF ForChat
<1> QED
  BY <1>1, <1>2, <1>3

\* A prompt that acts is none of the absent one.
LEMMA PromptFacts ==
  Lifecycles \cap {NoPrompt} = {}
<1>1. \A p \in Lifecycles : p.act # NoPrompt.act
  BY DEF Lifecycles, NoPrompt
<1> QED
  BY <1>1

\* Every step keeps the prompt proper to what it was opened for.
LEMMA OverlayStep ==
  ASSUME LoopInv, PickerInv, OverlayInv, [Next]_vars
  PROVE  OverlayInv'
<1>1. ASSUME NEW kind \in Pickers, SearchOpen(kind) \/ SearchSubmit(kind)
      PROVE  OverlayInv'
  <2>1. overlay \in {"none", "search", "contacts"} /\ overlay' \in {"search", "contacts", "hits", "people"}
        /\ UNCHANGED prompt
    BY <1>1 DEF SearchOpen, SearchSubmit, Pickers, Results
  <2> QED
    BY <2>1 DEF OverlayInv, Overlays
<1>2. ASSUME NEW k \in Nat, ResultOpen(k)
      PROVE  OverlayInv'
  <2>1. overlay = "hits" /\ overlay' = "none" /\ UNCHANGED prompt
    BY <1>2 DEF ResultOpen, Confirmed, Results
  <2> QED
    BY <2>1 DEF OverlayInv, Overlays
<1>3. ASSUME NEW k \in Nat, ContactConfirm(k)
      PROVE  OverlayInv'
  <2> DEFINE u == Rows(contacts.answers)[k + 1]
  <2>1. /\ k < Len(Rows(contacts.answers)) /\ overlay' = "secret"
        /\ prompt' = [act |-> "start", with |-> u, about |-> u]
    BY <1>3 DEF ContactConfirm, Confirmed, Picker
  <2>2. u \in Users
    BY <2>1, ChosenFacts DEF Picker, Pickers, Found
  <2>3. prompt' \in Lifecycles /\ Proper(prompt')
    BY <2>1, <2>2 DEF Lifecycles, Proper
  <2> QED
    BY <2>1, <2>3, PromptFacts DEF OverlayInv, Overlays, Proper
<1>4. CASE SearchCancel
  <2>1. overlay # "secret" /\ overlay' = "none" /\ UNCHANGED prompt
    BY <1>4 DEF SearchCancel, Pickers
  <2> QED
    BY <2>1 DEF OverlayInv, Overlays
<1>5. CASE ForwardOpen
  <2>1. /\ overlay \in {"hits", "none"} /\ overlay' = "forward" /\ UNCHANGED prompt
        /\ forwarding'.back \in {"none", "hits"}
    BY <1>5 DEF ForwardOpen, Forward
  <2> QED
    BY <2>1 DEF OverlayInv, Overlays
<1>6. CASE ForwardConfirm \/ ForwardCancel
  <2>1. /\ overlay = "forward" /\ overlay' \in {"none", "hits"} /\ UNCHANGED prompt
    BY <1>6 DEF ForwardConfirm, ForwardCancel, OverlayInv
  <2> QED
    BY <2>1 DEF OverlayInv, Overlays
<1>7. CASE SecretOpen
  <2>1. cursor \in Chats /\ ForChat(cursor) # NoPrompt /\ prompt' = ForChat(cursor) /\ overlay' = "secret"
    BY <1>7 DEF SecretOpen, LoopInv, LoopType
  <2>2. prompt' \in Lifecycles /\ Proper(prompt')
    BY <2>1, ForChatFacts DEF LoopInv
  <2> QED
    BY <2>1, <2>2, PromptFacts DEF OverlayInv, Overlays, Proper
<1>8. CASE SecretConfirm \/ SecretCancel
  <2>1. overlay' = "none" /\ prompt' = NoPrompt
    BY <1>8 DEF SecretConfirm, SecretCancel
  <2> QED
    BY <2>1 DEF OverlayInv, Overlays
<1>9. CASE UNCHANGED overlayVars
  BY <1>9 DEF OverlayInv, overlayVars, Proper
<1>10. \/ \E kind \in Pickers : SearchOpen(kind) \/ SearchSubmit(kind)
       \/ \E k \in Nat : ResultOpen(k) \/ ContactConfirm(k)
       \/ SearchCancel \/ ForwardOpen \/ ForwardConfirm \/ ForwardCancel
       \/ SecretOpen \/ SecretConfirm \/ SecretCancel
       \/ UNCHANGED overlayVars
  <2> DEFINE quiet == UNCHANGED overlayVars
  <2>1. \A c : Learn(c) \/ SecretCloses(c) \/ PageAnswered(c) => quiet
    BY DEF Learn, SecretCloses, PageAnswered
  <2>2. \A c : PageReported(c) \/ Signal(c) \/ MoveCursor(c) \/ MoveFocus(c) => quiet
    BY DEF PageReported, Signal, MoveCursor, MoveFocus, Browsing
  <2>3. \A kind, q : EditQuery(kind, q) \/ MoveRow(kind, q) => quiet
    BY DEF EditQuery, MoveRow
  <2>4. \A t : Answered(t) \/ Done(t) \/ Fails(t) => quiet
    BY DEF Answered, Done, Fails
  <2>5. Explain \/ NoticeTick \/ NoticeDismiss \/ UNCHANGED vars => quiet
    BY DEF Explain, NoticeTick, NoticeDismiss, vars
  <2>6. Cardinality(Messages) \in Nat /\ Cardinality(Users) \in Nat
    BY FS_CardinalityType
  <2>7. quiet => UNCHANGED overlayVars
    OBVIOUS
  <2> HIDE DEF quiet
  <2> QED
    BY <2>1, <2>2, <2>3, <2>4, <2>5, <2>6, <2>7 DEF Next
<1> QED
  BY <1>1, <1>2, <1>3, <1>4, <1>5, <1>6, <1>7, <1>8, <1>9, <1>10

-----------------------------------------------------------------------------
\* The answers and what was asked.

\* What counts for a picker when its list is not changed, and no request added to it.
AnswersKept(kind) ==
  /\ Picker(kind)' = Picker(kind)
  /\ \A t \in tasks' : t.kind = kind => t \in tasks

\* A step that keeps the answers and opens no hits keeps what they answer.
LEMMA KeptFacts ==
  ASSUME AnswersInv, crossed' = crossed, \A kind \in Pickers : AnswersKept(kind),
         \A kind \in Pickers : Shows(kind)' => Shows(kind)
  PROVE  AnswersInv'
BY DEF AnswersInv, AnswersKept

\* Every step keeps the hits those of the query they were asked for.
LEMMA AnswersStep ==
  ASSUME PickerInv, TaskInv, OverlayInv, AnswersInv, [Next]_vars
  PROVE  AnswersInv'
<1>1. ASSUME NEW kind \in Pickers, SearchOpen(kind)
      PROVE  AnswersInv'
  <2>1. overlay' = kind /\ crossed' = crossed
    BY <1>1 DEF SearchOpen
  <2>2. \A k \in Pickers : ~Shows(k)'
    BY <2>1 DEF Shows, Results, Pickers
  <2> QED
    BY <2>1, <2>2 DEF AnswersInv
<1>2. ASSUME NEW kind \in Pickers, NEW q, EditQuery(kind, q)
      PROVE  AnswersInv'
  <2>1. overlay' = kind /\ crossed' = crossed
    BY <1>2 DEF EditQuery, overlayVars
  <2>2. \A k \in Pickers : ~Shows(k)'
    BY <2>1 DEF Shows, Results, Pickers
  <2> QED
    BY <2>1, <2>2 DEF AnswersInv
<1>3. ASSUME NEW kind \in Pickers, SearchSubmit(kind)
      PROVE  AnswersInv'
  <2> DEFINE q == Picker(kind).query
             s == IF kind = "search" THEN open ELSE NoChat
  <2>1. /\ overlay' = Results(kind) /\ Fill(kind, Submitted(Picker(kind)))
        /\ Spawn(kind, Asked(kind, q, s))
        /\ crossed' = IF \E t \in tasks : t.kind = kind THEN crossed \cup {kind} ELSE crossed \ {kind}
    BY <1>3 DEF SearchSubmit
  <2>2. Picker(kind)'.answers = NoMessage /\ Picker(kind)'.query = q
    <3>1. Picker(kind)' = Submitted(Picker(kind))
      BY <2>1, FillPicks
    <3>2. Picker(kind) \in Views(kind)
      BY PickerFacts
    <3> QED
      BY <3>1, <3>2 DEF Submitted, Views
  <2>3. PICK n : tasks' = tasks \cup {[kind |-> kind, what |-> Asked(kind, q, s), n |-> n]}
    BY <2>1, SpawnFacts
  <2>4. \A k \in Pickers : Shows(k)' => k = kind
    BY <2>1 DEF Shows, Results, Pickers
  <2>5. kind \notin crossed' => \A t \in tasks' : t.kind = kind => t.what.query = q
    BY <2>1, <2>3 DEF Asked
  <2> QED
    BY <2>1, <2>2, <2>4, <2>5 DEF AnswersInv
<1>4. ASSUME NEW t \in tasks, Answered(t)
      PROVE  AnswersInv'
  <2>1. /\ t.kind \in Pickers /\ Fill(t.kind, Filled(Picker(t.kind), t.what))
        /\ tasks' = tasks \ {t} /\ UNCHANGED <<overlayVars, crossed>>
    BY <1>4 DEF Answered
  <2>2. /\ Picker(t.kind)'.answers = t.what /\ Picker(t.kind)'.query = Picker(t.kind).query
        /\ \A kind \in Pickers \ {t.kind} : Picker(kind)' = Picker(kind)
    <3>1. /\ Picker(t.kind)' = Filled(Picker(t.kind), t.what)
          /\ \A kind \in Pickers \ {t.kind} : Picker(kind)' = Picker(kind)
      BY <2>1, FillPicks
    <3>2. Picker(t.kind) \in Views(t.kind)
      BY <2>1, PickerFacts
    <3> QED
      BY <3>1, <3>2 DEF Filled, Views
  <2>3. \A kind : Shows(kind)' = Shows(kind)
    BY <2>1 DEF Shows, overlayVars
  <2> QED
    BY <2>1, <2>2, <2>3 DEF AnswersInv
<1>5. ASSUME NEW kind \in Pickers, NEW k, Fill(kind, [Picker(kind) EXCEPT !.row = k]),
             UNCHANGED <<tasks, crossed>>, \A x \in Pickers : Shows(x)' => Shows(x)
      PROVE  AnswersInv'
  <2>1. /\ Picker(kind)'.answers = Picker(kind).answers /\ Picker(kind)'.query = Picker(kind).query
        /\ \A x \in Pickers \ {kind} : Picker(x)' = Picker(x)
    BY <1>5, FillPicks, PickerFacts DEF Views
  <2> QED
    BY <1>5, <2>1 DEF AnswersInv
<1>6. ASSUME NEW kind \in Pickers, NEW k, MoveRow(kind, k)
      PROVE  AnswersInv'
  <2>1. \A x \in Pickers : Shows(x)' => Shows(x)
    BY <1>6 DEF MoveRow, Shows, overlayVars
  <2> QED
    BY <1>5, <1>6, <2>1 DEF MoveRow, taskVars
<1>7. ASSUME NEW k, ResultOpen(k) \/ ContactConfirm(k)
      PROVE  AnswersInv'
  <2>1. \A x \in Pickers : ~Shows(x)'
    BY <1>7 DEF ResultOpen, ContactConfirm, Shows, Results
  <2> QED
    BY <1>5, <1>7, <2>1 DEF ResultOpen, ContactConfirm, Confirmed, taskVars, Pickers
<1>8. CASE SearchCancel \/ SecretOpen \/ SecretCancel
  <2>1. \A x \in Pickers : ~Shows(x)' /\ AnswersKept(x)
    BY <1>8 DEF SearchCancel, SecretOpen, SecretCancel, Shows, Results, AnswersKept, Picker,
                pickers, taskVars
  <2> QED
    BY <1>8, <2>1, KeptFacts DEF SearchCancel, SecretOpen, SecretCancel
<1>9. CASE ForwardOpen \/ ForwardCancel
  <2>1. \A x \in Pickers : AnswersKept(x)
    BY <1>9 DEF ForwardOpen, ForwardCancel, AnswersKept, Picker, pickers, taskVars
  <2>2. \A x \in Pickers : Shows(x)' => Shows(x)
    BY <1>9 DEF ForwardOpen, ForwardCancel, Forward, Shows, Results, OverlayInv, Pickers
  <2> QED
    BY <1>9, <2>1, <2>2, KeptFacts DEF ForwardOpen, ForwardCancel
<1>10. ASSUME NEW kind \in {"forward", "secret"}, NEW what, overlay' = "none",
              Spawn(kind, what) \/ UNCHANGED taskVars, UNCHANGED <<pickers, crossed>>
       PROVE  AnswersInv'
  <2>1. \A x \in Pickers : ~Shows(x)'
    BY <1>10 DEF Shows, Results
  <2>2. \A t \in tasks' : t \in tasks \/ t.kind = kind
    <3>1. CASE UNCHANGED taskVars
      BY <3>1 DEF taskVars
    <3>2. CASE Spawn(kind, what)
      <4>1. PICK n : tasks' = tasks \cup {[kind |-> kind, what |-> what, n |-> n]}
        BY <3>2, SpawnFacts
      <4> QED
        BY <4>1
    <3> QED
      BY <1>10, <3>1, <3>2
  <2>3. \A x \in Pickers : AnswersKept(x)
    BY <1>10, <2>2 DEF AnswersKept, Picker, pickers, Pickers
  <2> QED
    BY <1>10, <2>1, <2>3, KeptFacts
<1>11. CASE ForwardConfirm \/ SecretConfirm
  BY <1>10, <1>11 DEF ForwardConfirm, SecretConfirm
<1>12. ASSUME NEW t \in tasks, Done(t) \/ Fails(t)
       PROVE  AnswersInv'
  <2>1. \A x \in Pickers : AnswersKept(x) /\ (Shows(x)' => Shows(x))
    BY <1>12 DEF Done, Fails, AnswersKept, Picker, pickers, Shows, overlayVars
  <2> QED
    BY <1>12, <2>1, KeptFacts DEF Done, Fails
<1>13. CASE UNCHANGED <<overlayVars, pickers, taskVars, crossed>>
  <2>1. \A x \in Pickers : AnswersKept(x) /\ (Shows(x)' => Shows(x))
    BY <1>13 DEF AnswersKept, Picker, pickers, Shows, overlayVars, taskVars
  <2> QED
    BY <1>13, <2>1, KeptFacts
<1>14. \/ \E kind \in Pickers :
            \/ SearchOpen(kind) \/ SearchSubmit(kind)
            \/ \E q : EditQuery(kind, q) \/ MoveRow(kind, q)
       \/ \E t \in tasks : Answered(t) \/ Done(t) \/ Fails(t)
       \/ \E k : ResultOpen(k) \/ ContactConfirm(k)
       \/ SearchCancel \/ ForwardOpen \/ ForwardConfirm \/ ForwardCancel
       \/ SecretOpen \/ SecretConfirm \/ SecretCancel
       \/ UNCHANGED <<overlayVars, pickers, taskVars, crossed>>
  <2> DEFINE quiet == UNCHANGED <<overlayVars, pickers, taskVars, crossed>>
  <2>1. \A c : Learn(c) \/ SecretCloses(c) \/ PageAnswered(c) => quiet
    BY DEF Learn, SecretCloses, PageAnswered
  <2>2. \A c : PageReported(c) \/ Signal(c) \/ MoveCursor(c) \/ MoveFocus(c) => quiet
    BY DEF PageReported, Signal, MoveCursor, MoveFocus, Browsing
  <2>3. Explain \/ NoticeTick \/ NoticeDismiss \/ UNCHANGED vars => quiet
    BY DEF Explain, NoticeTick, NoticeDismiss, vars
  <2>4. quiet => UNCHANGED <<overlayVars, pickers, taskVars, crossed>>
    OBVIOUS
  <2> HIDE DEF quiet
  <2> QED
    BY <2>1, <2>2, <2>3, <2>4 DEF Next
<1> QED
  BY <1>1, <1>2, <1>3, <1>4, <1>6, <1>7, <1>8, <1>9, <1>11, <1>12, <1>13, <1>14

-----------------------------------------------------------------------------
\* The toasts.

\* The first toast of a queue is one of its toasts.
LEMMA FirstFacts ==
  ASSUME NEW q \in Seq(Toasts), q # << >>
  PROVE  1 \in 1 .. Len(q) /\ q[1] \in Toasts /\ q[1].ttl \in Nat
<1>1. Len(q) \in Nat \ {0}
  OBVIOUS
<1>2. q[1] \in Toasts
  BY <1>1
<1> QED
  BY <1>1, <1>2 DEF Toasts

\* A pushed toast keeps the queue's order and time to live.
LEMMA PushInv ==
  ASSUME ToastInv, NEW level \in {"info", "error"}, Push(level)
  PROVE  ToastInv' /\ Len(notices') = Len(notices) + 1
<1> DEFINE toast == [n |-> pushes, level |-> level, ttl |-> Ttl(level)]
<1>1. /\ pushes < MaxPushes /\ pushes' = pushes + 1 /\ notices' = Append(notices, toast)
      /\ dismissed' = FALSE /\ shownFor' = shownFor
  BY DEF Push
<1>2. toast \in Toasts
  BY DEF Toasts, Ttl, ToastInv
<1> HIDE DEF toast
<1>3. /\ notices' \in Seq(Toasts) /\ Len(notices') = Len(notices) + 1 /\ Len(notices) \in Nat
      /\ \A k \in 1 .. Len(notices) : notices'[k] = notices[k]
      /\ notices'[Len(notices) + 1] = toast
  BY <1>1, <1>2 DEF ToastInv
<1>4. toast.ttl = Ttl(toast.level) /\ toast.ttl \in Nat
  BY DEF toast, Ttl
<1>5. /\ notices' # << >>
      /\ \A k \in 2 .. Len(notices') : notices'[k].ttl = Ttl(notices'[k].level)
  BY <1>3, <1>4 DEF ToastInv
<1>6. notices'[1].ttl + shownFor' = Ttl(notices'[1].level)
  <2>1. CASE notices = << >>
    BY <1>1, <1>3, <1>4, <2>1 DEF ToastInv
  <2>2. CASE notices # << >>
    <3>1. Len(notices) >= 1
      BY <1>3, <2>2 DEF ToastInv
    <3> QED
      BY <1>1, <1>3, <2>2, <3>1 DEF ToastInv
  <2> QED
    BY <2>1, <2>2
<1>7. shownFor' \in Nat /\ pushes' \in 0 .. MaxPushes /\ Len(notices') <= pushes'
  BY <1>1, <1>3 DEF ToastInv
<1> QED
  BY <1>3, <1>5, <1>6, <1>7 DEF ToastInv

\* One toast fewer: the next one has all its time to come.
LEMMA ToastLeaves ==
  ASSUME ToastInv, notices # << >>, notices' = Tail(notices), shownFor' = 0,
         pushes' = pushes
  PROVE  ToastInv'
<1>1. /\ notices' \in Seq(Toasts) /\ Len(notices') = Len(notices) - 1
      /\ \A k \in 1 .. Len(notices') : notices'[k] = notices[k + 1] /\ k + 1 \in 1 .. Len(notices)
  BY DEF ToastInv
<1>2. ASSUME NEW k \in 1 .. Len(notices')
      PROVE  notices'[k].ttl = Ttl(notices'[k].level)
  <2>1. notices'[k] = notices[k + 1] /\ k + 1 \in 2 .. Len(notices)
    BY <1>1
  <2> QED
    BY <2>1 DEF ToastInv
<1>3. notices' # << >> => 1 \in 1 .. Len(notices') /\ notices'[1].ttl \in Nat
  BY <1>1, FirstFacts
<1>4. ASSUME notices' # << >>
      PROVE  notices'[1].ttl + shownFor' = Ttl(notices'[1].level)
  <2>1. notices'[1].ttl = Ttl(notices'[1].level)
    BY <1>2, <1>3, <1>4, Zenon
  <2>2. \A n \in Nat : n + 0 = n
    OBVIOUS
  <2>3. notices'[1].ttl + 0 = notices'[1].ttl
    BY <1>3, <1>4, <2>2, Zenon
  <2> QED
    BY <2>1, <2>3, Zenon
<1> QED
  BY <1>1, <1>2, <1>4 DEF ToastInv

\* What the steps do to the toasts.
LEMMA ToastFrame ==
  ASSUME [Next]_vars
  PROVE  \/ \E level \in {"info", "error"} : Push(level)
         \/ NoticeDismiss \/ NoticeTick \/ UNCHANGED noticeVars
<1> DEFINE quiet == UNCHANGED noticeVars
<1>1. \A c : Learn(c) \/ SecretCloses(c) \/ PageAnswered(c) => quiet
  BY DEF Learn, SecretCloses, PageAnswered
<1>2. \A c : PageReported(c) \/ Signal(c) \/ MoveCursor(c) \/ MoveFocus(c) => quiet
  BY DEF PageReported, Signal, MoveCursor, MoveFocus, Browsing
<1>3. \A kind : /\ SearchOpen(kind) \/ SearchSubmit(kind) => quiet
                /\ \A q : EditQuery(kind, q) \/ MoveRow(kind, q) => quiet
  BY DEF SearchOpen, SearchSubmit, EditQuery, MoveRow
<1>4. \A k : ResultOpen(k) \/ ContactConfirm(k) \/ Answered(k) \/ Done(k) => quiet
  BY DEF ResultOpen, ContactConfirm, Answered, Done
<1>5. SearchCancel \/ ForwardOpen \/ ForwardConfirm \/ ForwardCancel => quiet
  BY DEF SearchCancel, ForwardOpen, ForwardConfirm, ForwardCancel
<1>6. SecretOpen \/ SecretConfirm \/ SecretCancel \/ UNCHANGED vars => quiet
  BY DEF SecretOpen, SecretConfirm, SecretCancel, vars
<1>7. (\E t : Fails(t)) \/ Explain => \E level \in {"info", "error"} : Push(level)
  BY DEF Fails, Explain
<1>8. quiet => UNCHANGED noticeVars
  OBVIOUS
<1> HIDE DEF quiet
<1> QED
  BY <1>1, <1>2, <1>3, <1>4, <1>5, <1>6, <1>7, <1>8 DEF Next

\* No step takes a toast away before its time, unless it is dismissed.
LEMMA ToastStep ==
  ASSUME ToastInv, [Next]_vars
  PROVE  /\ ToastInv'
         /\ Len(notices') < Len(notices) =>
              dismissed' \/ shownFor + 1 = Ttl(Head(notices).level)
<1> DEFINE Full == Len(notices') < Len(notices) =>
                     dismissed' \/ shownFor + 1 = Ttl(Head(notices).level)
<1>1. ASSUME NEW level \in {"info", "error"}, Push(level)
      PROVE  ToastInv' /\ Full
  BY <1>1, PushInv DEF ToastInv
<1>2. CASE NoticeDismiss
  BY <1>2, ToastLeaves DEF NoticeDismiss
<1>3. CASE NoticeTick
  <2>1. /\ notices # << >> /\ notices' = Aged(notices) /\ dismissed' = FALSE /\ pushes' = pushes
        /\ shownFor' = IF Len(notices') < Len(notices) THEN 0 ELSE shownFor + 1
    BY <1>3 DEF NoticeTick
  <2>2. /\ Len(notices) \in Nat \ {0} /\ Head(notices) = notices[1] /\ notices[1] \in Toasts
        /\ notices[1].ttl + shownFor = Ttl(notices[1].level) /\ notices[1].ttl \in Nat
    <3>1. Len(notices) \in Nat \ {0} /\ Head(notices) = notices[1] /\ notices[1] \in Toasts
      BY <2>1 DEF ToastInv
    <3> QED
      BY <2>1, <3>1 DEF ToastInv, Toasts
  <2>3. CASE Head(notices).ttl = 1
    <3>1. notices' = Tail(notices) /\ Len(Tail(notices)) < Len(notices)
      BY <2>1, <2>2, <2>3 DEF Aged, ToastInv
    <3>2. ToastInv'
      BY <2>1, <3>1, ToastLeaves
    <3> QED
      BY <2>2, <2>3, <3>2 DEF ToastInv
  <2>4. CASE Head(notices).ttl # 1
    <3> DEFINE head == [Head(notices) EXCEPT !.ttl = @ - 1]
    <3>1. notices' = <<head>> \o Tail(notices)
      BY <2>1, <2>4 DEF Aged
    <3>2. head \in Toasts /\ head.ttl = notices[1].ttl - 1 /\ head.level = notices[1].level
      BY <2>2, <2>4 DEF Toasts
    <3>3. /\ Tail(notices) \in Seq(Toasts) /\ Len(Tail(notices)) = Len(notices) - 1
          /\ \A k \in 1 .. Len(notices) - 1 : Tail(notices)[k] = notices[k + 1]
      BY <2>1, <2>2 DEF ToastInv
    <3> HIDE DEF head
    <3>4. /\ notices' \in Seq(Toasts) /\ Len(notices') = Len(notices) /\ notices'[1] = head
          /\ \A k \in 2 .. Len(notices) : notices'[k] = notices[k]
      BY <2>2, <3>1, <3>2, <3>3
    <3>5. shownFor' = shownFor + 1 /\ shownFor' \in Nat /\ notices' # << >>
      BY <2>1, <2>2, <3>4 DEF ToastInv
    <3>6. notices'[1].ttl + shownFor' = Ttl(notices'[1].level)
      <4>1. shownFor \in Nat /\ notices'[1].ttl = notices[1].ttl - 1
            /\ notices'[1].level = notices[1].level
        BY <3>2, <3>4 DEF ToastInv
      <4> QED
        BY <2>2, <3>5, <4>1
    <3>7. \A k \in 2 .. Len(notices') : notices'[k].ttl = Ttl(notices'[k].level)
      BY <3>4 DEF ToastInv
    <3> QED
      BY <2>1, <3>4, <3>5, <3>6, <3>7 DEF ToastInv
  <2> QED
    BY <2>3, <2>4
<1>4. CASE UNCHANGED noticeVars
  BY <1>4 DEF ToastInv, noticeVars
<1> QED
  BY <1>1, <1>2, <1>3, <1>4, ToastFrame

\* The dismissal mark is a truth value after every step.
LEMMA DismissedStep ==
  ASSUME dismissed \in BOOLEAN, [Next]_vars
  PROVE  dismissed' \in BOOLEAN
<1>1. (\E level \in {"info", "error"} : Push(level)) \/ NoticeDismiss \/ NoticeTick
        => dismissed' \in {TRUE, FALSE}
  BY DEF Push, NoticeDismiss, NoticeTick
<1>2. UNCHANGED noticeVars => dismissed' = dismissed
  BY DEF noticeVars
<1> QED
  BY <1>1, <1>2, ToastFrame

-----------------------------------------------------------------------------
\* The parts together.
LEMMA InitInv == Init => IInv
<1> SUFFICES ASSUME Init PROVE IInv
  OBVIOUS
<1> USE DEF Init
<1>1. LoopInv
  BY DEF LoopInv, LoopType, PaneOK, Panes
<1>2. PickerInv
  BY DEF PickerInv, Fresh, Views, HasHit, Rows
<1>3. TaskInv
  BY FS_EmptySet DEF TaskInv
<1>4. OverlayInv
  BY DEF OverlayInv, Overlays
<1>5. AnswersInv
  BY DEF AnswersInv, Shows, Results, Pickers
<1>6. ToastInv
  BY DEF ToastInv
<1>7. dismissed \in BOOLEAN
  OBVIOUS
<1> QED
  BY <1>1, <1>2, <1>3, <1>4, <1>5, <1>6, <1>7 DEF IInv

\* The pane, the pickers, the requests, the overlays, the answers and the toasts stay
\* as the inductive invariant has them.
THEOREM FinderInductive == Spec => []IInv
<1>1. Init => IInv
  BY InitInv
<1>2. IInv /\ [Next]_vars => IInv'
  BY LoopStep, PickerStep, TaskStep, OverlayStep, AnswersStep, ToastStep,
     DismissedStep DEF IInv
<1> QED
  BY <1>1, <1>2, PTL DEF Spec

\* A hit opened is selected as soon as the pane of its chat has it, and its jump moves
\* no other view (App::project_conversation); the state being well typed.
THEOREM HitLandsHolds == Spec => []HitLands
<1>1. IInv => TypeOK
  BY DEF IInv, TypeOK, LoopInv, LoopType, PaneOK, Panes, PickerInv, TaskInv, OverlayInv,
         AnswersInv, ToastInv
<1>2. IInv => JumpIsMeant /\ HitIsSelected
  BY DEF IInv, LoopInv, PaneOK, JumpIsMeant, HitIsSelected
<1> QED
  BY <1>1, <1>2, FinderInductive, PTL DEF HitLands

\* What the user confirmed in the secret chat prompt is what is requested, with whom it
\* was opened on (secret.rs, App::confirm_secret).
THEOREM SecretAsAskedHolds == Spec => []SecretAsAsked
<1>1. IInv => SecretAsAsked
  BY DEF IInv, TaskInv, Request, Proper, SecretAsAsked
<1> QED
  BY <1>1, FinderInductive, PTL

\* Answers are shown under the query they are for, unless two requests overlapped
\* (SearchView::set_results).
THEOREM HitsAnswerQueryHolds == Spec => []HitsAnswerQuery
<1>1. IInv => HitsAnswerQuery
  BY DEF IInv, AnswersInv, Shows, HitsAnswerQuery
<1> QED
  BY <1>1, FinderInductive, PTL

\* A toast is shown for all its time, whatever is pushed behind it (Notifications::tick).
THEOREM ShownInFullHolds == Spec => ShownInFull
<1>1. IInv /\ [Next]_vars => [Len(notices') < Len(notices) =>
                               dismissed' \/ shownFor + 1 = Ttl(Head(notices).level)]_vars
  BY ToastStep DEF IInv
<1> QED
  BY <1>1, FinderInductive, PTL DEF Spec, ShownInFull

=============================================================================
