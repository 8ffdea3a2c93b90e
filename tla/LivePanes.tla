----------------------------- MODULE LivePanes -----------------------------
(***************************************************************************)
(* From the update feed to the panes (event.rs, and the core arm of the    *)
(* run loop in lib.rs).  Beside the router, which folds updates into the   *)
(* account state, a second task reads the same feed through a subscription *)
(* of its own, turns each update into a signal and sends it over a bounded *)
(* channel to the run loop.  A signal carries no data: on receiving one    *)
(* the loop reads the folded state back, pane by pane, each under the      *)
(* lock for itself.  Only a connection signal carries its value.           *)
(*                                                                         *)
(* What a pane shows is the set of folded updates it read last.            *)
(***************************************************************************)
EXTENDS CoreSession

CONSTANTS
  Source,        \* the subscription of spawn_core_source
  ChannelDepth   \* CORE_CHANNEL_DEPTH

ASSUME SourceAssumption == Source \in Subscribers /\ Source # Router
ASSUME ChannelDepthAssumption == ChannelDepth \in Nat \ {0}

VARIABLES
  sourceHand,    \* the event the source has taken and not yet sent on
  queue,         \* the signals in the channel, oldest first
  todo,          \* the panes the loop has still to read for the current signal
  open,          \* whether a chat is open in the conversation pane
  shown,         \* shown[p]: the updates pane p shows
  status,        \* the connection update the status bar shows; 0 for none
  \* Ghosts.
  sourceSince,   \* the first update the source could see; 0 before it starts
  delivered,     \* the updates the source took one by one, not as a gap
  stamp          \* stamp[p]: the last update sent when pane p was last read

uiVars == <<sourceHand, queue, todo, open, shown, status, sourceSince, delivered, stamp>>
liveVars == <<vars, uiVars>>

Panes == {"chats", "secret", "conversation"}

\* The update kinds: a chat-list update, a peer's read receipt, a pin, a message,
\* a user record, a presence change, a file's progress, a typing action, a secret
\* chat's state, the connection, the authorization, and one nobody handles.
UpdateKinds ==
  {"Chat", "ReadOutbox", "Pinned", "Message", "User", "UserStatus", "File",
   "Action", "Secret", "Connection", "Auth", "Other"}

ASSUME KindsAssumption == Kinds \subseteq UpdateKinds

\* classify_update: the signal an update gives the loop, or none.
SignalOf(kind) ==
  CASE kind \in {"Chat", "Pinned"} -> "Chats"
    [] kind = "ReadOutbox" -> "ChatReadOutbox"
    [] kind \in {"Message", "User"} -> "Messages"
    [] kind = "File" -> "File"
    [] kind = "Secret" -> "Secret"
    [] kind = "Connection" -> "Connection"
    [] kind = "Auth" -> "Auth"
    [] OTHER -> "none"

Signals ==
  {"Chats", "ChatReadOutbox", "Messages", "File", "Secret", "Connection", "Auth", "Lagged"}

\* A signal in the channel; only a connection signal's update number is used.
Signal == [signal : Signals, n : Nat]

\* The panes the loop reads again on a signal, in the order it does.
PanesOf(signal) ==
  CASE signal = "Chats" -> <<"chats", "secret">>
    [] signal \in {"ChatReadOutbox", "Lagged"} -> <<"chats", "secret", "conversation">>
    [] signal \in {"Messages", "File"} -> <<"conversation">>
    [] signal = "Secret" -> <<"secret">>
    [] OTHER -> << >>

\* The kinds of update whose effect a pane displays.
Displays(pane) ==
  CASE pane = "chats" -> {"Chat", "ReadOutbox"}
    [] pane = "secret" -> {"Chat", "Secret"}
    [] pane = "conversation" -> {"Message", "ReadOutbox", "Pinned", "User", "File"}

\* What reading the account state for a pane gives now.
Snapshot(pane) == {n \in folded : log[n] \in Displays(pane)}

LiveTypeOK ==
  /\ TypeOK
  /\ sourceHand \in Event
  /\ queue \in Seq(Signal) /\ Len(queue) <= ChannelDepth
  /\ todo \in Seq(Panes)
  /\ open \in BOOLEAN
  /\ shown \in [Panes -> SUBSET Nat]
  /\ status \in Nat
  /\ sourceSince \in Nat
  /\ delivered \in SUBSET Nat
  /\ stamp \in [Panes -> Nat]

LiveInit ==
  /\ Init
  /\ sourceHand = NoEvent
  /\ queue = << >>
  /\ todo = << >>
  /\ open = FALSE
  /\ shown = [p \in Panes |-> {}]
  /\ status = 0
  /\ sourceSince = 0
  /\ delivered = {}
  /\ stamp = [p \in Panes |-> 0]

-----------------------------------------------------------------------------
\* The core's steps, which leave the UI alone.
CoreStep == Next /\ UNCHANGED uiVars

\* spawn_core_source, after Client::start: a subscription from here on.
StartSource ==
  /\ Started
  /\ Subscribe(Source)
  /\ sourceSince' = Len(log) + 1
  /\ UNCHANGED <<hand, since, sourceHand, queue, todo, open, shown, status, delivered, stamp>>
  /\ UNCHANGED accountVars /\ UNCHANGED taskVars

\* The source takes the next event; an update without a signal is dropped here.
SourceTake ==
  /\ sourceHand = NoEvent
  /\ Advance(Source)
  /\ LET e == NextEvent(Source) IN
       /\ sourceHand' = IF IsUpdate(e) /\ SignalOf(log[e.first]) = "none" THEN NoEvent ELSE e
       /\ delivered' = IF IsUpdate(e) THEN delivered \cup {e.first} ELSE delivered
  /\ UNCHANGED <<hand, since, queue, todo, open, shown, status, sourceSince, stamp>>
  /\ UNCHANGED accountVars /\ UNCHANGED taskVars

\* The signal for an event: a gap is a signal of its own.
SignalFor(e) ==
  IF IsLagged(e) THEN [signal |-> "Lagged", n |-> 0]
  ELSE [signal |-> SignalOf(log[e.first]), n |-> e.first]

\* Mutant: the signal is dropped when the channel is full.
SourceTrySend ==
  /\ sourceHand # NoEvent
  /\ queue' = IF Len(queue) < ChannelDepth THEN Append(queue, SignalFor(sourceHand)) ELSE queue
  /\ sourceHand' = NoEvent
  /\ UNCHANGED <<todo, open, shown, status, sourceSince, delivered, stamp>>
  /\ UNCHANGED vars

\* tx.send(app_event).await: waits for room, and reads no further meanwhile.
SourceSend ==
  /\ sourceHand # NoEvent
  /\ Len(queue) < ChannelDepth
  /\ queue' = Append(queue, SignalFor(sourceHand))
  /\ sourceHand' = NoEvent
  /\ UNCHANGED <<todo, open, shown, status, sourceSince, delivered, stamp>>
  /\ UNCHANGED vars

\* The open conversation shows a message whose file this could be.
ReferencesFile == \E n \in shown["conversation"] : log[n] = "Message"

\* The conversation is read last, and only while a chat is open; for a file, only if
\* the conversation refers to it.
ReadsConversation(signal) == open /\ (signal = "File" => ReferencesFile)

\* The panes to read for a signal.
PanesFor(signal) ==
  LET panes == PanesOf(signal)
      end == Len(panes)
  IN IF end # 0 /\ panes[end] = "conversation" /\ ~ReadsConversation(signal)
     THEN SubSeq(panes, 1, end - 1) ELSE panes

\* Mutant: a gap is taken for a mere repaint.
LoopTakeIgnoresLag ==
  /\ todo = << >>
  /\ queue # << >>
  /\ LET s == Head(queue) IN
       /\ todo' = IF s.signal = "Lagged" THEN << >> ELSE PanesFor(s.signal)
       /\ status' = IF s.signal = "Connection" THEN s.n ELSE status
  /\ queue' = Tail(queue)
  /\ UNCHANGED <<sourceHand, open, shown, sourceSince, delivered, stamp>>
  /\ UNCHANGED vars

\* The core arm of the loop's select: one signal.
LoopTake ==
  /\ todo = << >>
  /\ queue # << >>
  /\ LET s == Head(queue) IN
       /\ todo' = PanesFor(s.signal)
       /\ status' = IF s.signal = "Connection" THEN s.n ELSE status
  /\ queue' = Tail(queue)
  /\ UNCHANGED <<sourceHand, open, shown, sourceSince, delivered, stamp>>
  /\ UNCHANGED vars

\* Read the state for one pane, under the lock, and project it.
Project(pane) ==
  /\ shown' = [shown EXCEPT ![pane] = Snapshot(pane)]
  /\ stamp' = [stamp EXCEPT ![pane] = Len(log)]

LoopProject ==
  /\ todo # << >>
  /\ Project(Head(todo))
  /\ todo' = Tail(todo)
  /\ UNCHANGED <<sourceHand, queue, open, status, sourceSince, delivered>>
  /\ UNCHANGED vars

\* Mutant: opening a chat waits for the next signal to fill its pane.
OpenChatUnprojected ==
  /\ todo = << >>
  /\ ~open
  /\ open' = TRUE
  /\ UNCHANGED <<sourceHand, queue, todo, shown, stamp, status, sourceSince, delivered>>
  /\ UNCHANGED vars

\* The user moves into a chat: drive_open_chat projects it at once.  Between two
\* signals, like every other arm of the loop.
OpenChat ==
  /\ todo = << >>
  /\ ~open
  /\ open' = TRUE
  /\ Project("conversation")
  /\ UNCHANGED <<sourceHand, queue, todo, status, sourceSince, delivered>>
  /\ UNCHANGED vars

CloseChat ==
  /\ todo = << >>
  /\ open
  /\ open' = FALSE
  /\ UNCHANGED <<sourceHand, queue, todo, shown, status, sourceSince, delivered, stamp>>
  /\ UNCHANGED vars

LiveNext ==
  \/ CoreStep
  \/ StartSource
  \/ SourceTake
  \/ SourceSend
  \/ LoopTake
  \/ LoopProject
  \/ OpenChat
  \/ CloseChat

LiveSpec == LiveInit /\ [][LiveNext]_liveVars

\* The router, the source and the loop are scheduled by the runtime; nothing makes
\* TDLib send or the user open and close chats.
LiveFairSpec ==
  /\ LiveSpec
  /\ WF_liveVars(RouterStep /\ UNCHANGED uiVars)
  /\ WF_liveVars(SourceTake \/ SourceSend)
  /\ WF_liveVars(LoopTake \/ LoopProject)

-----------------------------------------------------------------------------
\* Both tasks have read all there is and the loop has handled every signal: nothing
\* will change on screen until TDLib or the user does something.
AtRest ==
  /\ sourceSince # 0
  /\ ~Readable(Router) /\ hand = NoEvent
  /\ ~Readable(Source) /\ sourceHand = NoEvent
  /\ queue = << >> /\ todo = << >>

\* Every update the source could see made the loop read each pane its signal names
\* after it was sent, if need be through a gap.
NudgeReachesPanes ==
  AtRest =>
    \A n \in sourceSince .. Len(log) :
      LET signal == SignalOf(log[n]) IN
        \A i \in 1 .. Len(PanesOf(signal)) :
          LET pane == PanesOf(signal)[i] IN
            (pane = "conversation" => open /\ signal # "File") => stamp[pane] >= n

\* A connection update the source took reaches the status bar, in order: the bar
\* rests on the last one.
StatusFollowsSource ==
  AtRest => /\ \A n \in delivered : log[n] = "Connection" => n <= status
            /\ status # 0 => status \in delivered /\ log[status] = "Connection"

\* When nothing is left to do, panes and status bar have had what the feed gave, through
\* a full channel or a gap (spawn_core_source, the core arm of the loop); the state being
\* well typed.
RestIsCurrent ==
  /\ LiveTypeOK
  /\ NudgeReachesPanes
  /\ StatusFollowsSource

\* An update the list pane displays is read into it after it was sent, sooner or later.
ListSignalArrives ==
  \A n \in 1 .. MaxUpdates :
    (sourceSince # 0 /\ sourceSince <= n /\ n <= Len(log) /\ log[n] \in Displays("chats"))
      ~> (stamp["chats"] >= n)

=============================================================================
