---------------------------- MODULE OpenHistory ----------------------------
(***************************************************************************)
(* The run loop's side of a chat's history (HistoryState in lib.rs): the   *)
(* chat is opened and closed, its pages are asked for, and its messages    *)
(* acknowledged as read.  The loop is one event with what it leads to in   *)
(* drive_open_chat, then drive_read_state; the requests all run on tasks   *)
(* of their own, beside it and beside the router.  The other chats matter  *)
(* only as where the user goes meanwhile.                                  *)
(*                                                                         *)
(* The read mark is the server's: it comes with the chat, other clients of *)
(* the user move it too, and the store hears of it by updateChatReadInbox, *)
(* through the stream that brings, and may lose, every other update.       *)
(***************************************************************************)
EXTENDS MessageHistory

CONSTANTS
  MaxOpens,      \* bound: how often the user opens the chat
  MaxFailures    \* bound: how many requests TDLib fails

ASSUME OpenBoundsAssumption == MaxOpens \in Nat /\ MaxFailures \in Nat

VARIABLES
  pc,            \* where the loop is: at its select, or before drive_read_state
  open,          \* HistoryState, for this chat: open,
  firstPaged,    \*   first_paged,
  loading,       \*   loading,
  exhausted,     \*   exhausted
  readThrough,   \*   and read_through
  readAt,        \* the last incoming message TDLib knows read
  lastRead,      \* the chat's folded last_read_inbox_message_id
  calls,         \* calls[k]: spawned open and close requests not yet sent
  views,         \* spawned view_messages requests, by their newest id
  opens, failures, \* bound counters
  \* Ghosts.
  crossed,       \* the last open or close request was spawned before another had run
  refused,       \* and failed
  unheeded,      \* the view that read_through stands for failed
  markLost       \* the last updateChatReadInbox was lost

pagingVars == <<firstPaged, loading, exhausted>>
markVars == <<readAt, lastRead, markLost>>
readVars == <<readThrough, views, unheeded>>
callVars == <<calls, opens, crossed, refused>>
uiVars == <<pc, open, pagingVars, markVars, readVars, callVars, failures>>
allVars == <<vars, uiVars>>

Call == {"open", "close"}

OpenTypeOK ==
  /\ TypeOK
  /\ {open, firstPaged, loading, exhausted} \subseteq BOOLEAN
  /\ {crossed, refused, unheeded, markLost} \subseteq BOOLEAN
  /\ pc \in {"select", "read"}
  /\ {readAt, lastRead, readThrough} \subseteq 0 .. MaxId
  /\ calls \in [Call -> 0 .. MaxOpens]
  /\ views \subseteq Ids
  /\ opens \in 0 .. MaxOpens /\ failures \in 0 .. MaxFailures

\* The chat is known, with a read mark of an earlier session or another client.
OpenInit ==
  /\ Init
  /\ pc = "select"
  /\ open = FALSE /\ firstPaged = FALSE /\ loading = FALSE /\ exhausted = FALSE
  /\ readAt \in {0} \cup {i \in Ids : Exists(server[i])} /\ lastRead = readAt
  /\ readThrough = 0 /\ views = {}
  /\ calls = [k \in Call |-> 0]
  /\ crossed = FALSE /\ refused = FALSE /\ unheeded = FALSE /\ markLost = FALSE
  /\ opens = 0 /\ failures = 0

-----------------------------------------------------------------------------
\* TDLib, the router and the page task.

\* A read mark is on its way to the store.
MarkComes == \E k \in 1 .. Len(stream) : stream[k].kind = "read"

\* Whatever TDLib tells may cost the last mark on its way.
TdlibStep ==
  /\ TdlibSteps
  /\ markLost' = (markLost \/ (MarkComes /\ ~MarkComes'))
  /\ UNCHANGED <<readAt, lastRead>>
  /\ UNCHANGED <<pc, open, pagingVars, readVars, callVars, failures>>

\* The router folds an update; ChatStore takes the read mark as it comes.
RouterFolds ==
  /\ Fold
  /\ lastRead' = IF Head(stream).kind = "read" THEN Head(stream).id ELSE lastRead
  /\ UNCHANGED <<readAt, markLost>>
  /\ UNCHANGED <<pc, open, pagingVars, readVars, callVars, failures>>

PageStep == (PageAnswered \/ PageMerged) /\ UNCHANGED uiVars

Fail == failures < MaxFailures /\ failures' = failures + 1

\* A failed page is reported too.
PageFails ==
  /\ PageFailed
  /\ Fail
  /\ UNCHANGED <<pc, open, pagingVars, markVars, readVars, callVars>>

\* Mutant: a request that ran is left to run again.
RunCallAgain ==
  /\ \E k \in Call : calls[k] > 0 /\ SetOpen(k = "open")
  /\ refused' = FALSE
  /\ UNCHANGED <<pc, open, pagingVars, markVars, readVars, calls, opens, crossed, failures>>

\* A task of spawn_open_chat or spawn_close_chat gets to run, in no set order, and its
\* request is done or fails: either way nobody hears of it.
RunCall ==
  /\ \E k \in Call :
       /\ calls[k] > 0
       /\ calls' = [calls EXCEPT ![k] = @ - 1]
       /\ \/ SetOpen(k = "open") /\ refused' = FALSE /\ UNCHANGED failures
          \/ UNCHANGED vars /\ refused' = TRUE /\ Fail
  /\ UNCHANGED <<pc, open, pagingVars, markVars, readVars, opens, crossed>>

\* TDLib's read mark moves, and TDLib tells.
MarkMoves(i) ==
  /\ readAt' = i
  /\ SendMark(i)
  /\ markLost' = FALSE
  /\ unheeded' = (unheeded /\ i < readThrough)
  /\ UNCHANGED <<lastRead, readThrough>>

\* view_messages: TDLib moves the mark, if it is not past that already ...
ViewSucceeds ==
  /\ \E v \in views :
       /\ views' = views \ {v}
       /\ IF v > readAt THEN MarkMoves(v) ELSE UNCHANGED <<vars, markVars, readThrough, unheeded>>
  /\ UNCHANGED <<pc, open, pagingVars, callVars, failures>>

\* ... or it fails, and nobody hears of it.
ViewFails ==
  /\ \E v \in views :
       /\ views' = views \ {v}
       /\ unheeded' = (unheeded \/ (v = readThrough /\ v > readAt))
  /\ Fail
  /\ UNCHANGED readThrough
  /\ UNCHANGED <<vars, pc, open, pagingVars, markVars, callVars>>

\* The user reads the chat on another client.
ReadElsewhere ==
  /\ \E i \in Ids : i > readAt /\ server[i].state = "incoming" /\ MarkMoves(i)
  /\ UNCHANGED <<pc, open, pagingVars, views, callVars, failures>>

-----------------------------------------------------------------------------
\* drive_open_chat.

\* Mutant: the chat is opened again after every event.
CallsEachTurn(k, focused) == (k = "open" /\ focused) \/ (k = "close" /\ ~focused /\ open)

\* Mutant: the chat that is left is not closed.
CallsOpenOnly(k, focused) == k = "open" /\ focused /\ ~open

\* The chat that comes to be open, or no longer is, is opened or closed.
Calls(k, focused) == (k = "open" /\ focused /\ ~open) \/ (k = "close" /\ ~focused /\ open)

\* Mutant: older history is asked for again while it is being fetched.
MayPageAgain == ~exhausted

\* Not while a page is in flight, nor past the start of history.
MayPage == ~loading /\ ~exhausted

\* The open chat is now the focused one: TDLib is told of an opening or closing, and
\* the first opening in the session fetches the chat's newest page.
OpenChat(focused) ==
  LET landing == focused /\ ~open /\ ~firstPaged IN
    /\ open' = focused
    /\ calls' = [k \in Call |-> calls[k] + IF Calls(k, focused) THEN 1 ELSE 0]
    /\ crossed' = (\E k \in Call : calls[k] > 0)
    /\ refused' = FALSE
    /\ firstPaged' = (firstPaged \/ landing)
    /\ loading' = (loading \/ landing)
    /\ fetch' = IF landing THEN Spawned(NEWEST) ELSE fetch

\* A scroll-up at the top: the page before the oldest message known.
PageOlder ==
  /\ loading' = (loading \/ MayPage)
  /\ fetch' = IF MayPage THEN Spawned(Oldest) ELSE fetch

\* The loop's select takes an event.
Event ==
  /\ pc = "select" /\ pc' = "read"
  /\ UNCHANGED <<server, tdOpen, stream, store, ghosts, markVars, readVars, failures>>

\* The user opens the chat, or leaves it.
Focus ==
  /\ Event
  /\ open \/ opens < MaxOpens
  /\ opens' = IF open THEN opens ELSE opens + 1
  /\ OpenChat(~open)
  /\ UNCHANGED exhausted

\* The user scrolls up at the top of a history that shows something.
ScrollUp ==
  /\ Event
  /\ open /\ Known # {}
  /\ PageOlder
  /\ UNCHANGED <<open, firstPaged, exhausted, callVars>>

\* Mutant: only a page that succeeded ends the loading.
PageReportedIfEmpty ==
  /\ Event
  /\ PageTaken
  /\ loading' = (fetch.page = << >> /\ ~fetch.reachedStart)
  /\ exhausted' = (exhausted \/ fetch.reachedStart)
  /\ UNCHANGED <<open, firstPaged, callVars>>

\* The page task has reported.
PageReported ==
  /\ Event
  /\ PageTaken
  /\ loading' = FALSE
  /\ exhausted' = (exhausted \/ fetch.reachedStart)
  /\ UNCHANGED <<open, firstPaged, callVars>>

-----------------------------------------------------------------------------
\* drive_read_state.

\* Mutant: our own messages count as well.
UnreadWithOwn == {i \in Ids : store[i] # None /\ i > lastRead}

\* The loaded incoming messages past the read marker.
Unread == {i \in Ids : store[i].state = "incoming" /\ i > lastRead}

\* Mutant: the first message after the mark counts as acknowledged.
NewlyUnreadPastNext == Unread # {} /\ Max(Unread) > readThrough + 1

\* Their newest is past what was last acknowledged.
NewlyUnread == Unread # {} /\ Max(Unread) > readThrough

\* The open chat's unread messages are acknowledged, once per newest one.
Acknowledge ==
  /\ IF open /\ NewlyUnread
     THEN /\ readThrough' = Max(Unread)
          /\ views' = views \cup {Max(Unread)}
          /\ unheeded' = FALSE
     ELSE UNCHANGED readVars
  /\ pc' = "select"
  /\ UNCHANGED <<vars, open, pagingVars, markVars, callVars, failures>>

DriveReadState == pc = "read" /\ Acknowledge

\* A tick, or a signal that only makes the loop re-project: drive_open_chat has nothing
\* to do.
Tick == pc = "select" /\ Acknowledge

OpenNext ==
  \/ TdlibStep
  \/ RouterFolds
  \/ PageStep
  \/ PageFails
  \/ RunCall
  \/ ViewSucceeds
  \/ ViewFails
  \/ ReadElsewhere
  \/ Focus
  \/ ScrollUp
  \/ Tick
  \/ PageReported
  \/ DriveReadState

OpenSpec == OpenInit /\ [][OpenNext]_allVars

\* The router gets to run and TDLib answers a view; the loop's read drive follows its
\* event, and is what a tick leads to.  Nobody need write, nor the user open the chat.
OpenFairSpec ==
  /\ OpenSpec
  /\ WF_allVars(RouterFolds)
  /\ WF_allVars(ViewSucceeds \/ ViewFails)
  /\ WF_allVars(Acknowledge)

-----------------------------------------------------------------------------
\* A page is in flight exactly when the loop thinks so: it never waits for one that
\* will not come.
LoadingMarksFlight == loading = (fetch.stage # "idle")

\* Two pages are never in flight at once (lib.rs:796-800), the one of a first opening
\* and those of a user who scrolls up included.
OnePageAtATime == [][fetch'.stage = "spawned" /\ fetch' # fetch => fetch = Idle]_allVars

\* Pages continue where the last one ended: the loop stops paging only when all that
\* TDLib has is loaded or lost, and never with a stale page still to come.
ExhaustedHasAll ==
  (exhausted /\ Quiet) =>
    \A i \in Ids \ (raced \cup lost) : Exists(server[i]) => store[i] # None

\* What the loop acknowledges was somebody else's message, loaded while the chat was
\* open; its requests done, TDLib has read that far, unless the view of the newest one
\* failed (the horizon is moved before the call, lib.rs:843); and the chat's mark is
\* TDLib's, unless the update about it is on its way or was lost with no later one.
ReadMarksAgree ==
  /\ readThrough # 0 => server[readThrough].state \in {"incoming", "deleted"} /\ opens > 0
  /\ views = {} /\ ~unheeded => readThrough <= readAt
  /\ lastRead <= readAt
  /\ ~MarkComes /\ ~markLost => lastRead = readAt

\* Once the spawned calls have run TDLib has open what the user has open, which it must
\* "for the open chat's live updates to be trusted" (lib.rs:1971), unless one was
\* spawned while another had not run: the two may then run in either order; or the last
\* one failed, which nobody hears of until the user moves on.
TdlibTracksOpen ==
  (calls = [k \in Call |-> 0] /\ ~crossed /\ ~refused) => tdOpen = open

\* An open chat's unread messages come to be read, or the user leaves, or they are
\* deleted; unless the view of the newest fails ("a failed view simply leaves the chat
\* unread until a newer message (or a later open) re-triggers", lib.rs:820: a newer one
\* does), or the mark's update is lost, which leaves the loop with nothing to send.
UnreadSettles == (open /\ Unread # {}) ~> (Unread = {} \/ ~open \/ unheeded \/ markLost)

=============================================================================
