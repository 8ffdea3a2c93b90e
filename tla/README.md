# tuigram in TLA+

tuigram is a terminal client for Telegram. `tuigram-core` wraps TDLib: one thread
receives updates, a router folds them into an in-memory account state, and requests go
out as awaited calls. `tuigram` is the terminal program: one `tokio::select!` loop over
keys, timers and signals, and a crowd of spawned tasks that make the requests. The
whole design rests on one rule (docs/wiring.md): the answer of a request never feeds the
screen; what happened comes back as an update, is folded, and is read back from the
folded state. The modules here say what has to hold for that rule to work, check it with
TLC on small instances, and prove the core of it with TLAPS.

All paths below are relative to the repository; `core/` stands for
`crates/tuigram-core/src/`, `tui/` for `crates/tuigram/src/`.

## Inventory

| component | state | operations | hard part | correct when |
|---|---|---|---|---|
| update bridge, `core/bridge.rs` | a broadcast channel of 1024 updates, a cursor per subscriber | receive thread sends; subscribe; take the next event or a gap | a slow subscriber loses the oldest updates at any time | a gap is reported once, with its size, to the subscriber that has it |
| router, `core/router.rs` | the event in hand | take, classify, fold under the lock | folds race requests and readers | each update is folded once and in order, or recorded as missed |
| account state and facade, `core/client.rs` | all stores behind one mutex, `needs_resync`, `dropped_updates` | start, read, resync, merge_history | a resync awaits between its request and its mark | what is missing is marked as missing |
| chat store, `core/chats.rs` | chats by id, with positions, marks, pins; folders | eleven folds, ordered views, load_list | repeats, reorderings, losses; positions that arrive before or after the chat | the lists converge to TDLib's |
| message store, `core/messages/` | messages by chat and id | folds, merge of a history page | a page answered before a fold and merged after it; temporary ids | the history converges, without holes |
| user, file, action, secret chat, connection stores | a map each | last value wins | a lost update is not repeated | the last value folded is shown |
| live feed, `tui/event.rs` | its own subscription, a channel of 256 signals | classify, send with back-pressure | a second subscription, independent of the router's | each pane is read again after what it shows changed |
| run loop, `tui/lib.rs` | `HistoryState`, what was requested, the receivers of its tasks | one event, then about thirty drives in a fixed order | requests on tasks in no order; state remembered before the request succeeds | what the user sees is what is acted on |
| chat list view, `tui/chat_list.rs` | lists, active list, selected row | keys, project | the lists change under a cursor that is a row | the cursor designates the chat the user meant |
| app reducer, `tui/app.rs`, `tui/keymap.rs`, `tui/settingsform.rs` ... | focus, overlay, the view models, intents for the loop, the rows of the last frame | one action per key or click | overlays that hold a message or look it up again; a mouse answered from the last frame; one table of keys for all panes | an intent concerns what was on screen; a key means what its place says; settings read back as shown |
| composer, `tui/composer.rs`, `tui/textinput.rs`, `tui/wrap.rs` | text, cursor, goal column, mode with its target | edit, move by character, line and wrapped row, click, reply, submit | rows depend on a width that changes; positions in bytes, characters and columns; the target outlives a chat switch | the cursor goes where it was sent; a text goes where it was written |
| conversation view, `tui/conversation.rs` | messages, the row at the top of the pane, unread rule, badge | keys, clicks, jumps, project, set_downloads | the history and the heights of messages change under the place being read | the message read stays; the newest stays in sight for who follows it |
| media drives and sweep, `tui/lib.rs`, `tui/avatar.rs`, `core/files.rs` | what is downloaded, encoding, drawn; the files as TDLib told | drives after each event, reports of encoders, a sweep every half hour | each remembers what it asked for; sweeps delete under them | marks are exact; what is shown comes; what is kept is spared |
| search and contacts, `tui/search.rs`, `tui/contact_picker.rs` | query, results, row, a pending jump | submit, results, open a hit | answers carry no tag of their query; a hit may not be loaded | results belong to the query shown; a jump lands where it was meant |
| forward and secret chat prompts, `tui/forward.rs`, `tui/secret.rs` | the message or the decision held while open | open, confirm, cancel | the list moves and chats change state under the prompt | what is done is what was asked |
| notices, `tui/status.rs` | a queue of toasts that ages | push, tick, dismiss | several at once | each is shown for its time |
| login and bootstrap, `tui/login.rs`, `tui/bootstrap.rs`, `core/auth.rs` | the authorization state and a form | one request per screen; logout, close | a lag-skipping subscription; bounded waits | the screen follows TDLib; a logout is complete |
| session, credentials, settings, `core/session.rs` ... | files on disk, a key in the keyring | read at startup, create once; save one section | a death between two steps; two writers and a user of one file | no database loses its key; no section is lost |
| model conversions, sanitizer, rendering, command line | none | pure functions and output | none of the above | unit tests suffice |

How they interact: TDLib -> receive thread -> channel -> (router -> stores) and
(source -> signals -> loop -> panes); keys -> loop -> App -> intents -> drives -> tasks ->
requests -> TDLib; pages of history are the one answer that goes into a store directly,
by `Client::merge_history`, and report back to the loop over a channel of their own.

## Modules

```
Feed                      the broadcast channel and its subscribers
  CoreSession             router, lag mark, resync        --implements--> UpdateJournal
    LivePanes             source, signals, loop, panes (same feed, same router)
      LivePanesProofs     theorems about both
ChatList                  chat store, list loads, resync
  ChatListProofs          theorems
MessageHistory            message store, page task, TDLib's messages
  OpenHistory             the loop's side: open chat, paging, read state
    HistoryProofs         theorems about both
Cockpit                   chat list view, focus, overlays, composer, drives
TextLayout                word wrap and the geometry of wrapped rows
  ComposerText            the composer's text, cursor and scrolled pane
    ComposerProofs        theorems about ComposerText and Cockpit
HistoryLayout             a message's height in rows, as counted and as drawn
  Conversation            the conversation view and the reaction picker
    ConversationProofs    theorems about both
Keymap                    the bindings, and what a key asks for
Forms                     the fields, pickers and lists the overlays edit
  Reducer                 App as a turn of the loop: event, action, drives, frame
Transfers                 downloads, avatars, pictures, saves, sweep, file store
  TurnProofs              theorems about Reducer and Transfers
Finder                    searches, jump, forward, secret chats, toasts
  FinderProofs            theorems
Startup, SettingsFile     credentials, key, parameters; the settings file
  Lifecycle               both, with login, run, logout, exit and death
    LifecycleProofs       theorems
MC<module>                the instances for TLC
```

**Feed** keeps every update sent in `log` (an update is its kind; its number is its
place) and a `cursor` per subscriber. `Receive` is `spawn_receive_loop`'s send,
`Subscribe` is `router_events()`, `NextEvent`/`Advance` are `RouterStream::poll_next`:
the next update, or the gap up to the oldest update still retained.

**CoreSession** adds the router's task (`RouterTake` awaits, `RouterFold` and `RouterLag`
run under the lock), `AccountState`'s `needs_resync` and `dropped_updates`, and the tasks
that run `Client::resync` (`ResyncCall`, then an answer or an error, then `ResyncMark`).
The folded account is the set `folded` of update numbers: what an update does is the
subject of ChatList and MessageHistory. Ghosts (`since`, `missed`, `exposed`,
`answeredAt`, `raced`) restrict nothing; they name what properties speak of.

**UpdateJournal** is the promise without the machinery: from its opening on, the session
settles the updates one by one in the order sent, and a run of them may be lost only in a
step that marks the account stale. `CoreSession!Journal` is the refinement mapping: an
update is settled when it has left the router's hand.

**LivePanes** puts the second subscription on the same feed. `SourceTake`/`SourceSend` are
the loop in `spawn_core_source`; the send waits for room, and reads nothing meanwhile.
`SignalOf` is `classify_update`, `PanesOf` is what each arm of the loop's core branch
re-projects, in its order; each pane is read under the lock for itself (`LoopProject`), so
the router may fold between two of them. A pane shows the set of folded updates of the
kinds it displays at its last reading; `stamp` is when that was.

**ChatList** has TDLib's own chats (`truth`), the lossy stream, and the store. Every fold of
`ChatStore::reduce` is an operator; `upsert` keeps positions and drops pins as the code
does. `load_list` is `StartLoad`, `LoadPage`, `LoadExhausted`, `LoadFailed`, once per list and
for every resync. Titles, drafts, last messages and read marks are one value per mark.

**MessageHistory** has TDLib's messages, the stream, `MessageStore`, and the task that fetches
one page: spawned, answered by TDLib, merged, reported. Between answer and merge the
router may fold. Ids grow; a sent message gets a new id; content and reactions are one
version. While TDLib takes the chat for closed a change may come without an update, as
store.rs:180-184 says.

**OpenHistory** adds the loop: an event with what `drive_open_chat` makes of it, then
`DriveReadState`, with one variable per field of `HistoryState` for one chat. openChat, closeChat
and viewMessages are tasks that run in no set order; each of them, and a page, may fail, up to
`MaxFailures`. The read mark is the server's (`readAt`): it comes with the chat, our views and
the user's other clients move it, and the store's copy (`lastRead`) follows by
updateChatReadInbox, in the same lossy stream as every other update. Four ghosts name what
the code never learns: `crossed` and `refused` (the last openChat or closeChat met another, or
failed), `unheeded` (the view `read_through` stands for failed), `markLost`.

**Cockpit** has the lists as stored and as shown, the active list, the cursor's row, focus,
collapse, composer, overlay, intent, and the loop's turn. A message is its chat. The
ghost field `meant` of an intent is the chat on screen when the user chose.

**TextLayout** is wrap.rs: runs of words and spaces placed greedily on rows (`Placed`,
`HardBreakWord`), the rows as spans of bytes (`LayoutRows`), and the ways between a position,
its row and its column. A character is one of five classes by bytes, columns and whether it
separates words. **ComposerText** is the text, the cursor (a character index), `goal_col` and
the width of the pane last drawn: insert, backspace, the moves, clicks, submit, cancel, the text
an edit brings, and a resize. The ghost `run` is the column a run of vertical moves began in.
Reply and edit modes and what is sent are in Cockpit.

**HistoryLayout** says how many rows a message takes: the view's own count
(`message_height`) and, line by line between messages, the renderer's. A text is short or
long, a photo has its box while it is not loaded, a line of progress while it is, and its
rows once it is there and the terminal draws pictures.

**Conversation** is `ConversationView`: messages, `off` and `skip` for the row at the top,
the measured pane, the badge and the rule. `Refreshed` is `project` in its order (following
or holding by id, the badge, the rule, the clamp), `SetDownloads` what follows it, and
`Reproject` the reading of the loop that does both and lands a pending jump. Beside it the
account changes: arrivals, pages, deletions, edits, reactions, files, read marks; the loop
folds them when it likes. Ghosts: `openedAt` (the read mark when the chat was opened) and
`seen` (the newest message the reader has had at the newest position).

**Transfers** is the loop's turn over media: an arm (a tick, a key, a report), then
`drive_downloads`, `drive_avatars`, `drive_inline_media` and `drive_save` (`Turn`), with
`drive_settings`, `drive_graphics_setting` and `drive_storage_sweep` as the events that
change what they read. TDLib has the files (`local`), refuses or starts a download, and
tells its progress over a stream that loses the oldest; `Folded` is the file store.
Encoders are jobs that read the file when they run; an image that no decoder takes
(`Undecodable`) fails each time, and is tried at every turn. A pass asks for a file once for each
message that refers to it. `calls` are download requests under way; the ghosts `asked`
(the passes that asked), `unlucky` and `lost` name a file's fate.

**Finder** has the two pickers (`SearchState`, `ContactPicker`), a task per request whose
answer comes any time, or an error, or never; the pane with its pending jump; the forward
and secret chat prompts; the toasts. TDLib's answer to a query is a constant. Ghosts:
`crossed` (a picker asked while an earlier search was under way), `pane.target` (the hit
the user opened last), `shownFor`, `dismissed`.

**Keymap** is the table of bindings (a trigger is the set of keys it matches), the contexts and
the short tables of the overlays; `ActionOf` is `resolve` as one function. **Forms** has the
settings draft with the parsers and the display of core/settings.rs (a value typed is a word, or a
count and a unit), the attachment prompt, the reaction picker, and the rows a modal list draws.
**Reducer** extends both. A step is a whole turn of the loop in lib.rs: an event becomes an action,
`dispatch` applies it, the drives take the intents it left (`handed`), and the frame is drawn if it
is dirty. `frame` is what that draw showed; a click is an action on its rows, not on the state's.
`Reanchor` is the one thing that happens after a draw: a pane measured anew may select another
message and ask for a frame. What a projection does to the pane may be anything here.

**Startup** goes step by step from the command line to a client: the credentials file, the
keyring if it can be reached, else the key file, created empty and then written; then the
parameters. **SettingsFile** is one file with two sections: `StorageSettings` and
`InterfaceSettings` each rewrite it whole, by open-and-truncate and then write; the user
edits it beside them, well or with a typo. **Lifecycle** extends both with TDLib's
authorization states, the login screens over the lag-skipping subscription (`Skips`), their
requests and answers, the run, `log_out_and_wait`, `close_and_wait` with their bounded
polls, and `Dies` anywhere. `behind` is a ghost: the skipped updates held the last state.

## Runs

Twelve runs, none of which finds anything. Times are for two workers. Each property has been seen
to fail on a mutant of a definition that models code, and where it is a conjunction of named parts,
mostly each part on a mutant of its own.

| run | shows | size |
|---|---|---|
| `CoreSession` | Each update owed is in one place (`Accounted`) and ends folded or counted (`EveryUpdateSettles`); the mark goes only with an answer (`MarkClearedOnlyByAnswer`) and a missing update is unmarked only if a gap was recorded between a resync's answer and its mark (`StaleUnmarkedOnlyByRace`); UpdateJournal is implemented (`JournalKept`). | 0.1 M states, 20 s |
| `LivePanes` | Full channel, blocked source, overrun subscription. `RestIsCurrent`: at rest each pane was read after the update (`NudgeReachesPanes`) and the status bar rests on the last connection update its feed gave (`StatusFollowsSource`). `ListSignalArrives`. | 0.6 M, 1 min |
| `ChatList` | `StoreAgrees`: without loss the store has TDLib's chats and order, ties included (`Converges`), and a resync that loses nothing makes good what it emits, whatever was lost before (`ResyncCovers`). `ReplayIsNoop`; `LoadsEnd`. | 1 M, 3 min |
| `OpenHistory_paging` | `ExhaustedHasAll`: paging stops only when all is there. `ReadMarksAgree`: the loop's horizon, TDLib's read mark and the chat's copy of it agree when nothing is under way, but for a view that failed and a mark that was lost; what is acknowledged was loaded in an open chat. `LoadingMarksFlight`. `StoreFollows` with a hole and an accepted send. | 12.7 M, 3 min |
| `OpenHistory_settles` | Two openings and a request that fails: `TdlibTracksOpen` unless two calls crossed or the last one failed, `OnePageAtATime`, `UnreadSettles` under fairness unless the view failed or the mark was lost; `StoreFollows` over edits: states and completeness of the history, its three exceptions spelled out. | 1.4 M, 2 min |
| `Cockpit` | `PaneIsOpenChat`: the cursor is on a row, the pane and TDLib's open chat are the chat under it. `SentAsShown`: what is sent concerns the chat the user saw. `StaysInList`. | 4.7 M, 2 min |
| `ComposerText` | `WrapIsGreedy`: the rows are the text, fit the width, and no break comes early. `CursorFollowsRows`: a vertical move or a click arrives on its row, in its column, in sight; a run of vertical moves keeps its column. | 65 K, 45 s |
| `Lifecycle` | `FilesKept`: no death and no unreachable keyring orphans a database (`KeyKept`), a save keeps the other section (`SettingsKept`). `ScreenFollows`: the login screen is TDLib's state, and no text or error gets to another screen. `CleanExitIsWhole`: what a shutdown that was not given up leaves behind. `WaitsEnd`: login and exit end. | 0.4 M, 1.5 min |
| `Conversation` | `PlaceHeld`: the place being read (`SelectionHeld`), or the newest message (`TailHeld`), survives what is loaded, arrives, goes or changes height. `RowsAgree`: rows counted are rows drawn, and a key moves by one. `UnreadIsTold`: rule and badge. | 0.7 M, 1.5 min |
| `Transfers` | `MarksMeanWork`: an encoding is marked while there is one, no file is asked for in two passes. `SweepSparesKept`: a sweep by age covers nothing kept forever; `ShownComes`: files and decodable pictures of the open chat come, beside an avatar that never does. | 0.35 M, 2.5 min |
| `Finder` | `HitsAnswerQuery` unless two searches overlapped; `HitLands`: a hit opened is selected when loaded, and no other view moves; `SecretAsAsked`; `ShownInFull`: each toast for its time. | 3.5 M, 2 min |
| `Reducer` | `ActsOnScreen`: no visible change goes undrawn (`FrameIsFresh`), and what the drives are handed is what the last frame showed (`WasDrawn`). `KeysKeepTheirPlace`: the keymap is sound (`KeymapIsSound`), Esc leads to the panes, a draft is safe under an overlay. `SettingsAgree`: shown settings read back as themselves (`DisplaysParse`), and form, App and sweep go by the same ones. | 2.5 M, 2.5 min |

### Bounds, and why they are enough

- *Capacity* 1 to 3 stands for 1024, with enough updates to overrun it (`MaxUpdates` 3 to
  5, `MaxChanges`). What matters is the relation of a cursor to the oldest update kept:
  behind, at it, or ahead; all of them occur. In `LivePanes` a feed of one slot and a channel
  of two signals with three updates have two signals queued and one waiting in hand, or one
  lost; two kinds stand for twelve: one whose update every pane shows, and the status bar's.
- *Resyncs* 2: they can overlap, one can fail while the other succeeds, and a gap can
  fall between answer and mark of either. `MaxDropped` 2 (1 in LivePanes) stands for u64::MAX; the counter saturates.
- *Chats* 2 in one list, whose order may tie, with a mark and a pin: a fold touches one chat
  only, and a tie takes two. One change (`MaxChanges`) beside what loads and resyncs emit.
- *Messages* 1 or 2: one older than the session and one new, or a pending one and the
  sent one that replaces it; pages of 1 or 2, so that a page can be short, full or empty.
- *Openings* 2, *failures* 1: leave and come back with tasks of the first visit still to
  run; any one request fails, an openChat, a closeChat, a view or a page. In the stream of one
  update any two that meet lose the first, the read mark among them; the mark begins at any message.
- *Cockpit*: two chats, two lists and up to two folders that come and go, three changes of
  the stored lists: enough to shorten, reorder or remove the active list under the cursor.
- *ComposerText*: every text of up to four characters of five classes (one, two or three bytes
  wide, none, one or two columns), an eight-character text of two lines to delete from, panes of
  one to four columns and two rows for `MAX_COMPOSER_ROWS` of five: words that fit, that move to
  the next row and that are cut, and rows that scroll. A wrap decides with one word in hand.
- *Lifecycle*: two starts, so that the second meets whatever the first left; a channel of two
  updates, overrun by updates that are no authorization state; one poll of the waits.
- *Conversation*: two messages and one to come, of two rows or five with media and quote, in a
  pane of five: a message can be longer than the pane, and the newest anchored amid another one.
  Two changes: one moves what the other is measured against.
- *Transfers*: a photo in a channel, a voice note in a private chat and a forward of it, so that two
  messages loaded share a file; one sender, whose avatar cannot be decoded; one failure and one
  choice of the user or one sweep; categories kept and expiring.
- *Finder*: two requests overlap; a chat listed and one in the archive only, so that a jump can
  need an opening; lifetimes of 1 and 2 ticks for 5 and 12, two toasts.
- *Reducer*: two chats, one a person's; our own text and a photo that quotes it, so that every
  command of the history has a message it is for and one it refuses; a palette of three in a list of
  two rows, and three hits, one in a chat not listed, so that lists scroll. A line of text is empty,
  spaces or more; kilobytes of four bytes with limits up to 300 have every unit, exact and not, and
  overflow; one spelling to be refused and two to be taken, beside those displayed.

Deadlock is checked everywhere but in Reducer, where a program that has quit stops, and in the ChatList run, where a finite number of
changes, loads all done and an empty stream are a legitimate end. Elsewhere a run that is
at its bounds still has steps of the user or of a resync to take.

### Fairness

Only what the runtime gives: the router's task, the source's task, the loop and every
spawned task whose request was answered get to run (weak fairness); TDLib answers each
request, well or with an error. In OpenHistory the router (`RouterFolds`), the answer to a view and
`drive_read_state`, which follows each event and which a tick leads to (`Acknowledge`), are fair,
and no more is needed: a page may never come. Nothing makes TDLib send an update, or the user
press a key.

In Lifecycle the process's own steps and the answers it awaits are fair, and the update arm
of the login's `select!` strongly so; nothing makes TDLib finish a logout or a close, which is
why the bounded polls are what `WaitsEnd` rests on. In Transfers the router, the tick, the
answers and transfers, and the encoder of each picture with its report are; nothing makes the user
stay in a chat. Cockpit, ComposerText, Conversation, Finder and Reducer promise nothing that needs fairness.

## Theorems

`LivePanesProofs` proves of CoreSession, for every capacity, number of updates, set of resync tasks
and saturation point, from the assumptions on the constants alone:

- `TypeCorrect`, `AccountedHolds`, `StaleUnmarkedOnlyByRaceHolds`: `Spec => []...`
- `DroppedCountsMissedHolds`: the counter is the cardinality of what was missed
- `MarkClearedOnlyByAnswerHolds`: the action property
- `JournalKeptHolds`: `CoreSession` implements `UpdateJournal`

The argument. `Accounted` is not inductive: it says that folded, missed and in-hand
updates make up an interval, but not where the update in hand lies in it. `IInv` is
`TypeOK` and three parts. `HandInv` ties the cursor to the event in hand (the cursor is just
past it). `SettledInv` says the settled updates are exactly the interval from `since` to
`SettledUpTo`. With both, taking, folding and recording each move one boundary of adjacent
intervals (`RouterTakeInv`, `RouterFoldInv`, `RouterLagInv`), and `Accounted` follows
(`InvImpliesAccounted`). `RaceInv` says that as long as no gap fell between an answer and its
mark, each answered resync covers all gaps still exposed: this is why clearing the
mark is right then, and why the race is the only exception. `Inductive` puts the actions
together. The counter needs the finiteness of `missed`, proved on top of `IInv` with the
cardinality of a union of disjoint sets (`LagCount`). `JournalStep` maps each step: folding is
Apply, recording a gap is Lose, a mark is Recover, starting is Open, the rest stutter.

Of LivePanes it proves on top of that, for every capacity, channel depth and kinds of update:

- `RestIsCurrentHolds`: `LiveSpec => []RestIsCurrent`, with its parts `NudgeReachesPanes` and
  `StatusFollowsSource` (`LiveInductive`)

The core's `IInv` is kept by every step, the source's subscription being another cursor
(`SourceFrame`, `CoreStepInv`). Over it, `NudgeInv`: for each pane and each update the source has
delivered that the pane displays, a signal that names the pane is in the source's hand, in the
queue or being worked off, or the pane was read after that update was sent. A signal taken moves
its panes to `todo` (`PanesForReads`), a pane read leaves it with a new `stamp`. `StatusInv` keeps
the connection signals of the queue in the order of the feed, so that the last one taken is
what the status bar shows.

`ChatListProofs` proves, for any finite set of chats, any lists, marks and messages, and every
capacity, order and number of changes:

- `StoreAgreesHolds`: `Spec => []StoreAgrees`
- `ReplayIsNoopHolds`: the action property

A chat is read field by field: its order in a list, a mark, whether a message is pinned. `Comes(c,
f, v)` says what the store will have of a field once the stream is folded: what the last update
that writes the field says, or, if none does, what the store has, provided the store or an update
before it knows the chat. The invariant says that this is TDLib's value: of every announced chat
while nothing was lost (`WholeInv`), and of the chats a resync emitted while nothing was lost since
it began (`ResyncInv`); of the pins only that none comes that TDLib has not, for a repeated
announcement drops them. `StoreAgrees` itself is not inductive, because it speaks of an empty stream
only. A change of TDLib's is one field and one update that says it (`MoveTells`, `MarkTells`,
`PinTells`); a fold changes no field that comes (`TakeArrives`); a lost head matters only where
loss is allowed for. That the list shows each chat once and in TDLib's order rests on the order's
being total: its permutation is built from the rank of each chat (`SortedExists`).

`HistoryProofs` proves of MessageHistory, for every number of messages and versions, page size and
buffer, and whoever opens the chat and asks for pages:

- `HistoryTypeCorrect`: `Spec => []TypeOK`
- `HistoryInductive`: with it `Provenance`, that a message which is incoming in the store, in
  an update under way or in a page is, in TDLib, incoming or deleted since
- `HistoryFollows`: `Spec => []StoreFollows`

`Provenance` is what a page answered before an update and merged after it cannot break:
TDLib never turns a message of ours into somebody else's (`TheirsKept`, one lemma per
action), an update or a page copies TDLib's state of the moment (`TdlibInv`,
`PageAnsweredInv`), and a fold or a merge only moves what was copied (`ReduceFacts`,
`PageMergedInv`).

`StoreFollows` needs `Follows`: for some number n of messages older than the session, `FollowInv(n)`.
Its parts are about what is on its way. `ComesInv`: the last update that writes the state (or the
version) of a message gives TDLib's, or else the store, with the page in flight merged over it,
has it; but for messages a lost update or an overtaken page put in doubt. `SessionInv`: a message
of the session is in the store or announced in the stream. `CoverInv` and `PageHolds`: the
older ones have no hole above the oldest known, nor above the anchor of the page in flight, and the
page answered has none, so that merging it leaves none, and one that reached the start makes the
history whole. A send, a change or a deletion appends the update that gives TDLib's new state
(`SendComes`); a fold moves it into the store (`FoldFollows`); the merge puts in doubt exactly what was
touched since the answer (`PageMergedFollows`).

Of OpenHistory it proves on top of these lemmas, for any number of openings and failures:

- `OpenTypeCorrect`, `LoadingMarksFlightHolds`, `ReadMarksAgreeHolds`,
  `TdlibTracksOpenHolds`, `OpenFollows`, `ExhaustedHasAllHolds`: `OpenSpec => []...`
- `OnePageAtATimeHolds`: the action property

The inductive invariant has these parts beside types, `Provenance` and `Follows`. `PageInv` adds
that an open or loading chat has had its first page asked for: without it the landing page, which
the code asks for without looking at `loading`, could meet another one. `CountInv` bounds the
spawned calls by the openings. `CallInv` says that without crossing at most one call is pending and
leads to the loop's state, whether the one before it ran or failed. `ReadInv` and `MarkInv`
strengthen `ReadMarksAgree` by what is on its way: the view of the loop's horizon is spawned, or
TDLib has read that far, or it failed; no mark in the stream is past TDLib's, and the last one is
TDLib's, so that folding it makes the store's mark TDLib's (`MarkFolded`), and losing it is noticed
(`MarkMoved`). That what is acknowledged is somebody else's needs `Provenance`. `EndInv` says that
paging is taken for exhausted only when a merged page has reached the start. `Max` and `Min` over
sets of ids, which the code takes over vectors, are shown to exist from the library's
well-foundedness of `<`.

`LifecycleProofs` proves, for any number of starts, any policies, capacity of the login's channel and
number of polls:

- `FilesKeptHolds`, `ScreenFollowsHolds`, `CleanExitIsWholeHolds`: `Spec => ...`

The invariant is cut along what it is about. `KeyInv`: a start makes at most one key, which is
stored before it is offered, so the key of the database is in the store that was reachable when the
database was made. `SettingsInv`: in the run the file says what is applied, or the write under way
does, unless somebody else had a hand in it; the action property then needs no more than the section
a save carries over. `QueueInv`: the last authorization state in the channel is TDLib's; the login
loop has it, has it to read, or skipped it. `ScreenFollows` alone is not inductive, as it says
nothing of a queue with updates to read. `FormInv`: what is typed and the error shown belong to
the screen. `EndInv`: an account half logged out is TDLib's work, or somebody died or gave up.

`ConversationProofs` proves, for a history of any length, messages of any height, any set of pane
sizes and any number of changes:

- `UnreadIsToldHolds`, `RowsAgreeHolds`: `Spec => []...`
- `PlaceHeldHolds`: the action property

The rows are the difficulty. The total of the heights below an index and the walk from the newest
message upwards are recursive functions in the model. That such a function exists, and what it
gives, is shown for each of its arguments by a least counterexample (`SumsExist`, `WalkExists`,
`IteratesExist`), with no induction theorem. From them: totals grow with the index and agree where
the heights do (`TotalsGrow`, `TotalsAgree`), and the anchor leaves a pane of rows below it, or is
the top of a history that has fewer (`AnchorFacts`, `AnchorPlace`). A step of the view is then a
number of rows (`DownFacts`, `UpFacts`); a page of them is a page's worth of steps (`PagedDownFacts`,
`PagedUpFacts`), and a projection keeps the message by its id, not its place (`HeldFacts`).
`RowsAgree` needs of the invariant only that the cursor is on a row that exists; `PlaceHeld` that
the history is in order of ids, with each once; the badge that the marks of what was seen are
those of the last frame. `UnreadIsTold` is inductive with the types and with the
read mark of the opening being no newer than the account's (`IInv`).

`FinderProofs` proves, for any finite set of people and messages, any chats (told apart from
people, as TDLib's ids are), queries, number of requests and of toasts:

- `HitLandsHolds`, `SecretAsAskedHolds`, `HitsAnswerQueryHolds`: `Spec => []...`
- `ShownInFullHolds`: the action property

The invariant is cut along the variables, so that a step is looked at once for each part it
disturbs. The pane: a jump that is pending is to `pane.target`, and a target in the pane of its
own open chat is in sight. The pickers: a row of the answer shown. The tasks: a request under way
is for something that can be asked. The overlays: a prompt is *proper* to what it was opened for,
the forward overlay over hits included, which goes back to them. The answers: those shown under a
query are that query's, as long as no search crossed another. The toasts: the front one has been
shown for exactly what its lifetime has lost, and those behind it have theirs whole.

`ComposerProofs` proves of Cockpit, for any finite set of chats and any number of changes of the lists:

- `PaneIsOpenChatHolds`, `SentAsShownHolds`: `Spec => []...`
- `StaysInListHolds`: the action property

What `SentAsShown` rests on is no conjunct of it: an intent exists only while the cursor is where
it was when the user gave it, because the loop drains it in the drives of the same turn
(`LoopInv`: at the select, or with an intent, the open chat is the chat under the cursor).
`PaneIsOpenChat` needs the lists too: that no list holds a chat twice, through bumps, removals and
folders (`WithoutFacts`, `OnTopFacts`), and that every move and every projection leaves the cursor
on a row (`MovesFacts`, `ProjectFacts`).

Of ComposerText it proves, for texts of any length, any widths of the pane and any
characters of the five classes that can be typed:

- `ComposerInvariance`: `TextSpec => []TextInv`
- `WrapIsGreedyHolds`, `CursorFollowsRowsHolds`: `TextSpec => []...`

The wrap counts bytes and columns, the cursor characters. `CharOf` and `PartFacts` turn a
byte into the character it begins, so that everything is about a text's indices. The wrap itself is
cut as the code is: `Opened` holds of the row being filled after each run (`PlacedOpened`), and of
each piece of a word longer than a row (`BehindOpened`, `HardOpened`); hence the breaks of a line
(`LineWrapped`), which mean the same in the whole text (`LineShift`, `DueShift`), and the rows of the
text, one after another with nothing between them but a line's end (`TextLaid`). As in
ConversationProofs, a recursive function exists and gives what it should by a least counterexample
(`SumsExist`, `WrapsExist`, `LaysExist`). That is `WrapIsGreedy`. The rows being in order, a position is
on exactly one of them (`RowOfFacts`), and a move to a column lands on the row it is for, no further
right than that column (`LandingFacts`). `CursorFollowsRows` needs beside the types `Steered`: a goal
column exists exactly during a run of vertical moves and, unless the pane was resized under the
run, is the column it began in, and the cursor is where that column leads on its row.

`TurnProofs` proves of Reducer, for any chats, messages, hits and people, and any spellings and
limits of the settings:

- `ActsOnScreenHolds`, `KeysKeepTheirPlaceHolds`, `SettingsAgreeHolds`: `AppSpec => ...`

`Steps` sorts the actions of a turn by what they leave the drives: something about the screen, about
the settings, or neither. That a click or a key acts on what was drawn needs the frame to be App's
own (`FrameIsFresh`, but for a selection anchored anew after the draw), each form to be one of its
overlay's (`FormInv`: the selected row exists, only a message of ours is deleted for everyone, a
refused line does not parse), and a list to draw the row selected (`ListDrawn`), whatever the window
the scrolling has left. `SettingsAgree` says something of numbers: a limit displayed in the largest
unit that divides it evenly reads back as itself. `CapParses` shows it unit by unit, the quotient
being unique (`Evenly`); with it, what is accepted of a form is what its lines say
(`ConfirmedFacts`), and a form nobody edited sets nothing. That the keymap is sound is a matter of
its tables: `Bound` says where each part of the bindings lies, and for each row a key is given that
no row before it takes (`EachReached`). What is then asked for with an overlay open is the overlay's
alone (`OverlaysTakeKeys`), so that no action of the panes can happen (`PanesOnly`); and a pane
without width is not in focus (`PlaceInv`), as clicks go by a frame that is App's own. The constants
are assumed to be what their comments say: ids above 0, a quote of a known message or none, and
rows, hits and people in sequences.

Of Transfers it proves, for any finite set of people and messages, any files, policies and capacity
of the feed, and any number of failures:

- `MarksMeanWorkHolds`, `StoreFollowsHolds`, `SweepSparesKeptHolds`: `Spec => []...`

`AskedInv` says a file was asked for, in one pass, exactly if it is remembered, however many
messages of that pass refer to it; `JobInv` that the encodings under way or reported are those
marked, one to a key. A turn takes reports, unmarks them and marks what it starts, of which nothing
is marked yet, and of one chat, whose ids differ (`TurnInv`); the count of `MarksMeanWork` is then a
bijection from encodings to keys (`JobCount`). `StoreFollows`, that the store has TDLib's state of a
file or has never heard of it, is proved and in no run: `StoreInv` adds what is on its way: the last
update of a file in the feed has its present state, so that folding the last one, or losing it (then
the file is in `lost`), keeps it.

Every safety property the runs check is a theorem. Only model-checked are, as TLAPS has no way to
them, all properties under fairness (`EveryUpdateSettles`, `ListSignalArrives`, `LoadsEnd`,
`UnreadSettles`, `WaitsEnd`, `ShownComes`). The counter (`DroppedCountsMissed`) of CoreSession and
the types of CoreSession, MessageHistory and OpenHistory are proved, and in no run; the types of the
other modules are checked as a conjunct of one of their invariants, and those of ChatList,
LivePanes, Conversation, ComposerText, Finder, Cockpit, Transfers and Lifecycle proved with it.

## Where the code and its words disagree

Met on the way, and exhibited by the models although no run is spent on them. Of the feed
and the stores:

- **A failed acknowledgement is not made good by a later opening.** lib.rs:819-821 promises "(or a
  later open) re-triggers"; `read_through` is advanced before the call (lib.rs:843), and only a newer
  message passes it: the exception `unheeded` in `ReadMarksAgree` and `UnreadSettles`.
- A lost updateChatReadInbox leaves the chat unread, here, although it is read: TDLib sends it once,
  and `read_through` (lib.rs:840-843) lets nothing be sent that would bring another, until a newer
  message comes; lib.rs:812-815 has the fold clear the badge. The exception `markLost`.
- An openChat that fails is not tried again while the chat stays open, although it "must run for the
  open chat's live updates to be trusted" (lib.rs:1970-1971); a closeChat that fails leaves the chat
  open not "a little longer" (lib.rs:1980-1982) but until it is left another time, if ever. The
  exception `refused` in `TdlibTracksOpen`.
- **A pane may stay stale with nothing left to do.** event.rs:97-99 and wiring.md:80-82 hold
  that the UI's signal is safe because the router folds on its own subscription. The two are not
  ordered: the source can signal, and the loop read the state, before the router has folded the
  update. Nothing signals the fold, so the pane shows the state before it until the next signal.
- A gap recorded between a resync's answer and its mark leaves `needs_resync` false with
  updates missing (client.rs:370-377; the exception in `StaleUnmarkedOnlyByRace`), and nothing
  in the app reads the flag, against client.rs:202-203 "which the app triggers on seeing
  needs_resync": a resync follows only a key (lib.rs:1701).
- Updates between the login and `Client::start` are folded by nobody (login.rs:473-474 says the
  router folds them).
- A pin is signalled as `Chats`, which leaves the conversation pane alone (event.rs:121); a
  connection update lost to a gap of the UI's feed is never shown (lib.rs:569, wiring.md:99).
- A repeated updateNewChat forgets the pinned messages (chats.rs:339 and model/chat.rs:290;
  chats.rs:12-14 claims convergence): the exception in `Converges`.
- A chat whose removal from the list was lost in a gap stays on it after a resync
  (client.rs:355-356): `ResyncCovers` speaks of emitted chats only.
- A chat opened again is not paged again (lib.rs:787; store.rs:180-184 relies on it), nor is
  a hole left by a gap (lib.rs:801; client.rs:353-355): the exceptions in `StoreFollows`.
- openChat, closeChat and the landing page are tasks in no order (lib.rs:777-779): the
  exception in `TdlibTracksOpen`. A landing page that fails on an empty chat is not retried
  (app.rs:1620, lib.rs:1934-1935).

Of the cockpit and the view:

- **The chat under a composer can change.** `project` keeps the cursor's row. When a new
  message floats another chat to the top, the row holds another chat, which becomes the open one
  while the user types; a text sent then goes there. lib.rs:741-743 says the chat is kept open
  while composing.
- **A click in a scrolled composer lands rows above.** `on_click` counts the row from the pane's
  first line (app.rs:1444) and takes it for a row of the whole text, while a text of more than
  `MAX_COMPOSER_ROWS` rows is drawn scrolled. app.rs:1422-1423 says "A hit in the composer places the
  cursor at the clicked visual row/column". `ClickLandsWhereSeen` in ComposerText states it and
  fails; `CursorFollowsRows` has the clicks of a text that fits.
- Shift-Enter matches the newline and the submission, Alt-Shift-Enter both newlines, against
  keymap.rs:175-177, "no key matches two bindings applicable under the same focus": the first one is
  meant, so the order of the table matters.
- After a draw that re-anchors the selection (app.rs:1096) the frame waits for the next event: a key
  pressed then acts on a message not yet shown as selected, the exception `dirty` in `Shown`.
- **A reaction goes to another message than the one chosen** (`ReactsToChosen` in Conversation).
  The picker is opened "on the selected history message" (app.rs:264); `confirm_reaction`
  (app.rs:1207) looks the selection up again. A reader at the newest message follows a new one
  while the picker is open, and the reaction goes to it.
- A reply's target outlives a change of the open chat (composer.rs:244; requests.rs:60-61), and
  the forward picker starts where the chat list's cursor is (app.rs:1160; forward.rs:50-51).
- The tail is lost when a download changes the heights: `is_at_newest` is asked of the new ones
  (conversation.rs:313; the exception in `TailHeld`). A badge outlives its message when that is
  deleted. After a resize, a change of the graphics setting or a removed reaction more rows may
  be skipped than the message has, until the next projection (the exception in `StepIsOneRow`).
- The day and unread lines are drawn and not counted (the exception in `NewestOnLastRow`).
- The markers of a bot's chat wait for the next signal of the list (event.rs:131-137).

Of the drives and lookups:

- Pictures are kept by message id alone (app.rs:835-845), which is unique within a chat only:
  one chat's picture can be drawn for another's message. The instance gives its messages
  different ids.
- A file that a sweep deleted is not asked for again in the run (lib.rs:1377).
- **A file that two loaded messages share is asked for twice.** lib.rs:1334 promises "each file at most
  once per run"; `drive_downloads` collects the files of all messages before it marks the first, and
  ignores what `insert` returns (lib.rs:1362-1385). Hence `AskedInOnePass`: once in one pass for
  each message, and in no later one.
- **An image that cannot be decoded is encoded at every turn.** lib.rs:618-619 says "that sender keeps
  its blank gutter this run", lib.rs:630-632 "that message keeps its placeholder this run": so they do,
  but clearing the mark lets the next turn start the same encoding. The exception `Undecodable` in
  `PictureComes`, which says that what is tried again and again keeps no other picture from coming.
- A file the store does not know is asked for, while lib.rs:1342-1344 says it "is skipped this pass";
  the comment at lib.rs:1354-1361 says why it must be.
- An answer to an earlier query fills the overlay of a later one (lib.rs:613 against
  search.rs:207-208; app.rs:1712, 1744-1745): the exception `crossed` in `HitsAnswerQuery`.
- A hit in the pane of the chat that is open is not scrolled to until the next reading
  (app.rs:243-245, lib.rs:766): `inSight` in `HitLands`.
- The secret chat prompt does what its opening decided, though the chat's state has changed.

Of the session:

- A keyring that comes or goes between two runs makes a second key, which does not open the
  database ("generated once on first use and reused thereafter", docs/login-flow.md:109-110):
  the exception in `KeyFitsWhileReachable`.
- A death between truncating and writing the settings file loses both sections
  (settings.rs:421); one between creating and writing the key file leaves a file that no later
  start accepts (session.rs:334).
- A session revoked from elsewhere only repaints the panes (event.rs:30).

## Abstractions worth knowing

- One TDLib client per bridge: the filter by client id in `spawn_receive_loop` is left out.
- The router's fold and the lock: a reader sees the state between two folds, never within.
- In LivePanes a signal's repaint is the projection; drawing has no state of its own.
- In OpenHistory there is one chat; leaving it is going anywhere else. At most one page
  task per chat exists because `loading` says so, which `LoadingMarksFlight` checks. An event and
  `drive_open_chat` are one step: the oldest message is read there under the lock. A read mark is
  somebody else's message or none; a resync, which brings the chat with its mark again, is in
  ChatList only.
- In Cockpit the message under the history's cursor is any message of the chat shown, and
  its secret, bot and action rows are left out. Searches and the secret chat prompt are in
  Finder, the settings and help overlays in Reducer.
- In Conversation a message is its kind, its length class and its chips; a typing line and the
  labels of senders do not change its height. Wrapping is short or long at a width.
- In ComposerText the width of a string is the sum of its characters' (an emoji joined of several
  is narrower), a tab is a space, and a frame is drawn after each step.
- In Reducer the selection after a projection or a scroll is any loaded message (Conversation says
  which), the lists are one list (Cockpit has them), a field of the settings is edited by a run of
  keys at a time, and a picture or a typing line is a repaint.
- In Transfers progress in bytes is one state, and an encoding fails if its file is gone. What the
  encoder of a decodable image may still meet, `MaxFailures` bounds.
- In Lifecycle a secret typed is the name of the screen it was typed on, and the form's two
  fields are told apart. TDLib's parameters are accepted or refused.

## Not modelled

Rendering beyond the rows of a message, terminal modes, the command line and the conversions
of TDLib's types: pure functions and output. `drive_typing` (a rate limit of a ping whose loss
is harmless) and `drive_copy` (one call of the clipboard). The folds of users, actions, secret chats and connection: last value
wins, and LivePanes has their signals; a lost cancel leaves a sender typing (actions.rs:107).
Fixtures, examples and benches.

## Plan

Done: the core (Feed, CoreSession, UpdateJournal, LivePanes), the stores (ChatList, MessageHistory,
the file store in Transfers), the loop (OpenHistory, Transfers, Finder), the views (Cockpit,
HistoryLayout, Conversation, TextLayout, ComposerText, Keymap, Forms, Reducer), the session
(Startup, SettingsFile, Lifecycle), and the proofs about CoreSession, LivePanes, ChatList,
MessageHistory, OpenHistory, Conversation, ComposerText, Finder, Cockpit, Reducer, Transfers and
Lifecycle. Left, by value:

1. Composition: Conversation over OpenHistory's pages (a scroll-up at the top asks for one), and
   Finder's jump over both.
2. The smaller stores, with a user's status against a later record of the user.

## Running

From this directory, with the TLA+ tools and TLAPS on the path:

```
tlc -workers 2 -config LivePanes.cfg MCLivePanes
tlapm LivePanesProofs.tla
```
