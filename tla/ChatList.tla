------------------------------ MODULE ChatList ------------------------------
(***************************************************************************)
(* The chat lists (chats.rs): ChatStore is maintained from TDLib's stream  *)
(* of chat updates, which load_list only makes TDLib emit.  The stream is  *)
(* the router's broadcast subscription: it holds Capacity updates, and an  *)
(* update sent when it is full costs the oldest one.  Client::resync pages *)
(* the Main list again, for which TDLib re-emits the chats of that list.   *)
(*                                                                         *)
(* A chat is what the store keeps of it: its order in each list, its       *)
(* marks (the fields an update replaces as a whole: the inbox and outbox   *)
(* read marks, the draft, the last message) and its pinned messages.       *)
(***************************************************************************)
EXTENDS Naturals, Sequences, FiniteSets

CONSTANTS
  Chats,         \* chat ids
  Lists,         \* Main, Archive and the folders
  Main,          \* the list a resync pages again
  Resync,        \* names the load that Client::resync runs
  Marks,         \* the fields replaced as a whole
  Messages,      \* messages that can be pinned
  MaxOrder,      \* bound: list orders and mark values
  Capacity,      \* UPDATE_BUFFER
  MaxChanges     \* bound: how often TDLib's own chats change

ASSUME ChatsAssumption == Chats \subseteq Nat
ASSUME ListsAssumption == Main \in Lists /\ Resync \notin Lists
ASSUME BoundsAssumption == MaxOrder \in Nat /\ Capacity \in Nat \ {0} /\ MaxChanges \in Nat

VARIABLES
  truth,         \* TDLib's own chats
  announced,     \* the chats TDLib has sent an updateNewChat for
  stream,        \* the updates the router has not taken yet, oldest first
  chats,         \* ChatStore::chats, by id
  load,          \* load[x]: how far the run of load_list for x is
  emitted,       \* emitted[x]: the chats TDLib emitted for that run
  changes,       \* bound counter
  \* Ghosts.
  everLost,      \* an update has been lost
  lostSince,     \* lostSince[x]: one has been since load x last started
  repeated       \* the chats announced more than once

vars == <<truth, announced, stream, chats, load, emitted, changes, everLost, lostSince, repeated>>

\* One run per list, at the list's first display, and those of resync.
Loads == Lists \cup {Resync}
ListOf(x) == IF x = Resync THEN Main ELSE x

Positions == [Lists -> 0 .. MaxOrder]   \* 0: not in the list
NoPositions == [l \in Lists |-> 0]

Chat == [positions : Positions, marks : [Marks -> 0 .. MaxOrder], pinned : SUBSET Messages]
NewChat == [positions |-> NoPositions, marks |-> [m \in Marks |-> 0], pinned |-> {}]

\* The positions an update carries: for some of the lists.
Carried == UNION {[S -> 0 .. MaxOrder] : S \in SUBSET Lists}

Updates ==
       [kind : {"new"}, chat : Chats, state : Chat]
  \cup [kind : {"position"}, chat : Chats, positions : Carried]
  \cup [kind : {"mark"}, chat : Chats, mark : Marks, value : 0 .. MaxOrder, positions : Carried]
  \cup [kind : {"pinned"}, chat : Chats, message : Messages, on : BOOLEAN]

Store == UNION {[S -> Chat] : S \in SUBSET Chats}
EmptyStore == [c \in {} |-> NewChat]

TypeOK ==
  /\ truth \in [Chats -> Chat]
  /\ announced \subseteq Chats
  /\ stream \in Seq(Updates) /\ Len(stream) <= Capacity
  /\ chats \in Store
  /\ load \in [Loads -> {"none", "paging", "loaded", "failed"}]
  /\ emitted \in [Loads -> SUBSET Chats]
  /\ changes \in 0 .. MaxChanges
  /\ everLost \in BOOLEAN
  /\ lostSince \in [Loads -> BOOLEAN]
  /\ repeated \subseteq announced

Init ==
  /\ truth \in [Chats -> {[NewChat EXCEPT !.positions = p] : p \in Positions}]
  /\ announced = {}
  /\ stream = << >>
  /\ chats = EmptyStore
  /\ load = [x \in Loads |-> "none"]
  /\ emitted = [x \in Loads |-> {}]
  /\ changes = 0
  /\ everLost = FALSE
  /\ lostSince = [x \in Loads |-> FALSE]
  /\ repeated = {}

-----------------------------------------------------------------------------
\* The store's fold, one operator per reducer.

\* Chat::from_tdlib: the pinned messages are not on TDLib's chat.
FromTdlib(chat) == [chat EXCEPT !.pinned = {}]

\* HashMap::insert
Inserted(store, c, chat) ==
  [d \in DOMAIN store \cup {c} |-> IF d = c THEN chat ELSE store[d]]

\* Mutant: a repeated announcement takes the chat off its lists.
UpsertForgetsPositions(store, c, chat) == Inserted(store, c, chat)

\* Mutant: a repeated announcement changes nothing.
UpsertKeepsKnown(store, c, chat) ==
  IF c \in DOMAIN store THEN store ELSE Inserted(store, c, chat)

\* upsert: replaces the chat; positions learned before survive an announcement
\* that carries none.
Upsert(store, c, chat) ==
  LET kept == IF chat.positions = NoPositions /\ c \in DOMAIN store
              THEN [chat EXCEPT !.positions = store[c].positions]
              ELSE chat
  IN Inserted(store, c, kept)

\* merge_position, for each position carried: an order of 0 leaves the list.
MergePositions(positions, carried) ==
  [l \in Lists |-> IF l \in DOMAIN carried THEN carried[l] ELSE positions[l]]

\* Mutant: pinning toggles.
TogglePinned(pinned, message, on) ==
  IF message \in pinned THEN pinned \ {message} ELSE pinned \cup {message}

\* set_message_pinned
SetPinned(pinned, message, on) ==
  IF on THEN pinned \cup {message} ELSE pinned \ {message}

\* A reducer on a known chat; on an unknown one every reducer but upsert is void.
Reduced(chat, u) ==
  CASE u.kind = "position" -> [chat EXCEPT !.positions = MergePositions(@, u.positions)]
    [] u.kind = "mark" -> [chat EXCEPT !.marks[u.mark] = u.value,
                                       !.positions = MergePositions(@, u.positions)]
    [] u.kind = "pinned" -> [chat EXCEPT !.pinned = SetPinned(@, u.message, u.on)]

\* ChatStore::reduce
Reduce(store, u) ==
  IF u.kind = "new" THEN Upsert(store, u.chat, FromTdlib(u.state))
  ELSE IF u.chat \in DOMAIN store THEN [store EXCEPT ![u.chat] = Reduced(@, u)]
  ELSE store

\* ordered_by: by descending order, then by descending id.
Ahead(store, l, c, d) ==
  \/ store[c].positions[l] > store[d].positions[l]
  \/ store[c].positions[l] = store[d].positions[l] /\ c > d

OrderedBy(store, l) ==
  LET in == {c \in DOMAIN store : store[c].positions[l] # 0}
  IN CHOOSE shown \in [1 .. Cardinality(in) -> in] :
       \A i, j \in 1 .. Cardinality(in) : i < j => Ahead(store, l, shown[i], shown[j])

-----------------------------------------------------------------------------
\* Mutant: a stream that grows without bound.
SendUnbounded(updates) ==
  /\ stream' = stream \o updates
  /\ UNCHANGED <<everLost, lostSince>>

\* TDLib sends updates; those the channel has no room for cost its oldest.
Send(updates) ==
  LET all == stream \o updates
      over == IF Len(all) > Capacity THEN Len(all) - Capacity ELSE 0
  IN /\ stream' = SubSeq(all, over + 1, Len(all))
     /\ everLost' = (everLost \/ over > 0)
     /\ lostSince' = [x \in Loads |-> lostSince[x] \/ over > 0]

Announcement(c, positions) ==
  [kind |-> "new", chat |-> c, state |-> [truth[c] EXCEPT !.positions = positions]]

\* TDLib announces a chat on its own, or repeats itself ("on reconnect, on resync,
\* or just because order changed"), with the chat's positions or without any.
Announce(c) ==
  /\ changes < MaxChanges
  /\ changes' = changes + 1
  /\ \E p \in {NoPositions, truth[c].positions} :
       /\ c \notin announced => p = truth[c].positions
       /\ Send(<<Announcement(c, p)>>)
  /\ announced' = announced \cup {c}
  /\ repeated' = IF c \in announced THEN repeated \cup {c} ELSE repeated
  /\ UNCHANGED <<truth, chats, load, emitted>>

\* TDLib's chat c becomes `chat`; it says so, by update u, once c is announced.
Change(c, chat, u) ==
  /\ changes < MaxChanges
  /\ changes' = changes + 1
  /\ chat # truth[c]
  /\ truth' = [truth EXCEPT ![c] = chat]
  /\ IF c \in announced THEN Send(<<u>>) ELSE UNCHANGED <<stream, everLost, lostSince>>
  /\ UNCHANGED <<announced, chats, load, emitted, repeated>>

Move(c) ==
  \E l \in Lists, order \in 0 .. MaxOrder :
    Change(c, [truth[c] EXCEPT !.positions[l] = order],
           [kind |-> "position", chat |-> c, positions |-> [k \in {l} |-> order]])

\* A mark changes, on its own or floating the chat in a list.
SetMark(c) ==
  \E m \in Marks, v \in 0 .. MaxOrder, into \in {{}} \cup {{l} : l \in Lists} :
  \E carried \in [into -> 1 .. MaxOrder] :
    Change(c, [truth[c] EXCEPT !.marks[m] = v, !.positions = MergePositions(@, carried)],
           [kind |-> "mark", chat |-> c, mark |-> m, value |-> v, positions |-> carried])

\* A message is pinned or unpinned; the client learns of a pin only from this.
Pin(c) ==
  c \in announced /\ \E m \in Messages, on \in BOOLEAN :
    Change(c, [truth[c] EXCEPT !.pinned = IF on THEN @ \cup {m} ELSE @ \ {m}],
           [kind |-> "pinned", chat |-> c, message |-> m, on |-> on])

\* The router folds the oldest update still in the channel.
Fold ==
  /\ stream # << >>
  /\ chats' = Reduce(chats, Head(stream))
  /\ stream' = Tail(stream)
  /\ UNCHANGED <<truth, announced, load, emitted, changes, everLost, lostSince, repeated>>

\* load_list starts: once for a list, and for every resync.
StartLoad(x) ==
  /\ load[x] = "none" \/ (x = Resync /\ load[x] # "paging")
  /\ load' = [load EXCEPT ![x] = "paging"]
  /\ emitted' = [emitted EXCEPT ![x] = {}]
  /\ lostSince' = [lostSince EXCEPT ![x] = FALSE]
  /\ UNCHANGED <<truth, announced, stream, chats, changes, everLost, repeated>>

\* A chat's positions, as the updateChatPositions that follow its announcement
\* carry them: one per list it is in, and none for a list it is not in.
Placed(c) ==
  LET in == {l \in Lists : truth[c].positions[l] # 0} IN [l \in in |-> truth[c].positions[l]]

Remaining(x) == {c \in Chats : truth[c].positions[ListOf(x)] # 0} \ emitted[x]

\* A page: TDLib emits a chat of the list, announcing it if it has not, or if it
\* re-emits for a resync, and answers Ok: load_list asks again.
LoadPage(x) ==
  /\ load[x] = "paging"
  /\ \E c \in Remaining(x) :
       LET placed == [kind |-> "position", chat |-> c, positions |-> Placed(c)]
           again == c \in announced
       IN /\ Send(IF again /\ x # Resync THEN <<placed>>
                  ELSE <<Announcement(c, NoPositions), placed>>)
          /\ announced' = announced \cup {c}
          /\ repeated' = IF again /\ x = Resync THEN repeated \cup {c} ELSE repeated
          /\ emitted' = [emitted EXCEPT ![x] = @ \cup {c}]
  /\ UNCHANGED <<truth, chats, load, changes>>

\* Mutant: the 404 is taken for one more page.
LoadExhaustedIgnored(x) ==
  /\ load[x] = "paging"
  /\ Remaining(x) = {}
  /\ UNCHANGED vars

\* CHATS_EXHAUSTED ends the run.
LoadExhausted(x) ==
  /\ load[x] = "paging"
  /\ Remaining(x) = {}
  /\ load' = [load EXCEPT ![x] = "loaded"]
  /\ UNCHANGED <<truth, announced, stream, chats, emitted, changes, everLost, lostSince, repeated>>

\* Any other error is propagated.
LoadFailed(x) ==
  /\ load[x] = "paging"
  /\ load' = [load EXCEPT ![x] = "failed"]
  /\ UNCHANGED <<truth, announced, stream, chats, emitted, changes, everLost, lostSince, repeated>>

Next ==
  \/ Fold
  \/ \E c \in Chats : \/ Announce(c)
                      \/ Move(c)
                      \/ SetMark(c)
                      \/ Pin(c)
  \/ \E x \in Loads : \/ StartLoad(x)
                      \/ LoadPage(x)
                      \/ LoadExhausted(x)
                      \/ LoadFailed(x)

Spec == Init /\ [][Next]_vars

\* The router keeps folding, and TDLib answers every request.
FairSpec ==
  /\ Spec
  /\ WF_vars(Fold)
  /\ \A x \in Loads : WF_vars(LoadPage(x) \/ LoadExhausted(x))

-----------------------------------------------------------------------------
Drained == stream = << >>

\* The list l as TDLib has it, for a view `shown` of it: the announced chats with a
\* position, by descending order and then id, each once.
ShowsList(shown, l) ==
  /\ {shown[i] : i \in 1 .. Len(shown)} =
       {c \in announced : truth[c].positions[l] # 0}
  /\ \A i, j \in 1 .. Len(shown) :
       i < j =>
         LET a == truth[shown[i]].positions[l]
             b == truth[shown[j]].positions[l]
         IN a > b \/ (a = b /\ shown[i] > shown[j])

\* With no update lost, the store ends at TDLib's own chats however the updates
\* interleave with list loads, resyncs and repeats: every field, and every list in
\* TDLib's order.  The pinned messages alone may fall short, and only for a chat that
\* was announced again: the announcement does not carry them.
Converges ==
  (Drained /\ ~everLost) =>
    /\ DOMAIN chats = announced
    /\ \A c \in announced :
         /\ chats[c].positions = truth[c].positions
         /\ chats[c].marks = truth[c].marks
         /\ chats[c].pinned \subseteq truth[c].pinned
         /\ c \notin repeated => chats[c].pinned = truth[c].pinned
    /\ \A l \in Lists : ShowsList(OrderedBy(chats, l), l)

\* An update delivered twice in a row leaves what the first delivery left, and what
\* the folds leave is well typed.
ReplayIsNoop ==
  /\ TypeOK
  /\ ~Drained =>
       LET once == Reduce(chats, Head(stream)) IN Reduce(once, Head(stream)) = once

\* After a resync that itself lost nothing, every chat TDLib emitted for it is in
\* the store, with its marks and its place in the Main list, whatever was lost
\* before the resync and whatever has changed since.
ResyncCovers ==
  (Drained /\ load[Resync] = "loaded" /\ ~lostSince[Resync]) =>
    \A c \in emitted[Resync] :
      /\ c \in DOMAIN chats
      /\ chats[c].marks = truth[c].marks
      /\ chats[c].positions[Main] = truth[c].positions[Main]

\* The store is as good as its stream: whole, or whole again after a resync, as far as
\* TDLib tells.
StoreAgrees == Converges /\ ResyncCovers

\* Paging comes to an end once TDLib's chats stop changing.
LoadsEnd == \A x \in Loads : load[x] = "paging" ~> load[x] # "paging"

=============================================================================
