--------------------------- MODULE MessageHistory ---------------------------
(***************************************************************************)
(* One chat's messages (messages/store.rs): MessageStore is kept by the    *)
(* router, which folds TDLib's updates, and by pages of history, which     *)
(* answer a request and are merged by the task that made it.               *)
(*                                                                         *)
(* Message ids grow in the order TDLib creates the messages.  A message's  *)
(* content and reactions are one version.  The stream is the router's      *)
(* subscription: an update sent when it is full costs the oldest one.      *)
(***************************************************************************)
EXTENDS Naturals, Sequences, FiniteSets, FiniteSetsExt

CONSTANTS
  MaxId,         \* bound: how many messages the chat ever has
  MaxVersion,    \* bound: how often one message changes
  PageSize,      \* the limit of get_chat_history
  Capacity       \* UPDATE_BUFFER

ASSUME BoundsAssumption ==
  {MaxId, MaxVersion} \subseteq Nat /\ {PageSize, Capacity} \subseteq Nat \ {0}

VARIABLES
  server,        \* TDLib's messages, by id
  tdOpen,        \* whether TDLib considers the chat open
  stream,        \* updates the router has not taken yet, oldest first
  store,         \* MessageStore, by id
  fetch,         \* the task that pages the chat
  \* Ghosts.
  whole,         \* an empty page has told that the start is reached
  lost,          \* the messages an update was lost for, and not paged since
  touched,       \* the messages folded since TDLib answered the page in flight
  raced,         \* the messages a page brought back after a later fold
  unheard        \* the messages changed without an update, and not paged since

tdVars == <<server, tdOpen>>
ghosts == <<whole, lost, touched, raced, unheard>>
vars == <<tdVars, stream, store, fetch, ghosts>>

Ids == 1 .. MaxId
NEWEST == 0

Message == [state : {"none", "incoming", "pending", "sent", "failed", "deleted"},
            version : 0 .. MaxVersion]
None == [state |-> "none", version |-> 0]
New(state) == [state |-> state, version |-> 0]

Exists(message) == message.state \notin {"none", "deleted"}

Updates ==
       [kind : {"new", "failed", "content"}, id : Ids, message : Message]
  \cup [kind : {"succeeded"}, old : Ids, id : Ids, message : Message]
  \cup [kind : {"delete", "evict", "read"}, id : Ids]

\* The page task: a page is asked for, answered, merged, and reported to the loop.
Stages == {"idle", "spawned", "answered", "reported"}
Pages == UNION {[S -> Message] : S \in SUBSET Ids}
Fetch == [stage : Stages, anchor : 0 .. MaxId, page : Pages, reachedStart : BOOLEAN]
Unanswered(stage, anchor) ==
  [stage |-> stage, anchor |-> anchor, page |-> << >>, reachedStart |-> FALSE]
Spawned(anchor) == Unanswered("spawned", anchor)
Idle == Unanswered("idle", NEWEST)
Reported(reachedStart) == [Unanswered("reported", NEWEST) EXCEPT !.reachedStart = reachedStart]

TypeOK ==
  /\ server \in [Ids -> Message] /\ store \in [Ids -> Message]
  /\ tdOpen \in BOOLEAN /\ whole \in BOOLEAN
  /\ stream \in Seq(Updates) /\ Len(stream) <= Capacity
  /\ fetch \in Fetch
  /\ lost \cup touched \cup raced \cup unheard \subseteq Ids

\* Some messages are older than the session.
Init ==
  /\ \E n \in 0 .. MaxId - 1 :
       server = [i \in Ids |-> IF i <= n THEN New("incoming") ELSE None]
  /\ store = [i \in Ids |-> None]
  /\ tdOpen = FALSE /\ whole = FALSE
  /\ stream = << >>
  /\ fetch = Idle
  /\ lost = {} /\ touched = {} /\ raced = {} /\ unheard = {}

-----------------------------------------------------------------------------
\* TDLib.

\* The messages an update is about: the chat's read mark is about none.
About(u) == IF u.kind = "succeeded" THEN {u.old, u.id} ELSE IF u.kind = "read" THEN {} ELSE {u.id}

\* Mutant: a stream that grows without bound.
SendUnbounded(u) == stream' = Append(stream, u) /\ UNCHANGED lost

Send(u) ==
  IF Len(stream) < Capacity
  THEN stream' = Append(stream, u) /\ UNCHANGED lost
  ELSE stream' = Append(Tail(stream), u) /\ lost' = lost \cup About(Head(stream))

\* The id of the next message.
Fresh == {i \in Ids : server[i] = None /\ \A j \in 1 .. i - 1 : server[j] # None}

quiet == <<tdOpen, store, fetch, whole, touched, raced>>

\* Someone writes, or the user does: a message of ours is pending at first.
Create ==
  /\ \E i \in Fresh, state \in {"incoming", "pending"} :
       /\ server' = [server EXCEPT ![i] = New(state)]
       /\ Send([kind |-> "new", id |-> i, message |-> New(state)])
  /\ UNCHANGED unheard /\ UNCHANGED quiet

\* The server accepts a pending message, under a new id, ...
SendSucceeds ==
  /\ \E old \in Ids, i \in Fresh :
       /\ server[old].state = "pending"
       /\ server' = [server EXCEPT ![old].state = "deleted", ![i] = New("sent")]
       /\ Send([kind |-> "succeeded", old |-> old, id |-> i, message |-> New("sent")])
  /\ UNCHANGED unheard /\ UNCHANGED quiet

\* ... or rejects it, which keeps its id.
SendFails ==
  /\ \E i \in Ids :
       /\ server[i].state = "pending"
       /\ server' = [server EXCEPT ![i].state = "failed"]
       /\ Send([kind |-> "failed", id |-> i, message |-> server'[i]])
  /\ UNCHANGED unheard /\ UNCHANGED quiet

\* A message is edited, or someone reacts: an update is sure to come only while
\* TDLib considers the chat open.
Change ==
  /\ \E i \in Ids :
       /\ server[i].state \in {"incoming", "sent"}
       /\ server[i].version < MaxVersion
       /\ server' = [server EXCEPT ![i].version = @ + 1]
       /\ \/ /\ Send([kind |-> "content", id |-> i, message |-> server'[i]])
             /\ UNCHANGED unheard
          \/ /\ ~tdOpen
             /\ unheard' = unheard \cup {i}
             /\ UNCHANGED <<stream, lost>>
  /\ UNCHANGED quiet

\* A message is deleted for good, or only dropped from TDLib's cache.
Delete ==
  /\ \E i \in Ids :
       /\ Exists(server[i]) /\ server[i].state # "pending"
       /\ server' = [server EXCEPT ![i].state = "deleted"]
       /\ Send([kind |-> "delete", id |-> i])
  /\ UNCHANGED unheard /\ UNCHANGED quiet

Evict ==
  /\ \E i \in Ids : server[i].state = "incoming" /\ Send([kind |-> "evict", id |-> i])
  /\ UNCHANGED <<server, unheard>> /\ UNCHANGED quiet

\* updateChatReadInbox: of no concern to the messages, and in the same stream.
SendMark(i) ==
  /\ Send([kind |-> "read", id |-> i])
  /\ UNCHANGED <<server, unheard>> /\ UNCHANGED quiet

\* openChat and closeChat.
SetOpen(isOpen) ==
  /\ tdOpen' = isOpen
  /\ UNCHANGED <<server, stream, store, fetch, ghosts>>

-----------------------------------------------------------------------------
\* MessageStore::reduce

Reduce(s, u) ==
  CASE u.kind \in {"new", "failed"} -> [s EXCEPT ![u.id] = u.message]
    [] u.kind = "content" ->
         IF s[u.id] = None THEN s ELSE [s EXCEPT ![u.id].version = u.message.version]
    [] u.kind = "succeeded" -> [s EXCEPT ![u.old] = None, ![u.id] = u.message]
    [] u.kind = "delete" -> [s EXCEPT ![u.id] = None]
    [] OTHER -> s

\* The router folds the oldest update.
Fold ==
  /\ stream # << >>
  /\ store' = Reduce(store, Head(stream))
  /\ stream' = Tail(stream)
  /\ touched' = IF fetch.stage = "answered" THEN touched \cup About(Head(stream)) ELSE touched
  /\ UNCHANGED <<tdVars, fetch, whole, lost, raced, unheard>>

-----------------------------------------------------------------------------
\* A page of history.

Known == {i \in Ids : store[i] # None}
Oldest == IF Known = {} THEN NEWEST ELSE Min(Known)

\* spawn_history_page; load_history asks in the same way, page after page.
PageSpawned(anchor) ==
  /\ fetch = Idle
  /\ fetch' = Spawned(anchor)

\* Mutant: a page shorter than asked for is taken for the last one.
PageAnsweredShort ==
  /\ fetch.stage = "spawned"
  /\ LET older == {i \in Ids : Exists(server[i]) /\ (fetch.anchor = NEWEST \/ i < fetch.anchor)}
     IN \E page \in SUBSET older :
          /\ Cardinality(page) <= PageSize
          /\ older # {} => page # {}
          /\ \A i \in page, j \in older \ page : j < i
          /\ fetch' = [fetch EXCEPT !.stage = "answered", !.page = [i \in page |-> server[i]],
                                    !.reachedStart = Cardinality(page) < PageSize]
  /\ touched' = {}
  /\ UNCHANGED <<tdVars, stream, store, whole, lost, raced, unheard>>

\* get_chat_history: TDLib answers with messages older than the anchor, newest
\* first, as many as it likes up to PageSize and none only if there are none.
PageAnswered ==
  /\ fetch.stage = "spawned"
  /\ LET older == {i \in Ids : Exists(server[i]) /\ (fetch.anchor = NEWEST \/ i < fetch.anchor)}
     IN \E page \in SUBSET older :
          /\ Cardinality(page) <= PageSize
          /\ older # {} => page # {}
          /\ \A i \in page, j \in older \ page : j < i
          /\ fetch' = [fetch EXCEPT !.stage = "answered", !.page = [i \in page |-> server[i]],
                                    !.reachedStart = page = {}]
  /\ touched' = {}
  /\ UNCHANGED <<tdVars, stream, store, whole, lost, raced, unheard>>

\* The request fails: reported like a page that did not reach the start.
PageFailed ==
  /\ fetch.stage = "spawned"
  /\ fetch' = Reported(FALSE)
  /\ UNCHANGED <<tdVars, stream, store, ghosts>>

\* The messages the page brings up to date, which no update still on its way undoes.
Caught == {i \in DOMAIN fetch.page : /\ fetch.page[i] = server[i]
                                     /\ \A k \in 1 .. Len(stream) : i \notin About(stream[k])}

\* Mutant: a page never replaces what is known.
MergeKeepsKnown(page, s) == 
  [i \in Ids |-> IF i \in DOMAIN page /\ s[i] = None THEN page[i] ELSE s[i]]

\* MessageStore::merge: a page replaces what is known.
Merge(page, s) == [i \in Ids |-> IF i \in DOMAIN page THEN page[i] ELSE s[i]]

\* merge_history, and the task reports.
PageMerged ==
  /\ fetch.stage = "answered"
  /\ store' = Merge(fetch.page, store)
  /\ fetch' = Reported(fetch.reachedStart)
  /\ whole' = (whole \/ fetch.reachedStart)
  /\ raced' = raced \cup (touched \cap DOMAIN fetch.page)
  /\ unheard' = unheard \ Caught
  /\ lost' = lost \ Caught
  /\ touched' = {}
  /\ UNCHANGED <<tdVars, stream>>

\* The report has been taken: the task is over.
PageTaken ==
  /\ fetch.stage = "reported"
  /\ fetch' = Idle

\* TDLib's own steps, and with them those of the router and of the page task; and what
\* their caller does, here anyone: open and close the chat, read it, and page from the
\* newest message or from the oldest one known.
TdlibSteps ==
  \/ Create
  \/ SendSucceeds
  \/ SendFails
  \/ Change
  \/ Delete
  \/ Evict

Steps ==
  \/ TdlibSteps
  \/ Fold
  \/ PageAnswered
  \/ PageMerged

Next ==
  \/ Steps
  \/ \E i \in Ids : SendMark(i)
  \/ PageFailed
  \/ \E anchor \in {NEWEST, Oldest} :
       PageSpawned(anchor) /\ UNCHANGED <<tdVars, stream, store, ghosts>>
  \/ PageTaken /\ UNCHANGED <<tdVars, stream, store, ghosts>>
  \/ SetOpen(~tdOpen)

Spec == Init /\ [][Next]_vars

-----------------------------------------------------------------------------
\* Nothing is left to fold or to merge.
Quiet == stream = << >> /\ fetch.stage \in {"idle", "reported"}

\* The store holds TDLib's messages, from the oldest one loaded on without a hole,
\* and all of them once the start was reached: however sends, edits, deletions and
\* pages interleave, but for what a lost update was about or what changed without an
\* update until a page brings it, and for what a page in flight brought back after
\* its deletion or edit was folded.
StoreFollows ==
  Quiet =>
    \A i \in Ids \ (raced \cup lost) :
      /\ store[i] # None => /\ store[i].state = server[i].state
                            /\ i \notin unheard => store[i].version = server[i].version
      /\ (Exists(server[i]) /\ (whole \/ (Known # {} /\ i > Oldest))) => store[i] # None

=============================================================================
