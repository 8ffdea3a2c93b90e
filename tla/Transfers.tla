----------------------------- MODULE Transfers -----------------------------
(***************************************************************************)
(* Files and pictures (files.rs, and in the run loop of lib.rs             *)
(* drive_downloads, drive_avatars, drive_inline_media, drive_save and      *)
(* drive_storage_sweep).  After every event, the render tick among them,   *)
(* the loop reads the folded state and starts what it finds missing: the   *)
(* download of each file the open chat refers to, the encoding of its      *)
(* senders' avatars and of the pictures that are there: one that failed,   *)
(* or always will, at every turn again.  It knows what it has started only *)
(* by the sets it keeps.  Every half hour it asks TDLib to delete what the *)
(* retention policy no longer keeps.                                       *)
(*                                                                         *)
(* TDLib's file state reaches the store as updateFile, over a feed that    *)
(* holds Capacity updates and loses the oldest when it is full.            *)
(***************************************************************************)
EXTENDS Naturals, Sequences, FiniteSets, TLC

CONSTANTS
  Chats, NoChat,
  Categories,    \* the retention categories: private, groups, channels
  CategoryOf,    \* the category of each chat
  Policies,      \* [kept, capped]: what is kept forever, whether the size is capped
  Files, Users,
  Earlier,       \* the files that may be there from an earlier run
  Messages,      \* [chat, id, file, sender, still]; an id is unique within its chat
  Undecodable,   \* the users and messages whose image no decoder takes
  NoPicture,
  Capacity,      \* UPDATE_BUFFER
  MaxFailures,   \* bound: downloads, and encodings of a decodable image, that fail
  MaxChoices     \* bound: what the user changes or saves, and the sweeps

\* What a message's still is made from: its file once it is there, a
\* minithumbnail that came with it, or nothing.
Stills == {"file", "embedded", "none"}

ASSUME ChatsAssumption == NoChat \notin Chats /\ CategoryOf \in [Chats -> Categories]
ASSUME PoliciesAssumption == Policies \subseteq [kept : SUBSET Categories, capped : BOOLEAN]
ASSUME MessagesAssumption ==
  /\ Messages \subseteq [chat : Chats, id : Nat, file : Files, sender : Users \cup Chats, still : Stills]
  /\ \A m, n \in Messages : m.chat = n.chat /\ m.id = n.id => m = n
  /\ NoPicture \notin Messages /\ Undecodable \subseteq Users \cup Messages
ASSUME FinitenessAssumption == IsFiniteSet(Users) /\ IsFiniteSet(Messages)
ASSUME BoundsAssumption ==
  Capacity \in Nat \ {0} /\ MaxFailures \in Nat /\ MaxChoices \in Nat

VARIABLES
  \* TDLib.
  local,         \* local[f]: the file's local copy
  feed,          \* the updateFile records sent and not folded, oldest first
  \* The stores.
  known,         \* FileStore: known[f], "unknown" before its first update
  history,       \* MessageStore: the messages loaded
  people,        \* UserStore: the users known
  listed,        \* ChatStore: the chats loaded
  \* The run loop and the app.
  open,          \* HistoryState::open
  graphics,      \* App::graphics_enabled
  policy,        \* the StorageSettings in force
  downloading, avatarEncoding, mediaEncoding,
  avatars,       \* AvatarCache: the users whose bubble is built
  pictures,      \* MediaCache: pictures[i]: the message whose still is under id i
  \* The tasks it has spawned.
  calls,         \* calls[f]: the download_file calls not answered
  jobs,          \* the encodings, until the loop takes their report
  sweeps,        \* the optimize_storage calls not answered
  failures, choices,   \* bound counters
  \* Ghosts.
  lost,          \* the files whose last update was lost
  asked,         \* asked[f]: how many passes of drive_downloads asked for f
  unlucky        \* the files whose download was rejected, failed or was swept away

tdlibVars == <<local, feed>>
storeVars == <<known, history, people, listed>>
viewVars == <<open, graphics>>
markVars == <<downloading, avatarEncoding, mediaEncoding>>
cacheVars == <<avatars, pictures>>
ghosts == <<lost, asked, unlucky>>
vars == <<tdlibVars, storeVars, viewVars, policy, markVars, cacheVars,
          calls, jobs, sweeps, failures, choices, ghosts>>

Ids == {m.id : m \in Messages}
Copies == {"absent", "active", "present"}

Avatar(u) == [kind |-> "avatar", key |-> u, of |-> NoPicture, out |-> "busy"]
Still(m) == [kind |-> "media", key |-> m.id, of |-> m, out |-> "busy"]
Jobs == [kind : {"avatar"}, key : Users, of : {NoPicture}, out : {"busy", "built", "failed"}]
   \cup [kind : {"media"}, key : Ids, of : Messages, out : {"busy", "built", "failed"}]

\* An optimize_storage call: over these chats, all of them if none is named.
\* "spared" is a ghost: the categories kept forever when it was sent.
Sweeps == [chats : SUBSET Chats, spared : SUBSET Categories]
Covers(s) == IF s.chats = {} THEN Chats ELSE s.chats

TypeOK ==
  /\ local \in [Files -> Copies]
  /\ feed \in Seq([file : Files, copy : Copies]) /\ Len(feed) <= Capacity
  /\ known \in [Files -> Copies \cup {"unknown"}]
  /\ history \subseteq Messages /\ people \subseteq Users /\ listed \subseteq Chats
  /\ open \in Chats \cup {NoChat} /\ graphics \in BOOLEAN /\ policy \in Policies
  /\ downloading \subseteq Files /\ avatarEncoding \subseteq Users /\ mediaEncoding \subseteq Ids
  /\ avatars \subseteq Users /\ pictures \in [Ids -> Messages \cup {NoPicture}]
  /\ calls \in [Files -> Nat] /\ jobs \subseteq Jobs /\ sweeps \subseteq Sweeps
  /\ failures \in 0 .. MaxFailures /\ choices \in 0 .. MaxChoices
  /\ lost \subseteq Files /\ asked \in [Files -> Nat] /\ unlucky \subseteq Files

\* A file may be there from an earlier run.  No chat is loaded and nothing is open.
Init ==
  /\ local \in [Files -> {"absent", "present"}]
  /\ \A f \in Files \ Earlier : local[f] = "absent"
  /\ feed = << >>
  /\ known = [f \in Files |-> "unknown"]
  /\ history = {} /\ people = {} /\ listed = {}
  /\ open = NoChat /\ graphics = TRUE /\ policy \in Policies
  /\ downloading = {} /\ avatarEncoding = {} /\ mediaEncoding = {}
  /\ avatars = {} /\ pictures = [i \in Ids |-> NoPicture]
  /\ calls = [f \in Files |-> 0] /\ jobs = {} /\ sweeps = {}
  /\ failures = 0 /\ choices = 0
  /\ lost = {} /\ asked = [f \in Files |-> 0] /\ unlucky = {}

-----------------------------------------------------------------------------
\* TDLib and the router.

\* Mutant: a sender that waits for nobody.
SendUnbounded(f, copy) ==
  /\ feed' = Append(feed, [file |-> f, copy |-> copy])
  /\ UNCHANGED lost

\* updateFile goes out; when the feed is full the oldest is lost.
Send(f, copy) ==
  LET u == [file |-> f, copy |-> copy]
      rest == IF Len(feed) = Capacity THEN Tail(feed) ELSE feed IN
  /\ feed' = Append(rest, u)
  /\ lost' = IF Len(feed) < Capacity THEN lost \ {f}
             ELSE (lost \cup {Head(feed).file}) \ ({f} \cup {rest[k].file : k \in 1 .. Len(rest)})

\* TDLib changes a file's copy and says so.
Copied(f, copy) == local' = [local EXCEPT ![f] = copy] /\ Send(f, copy)

\* FileStore::upsert: the record is replaced.
Folded(copies, u) == [copies EXCEPT ![u.file] = u.copy]

Fold ==
  /\ feed # << >>
  /\ known' = Folded(known, Head(feed))
  /\ feed' = Tail(feed)
  /\ UNCHANGED <<local, history, people, listed, viewVars, policy, markVars, cacheVars,
                 calls, jobs, sweeps, failures, choices, ghosts>>

\* A page or an update brings a message, with its chat and its sender.
Learn(m) ==
  /\ m \notin history
  /\ history' = history \cup {m}
  /\ listed' = listed \cup {m.chat}
  /\ people' = people \cup ({m.sender} \cap Users)
  /\ UNCHANGED <<tdlibVars, known, viewVars, policy, markVars, cacheVars,
                 calls, jobs, sweeps, failures, choices, ghosts>>

\* TDLib answers download_file.  Of a file already there it may have nothing to say.
Answer(f) ==
  /\ calls[f] > 0
  /\ calls' = [calls EXCEPT ![f] = @ - 1]
  /\ \/ /\ local[f] = "absent" /\ Copied(f, "active")
        /\ UNCHANGED <<failures, asked, unlucky>>
     \/ /\ local[f] = "present" /\ Send(f, "present")
        /\ UNCHANGED <<local, failures, asked, unlucky>>
     \/ /\ local[f] # "absent"
        /\ UNCHANGED <<tdlibVars, failures, ghosts>>
     \/ /\ failures < MaxFailures /\ failures' = failures + 1
        /\ unlucky' = unlucky \cup {f}
        /\ UNCHANGED <<tdlibVars, lost, asked>>
  /\ UNCHANGED <<storeVars, viewVars, policy, markVars, cacheVars, jobs, sweeps, choices>>

\* A transfer ends.
Transferred(f) ==
  /\ local[f] = "active"
  /\ \/ Copied(f, "present") /\ UNCHANGED <<failures, unlucky>>
     \/ /\ failures < MaxFailures /\ failures' = failures + 1
        /\ Copied(f, "absent") /\ unlucky' = unlucky \cup {f}
  /\ UNCHANGED <<storeVars, viewVars, policy, markVars, cacheVars,
                 calls, jobs, sweeps, choices, asked>>

\* A sweep deletes a file of a chat it covers.
SweepDeletes(s, f) ==
  /\ s \in sweeps
  /\ local[f] = "present"
  /\ \E m \in Messages : m.file = f /\ m.chat \in Covers(s)
  /\ Copied(f, "absent")
  /\ unlucky' = unlucky \cup {f}
  /\ UNCHANGED <<storeVars, viewVars, policy, markVars, cacheVars,
                 calls, jobs, sweeps, failures, choices, asked>>

SweepEnds(s) ==
  /\ s \in sweeps
  /\ sweeps' = sweeps \ {s}
  /\ UNCHANGED <<tdlibVars, storeVars, viewVars, policy, markVars, cacheVars,
                 calls, jobs, failures, choices, ghosts>>

-----------------------------------------------------------------------------
\* The spawned encodings.

\* A still is read from the file's path now: the file may be gone.
Readable(j) == j.of # NoPicture /\ j.of.still = "file" => local[j.of.file] = "present"

\* An avatar is made of its user's photo, any other job of its message's still.
Source(j) == IF j.kind = "avatar" THEN j.key ELSE j.of

\* There is an image to be had.
Decodable(j) == Readable(j) /\ Source(j) \notin Undecodable

\* Mutant: an encoding that failed reports nothing.
EncodeSilently(j) ==
  /\ j \in jobs /\ j.out = "busy"
  /\ \/ /\ Decodable(j)
        /\ jobs' = (jobs \ {j}) \cup {[j EXCEPT !.out = "built"]}
        /\ UNCHANGED failures
     \/ /\ IF Decodable(j) THEN failures < MaxFailures /\ failures' = failures + 1
           ELSE UNCHANGED failures
        /\ jobs' = jobs \ {j}
  /\ UNCHANGED <<tdlibVars, storeVars, viewVars, policy, markVars, cacheVars,
                 calls, sweeps, choices, ghosts>>

\* Decoded, or not; reported either way.
Encode(j) ==
  /\ j \in jobs /\ j.out = "busy"
  /\ \/ /\ Decodable(j)
        /\ jobs' = (jobs \ {j}) \cup {[j EXCEPT !.out = "built"]}
        /\ UNCHANGED failures
     \/ /\ IF Decodable(j) THEN failures < MaxFailures /\ failures' = failures + 1
           ELSE UNCHANGED failures
        /\ jobs' = (jobs \ {j}) \cup {[j EXCEPT !.out = "failed"]}
  /\ UNCHANGED <<tdlibVars, storeVars, viewVars, policy, markVars, cacheVars,
                 calls, sweeps, choices, ghosts>>

-----------------------------------------------------------------------------
\* The run loop.

\* The messages of chat c, as the drives read them.
Shown(c) == {m \in history : m.chat = c}

\* Mutant: a file no update has announced is left alone.
WantedIfKnown(f) == known[f] = "absent"

\* A file nobody has told of is asked for: the first update comes of the request.
Wanted(f) == known[f] \in {"unknown", "absent"}

\* Mutant: what was asked for before is not remembered.
ToDownloadAgain(o) == {m \in Shown(o) : Wanted(m.file)}

\* drive_downloads: the messages of open chat o it starts a download for, one each, be
\* their files the same: what it has started is looked at before the first.
ToDownload(o) == {m \in Shown(o) : m.file \notin downloading /\ Wanted(m.file)}

\* drive_avatars and drive_inline_media, given what is cached and being encoded.
ToBubble(o, cached, encoding) ==
  {u \in {m.sender : m \in Shown(o)} : u \in people /\ u \notin cached \cup encoding}

Ready(m) == \/ m.still = "file" /\ known[m.file] = "present"
            \/ m.still = "embedded"

\* Mutant: only what is cached is passed over.
ToPictureAgain(o, cached, encoding) ==
  {m \in Shown(o) : cached[m.id] = NoPicture /\ Ready(m)}

ToPicture(o, cached, encoding) ==
  {m \in Shown(o) : cached[m.id] = NoPicture /\ m.id \notin encoding /\ Ready(m)}

\* drive_save: a file that is there is pointed out, any other asked for, whatever else
\* has asked for it.
ToSave(saving) == {f \in saving : known[f] # "present"}

\* The keys of the reports, taken or built, of a kind.
Keys(reports, kind) == {j.key : j \in {r \in reports : r.kind = kind}}
Built(reports) == {j \in reports : j.out = "built"}
BuiltPictures(reports) ==
  [i \in Ids |->
     LET own == {j \in Built(reports) : j.kind = "media" /\ j.key = i} IN
     IF own = {} THEN pictures[i] ELSE (CHOOSE j \in own : TRUE).of]

\* One turn: the arm leaves chat o open and the graphics setting at g, took these
\* reports and was asked to save these files; then the drives, in their order.  Each
\* reads the stores under a lock of its own; what changes between two of them is
\* there for the next turn.
Turn(o, g, reports, saving) ==
  LET cached == avatars \cup Keys(Built(reports), "avatar")
      stills == BuiltPictures(reports)
      bubbling == avatarEncoding \ Keys(reports, "avatar")
      picturing == mediaEncoding \ Keys(reports, "media")
      starts == ToDownload(o)
      files == {m.file : m \in starts}
      bubbles == IF g THEN ToBubble(o, cached, bubbling) ELSE {}
      images == IF g THEN ToPicture(o, stills, picturing) ELSE {} IN
  /\ open' = o /\ graphics' = g
  /\ downloading' = downloading \cup files
  /\ avatars' = cached /\ pictures' = stills
  /\ avatarEncoding' = bubbling \cup bubbles
  /\ mediaEncoding' = picturing \cup {m.id : m \in images}
  /\ jobs' = (jobs \ reports) \cup {Avatar(u) : u \in bubbles} \cup {Still(m) : m \in images}
  /\ calls' = [f \in Files |-> calls[f] + Cardinality({m \in starts : m.file = f})
                                        + Cardinality({f} \cap ToSave(saving))]
  /\ asked' = [f \in Files |-> asked[f] + Cardinality({f} \cap files)]
  /\ UNCHANGED <<tdlibVars, storeVars, failures, lost, unlucky>>

\* The render tick and every event that touches none of this.
Tick == Turn(open, graphics, {}, {}) /\ UNCHANGED <<policy, sweeps, choices>>

MoveTo(o) == o # open /\ Turn(o, graphics, {}, {}) /\ UNCHANGED <<policy, sweeps, choices>>

TakeReport(j) ==
  /\ j \in jobs /\ j.out # "busy"
  /\ Turn(open, graphics, {j}, {})
  /\ UNCHANGED <<policy, sweeps, choices>>

Chosen == choices < MaxChoices /\ choices' = choices + 1

ToggleGraphics ==
  /\ Chosen /\ Turn(open, ~graphics, {}, {}) /\ UNCHANGED <<policy, sweeps>>

\* The save key, on a message of the open chat.
Save(m) ==
  /\ m \in Shown(open)
  /\ Chosen /\ Turn(open, graphics, {}, {m.file}) /\ UNCHANGED <<policy, sweeps>>

\* The storage editor: the live policy is replaced.
EditPolicy ==
  /\ Chosen /\ Turn(open, graphics, {}, {})
  /\ policy' \in Policies \ {policy}
  /\ UNCHANGED sweeps

\* Mutant: a category without a loaded chat is swept like any other.
ExpiringAny == {k \in Categories : k \notin policy.kept}

\* drive_storage_sweep: the categories with a lifetime that have a chat loaded.
Expiring == {k \in Categories : k \notin policy.kept /\ \E c \in listed : CategoryOf[c] = k}

\* Its tick; the first comes at once.
SweepTick ==
  /\ Chosen
  /\ sweeps' = sweeps
       \cup {[chats |-> {c \in listed : CategoryOf[c] = k}, spared |-> policy.kept] : k \in Expiring}
       \cup (IF policy.capped THEN {[chats |-> {}, spared |-> {}]} ELSE {})
  /\ Turn(open, graphics, {}, {})
  /\ UNCHANGED policy

Next ==
  \/ Fold
  \/ \E m \in Messages : Learn(m) \/ Save(m)
  \/ \E f \in Files : Answer(f) \/ Transferred(f)
  \/ \E s \in sweeps : SweepEnds(s) \/ \E f \in Files : SweepDeletes(s, f)
  \/ \E j \in jobs : Encode(j) \/ TakeReport(j)
  \/ \E o \in Chats \cup {NoChat} : MoveTo(o)
  \/ Tick
  \/ ToggleGraphics
  \/ EditPolicy
  \/ SweepTick

Spec == Init /\ [][Next]_vars

\* The router, the ticks and each spawned task are scheduled; TDLib answers, and
\* a transfer ends.
FairSpec ==
  /\ Spec
  /\ WF_vars(Fold)
  /\ WF_vars(Tick)
  /\ WF_vars(\E f \in Files : Answer(f) \/ Transferred(f))
  /\ \A m \in {n \in Messages : n.still # "none"} :
       WF_vars(\E j \in jobs : j.of = m /\ (Encode(j) \/ TakeReport(j)))

-----------------------------------------------------------------------------
\* The loop asks for a file in one pass of a run, however often it looks, is answered or
\* swept: in that pass once for every message loaded that refers to it.
AskedInOnePass == \A f \in Files : asked[f] <= 1

\* Whatever is marked as being encoded has one task at it or one report on its way,
\* and nothing else has: a failed encoding never wedges its message or sender, and
\* none is encoded twice at a time.  Nor is a file asked for in two passes, and all is
\* well typed.
MarksMeanWork ==
  /\ TypeOK
  /\ AskedInOnePass
  /\ Keys(jobs, "avatar") = avatarEncoding
  /\ Keys(jobs, "media") = mediaEncoding
  /\ Cardinality(jobs) = Cardinality(avatarEncoding) + Cardinality(mediaEncoding)

\* With no update of a file on its way or lost, the store has TDLib's state of it, or
\* has never heard of it.
StoreFollows ==
  \A f \in Files :
    f \notin lost /\ (\A k \in 1 .. Len(feed) : feed[k].file # f) =>
      known[f] \in {local[f], "unknown"}

\* A sweep by age covers no chat of a category the policy kept forever when it was
\* sent; naming no chat, it would cover them all.
SweepSparesKept ==
  \A s \in sweeps : \A c \in Covers(s) : CategoryOf[c] \notin s.spared

\* The file of a loaded message is there in the end if its chat stays open, unless
\* its start was refused, its transfer failed or a sweep took it.
EveryFileFetched ==
  \A m \in Messages :
    (m \in history /\ open = m.chat) ~>
      (local[m.file] = "present" \/ m.file \in unlucky \/ open # m.chat)

\* A message whose file is there, known to be and decodable gets its picture, if its chat
\* stays open with graphics on and no sweep takes the file, whatever else the loop tries
\* to encode again and again.
PictureComes ==
  \A m \in {n \in Messages : n.still = "file"} \ Undecodable :
    (m \in Shown(open) /\ graphics /\ known[m.file] = "present" /\ local[m.file] = "present")
    ~> (pictures[m.id] # NoPicture \/ open # m.chat \/ ~graphics \/ local[m.file] # "present"
          \/ known[m.file] # "present")

\* What an open chat shows comes: its files, and the pictures made of them.
ShownComes == EveryFileFetched /\ PictureComes

=============================================================================
