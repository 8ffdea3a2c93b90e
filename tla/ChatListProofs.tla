--------------------------- MODULE ChatListProofs ---------------------------
(***************************************************************************)
(* Proofs about ChatList, for any chats, lists, marks, messages and any    *)
(* capacity of the stream.  A chat is read field by field: its order in a  *)
(* list, a mark, whether a message is pinned.  Of each field the inductive *)
(* invariant says what it will be once the stream is folded: what the last *)
(* update that writes it says, or what the store has of it if none does.   *)
(***************************************************************************)
EXTENDS ChatList, FiniteSetTheorems, SequenceTheorems, TLAPS

USE ChatsAssumption, ListsAssumption, BoundsAssumption

Fields ==
       [kind : {"position"}, of : Lists]
  \cup [kind : {"mark"}, of : Marks]
  \cup [kind : {"pin"}, of : Messages]

\* A field of a chat; of a chat just announced without positions; and of what an update
\* writes, if it is one that writes it.
Has(chat, f) ==
  CASE f.kind = "position" -> chat.positions[f.of]
    [] f.kind = "mark" -> chat.marks[f.of]
    [] f.kind = "pin" -> IF f.of \in chat.pinned THEN 1 ELSE 0

Writes(u, c, f) ==
  u.chat = c /\
    CASE f.kind = "position" ->
           IF u.kind = "new" THEN u.state.positions # NoPositions
           ELSE u.kind # "pinned" /\ f.of \in DOMAIN u.positions
      [] f.kind = "mark" -> u.kind = "new" \/ (u.kind = "mark" /\ u.mark = f.of)
      [] f.kind = "pin" -> u.kind = "new" \/ (u.kind = "pinned" /\ u.message = f.of)

Says(u, f) ==
  CASE f.kind = "position" ->
         IF u.kind = "new" THEN u.state.positions[f.of] ELSE u.positions[f.of]
    [] f.kind = "mark" -> IF u.kind = "new" THEN u.state.marks[f.of] ELSE u.value
    [] f.kind = "pin" -> IF u.kind = "pinned" /\ u.on THEN 1 ELSE 0

Introduces(u, c) == u.kind = "new" /\ u.chat = c

\* The store knows c before the update after the first k of the queue.
KnownBy(queue, store, c, k) ==
  c \in DOMAIN store \/ \E i \in 1 .. k : Introduces(queue[i], c)

NoneWrites(queue, c, f, from) ==
  \A j \in from .. Len(queue) : ~Writes(queue[j], c, f)

\* Field f of chat c is v once the queue is folded into the store.
Arrives(queue, store, c, f, v) ==
  \/ \E k \in 1 .. Len(queue) :
       /\ Writes(queue[k], c, f) /\ Says(queue[k], f) = v
       /\ NoneWrites(queue, c, f, k + 1)
       /\ KnownBy(queue, store, c, k)
  \/ /\ NoneWrites(queue, c, f, 1)
     /\ KnownBy(queue, store, c, Len(queue))
     /\ v = IF c \in DOMAIN store THEN Has(store[c], f) ELSE 0

Comes(c, f, v) == Arrives(stream, chats, c, f, v)

\* A pin that comes is TDLib's; one of TDLib's comes unless the chat was announced again.
PinComes(c, f) ==
  \E v \in {0, 1} :
    Comes(c, f, v) /\ v <= Has(truth[c], f) /\ (c \notin repeated => v = Has(truth[c], f))

AnnouncedInv ==
  /\ IsFiniteSet(announced)
  /\ DOMAIN chats \subseteq announced
  /\ \A i \in 1 .. Len(stream) : stream[i].chat \in announced
  /\ \A x \in Loads : emitted[x] \subseteq announced
  /\ \A c \in Chats \ announced : truth[c].pinned = {}

\* While nothing is lost, every field of every chat announced comes.
WholeInv ==
  ~everLost => \A c \in announced, f \in Fields :
    IF f.kind = "pin" THEN PinComes(c, f) ELSE Comes(c, f, Has(truth[c], f))

\* While nothing is lost since the resync began, what it emits comes.
ResyncInv ==
  ~lostSince[Resync] => \A c \in emitted[Resync], f \in Fields :
    f.kind = "mark" \/ (f.kind = "position" /\ f.of = Main) => Comes(c, f, Has(truth[c], f))

IInv == TypeOK /\ AnnouncedInv /\ WholeInv /\ ResyncInv

-----------------------------------------------------------------------------
(* The fold of one update.                                                 *)

LEMMA StoreFacts ==
  ASSUME NEW s
  PROVE  s \in Store <=> /\ s = [c \in DOMAIN s |-> s[c]]
                         /\ DOMAIN s \subseteq Chats
                         /\ \A c \in DOMAIN s : s[c] \in Chat
BY DEF Store

LEMMA BlankFacts ==
  /\ NewChat \in Chat /\ NoPositions \in Positions
  /\ \A l \in Lists : NoPositions[l] = 0
BY DEF NewChat, Chat, NoPositions, Positions

\* What an update carries, by its kind.
LEMMA UpdateFacts ==
  ASSUME NEW u \in Updates
  PROVE  /\ u.chat \in Chats /\ u.kind \in {"new", "position", "mark", "pinned"}
         /\ u.kind = "new" => u.state \in Chat
         /\ u.kind \in {"position", "mark"} =>
              u.positions = [l \in DOMAIN u.positions |-> u.positions[l]]
              /\ DOMAIN u.positions \subseteq Lists
              /\ \A l \in DOMAIN u.positions : u.positions[l] \in 0 .. MaxOrder
         /\ u.kind = "mark" => u.mark \in Marks /\ u.value \in 0 .. MaxOrder
         /\ u.kind = "pinned" => u.message \in Messages /\ u.on \in BOOLEAN
<1>1. CASE u \in [kind : {"new"}, chat : Chats, state : Chat]
  BY <1>1
<1>2. CASE u \in [kind : {"position"}, chat : Chats, positions : Carried]
  BY <1>2 DEF Carried
<1>3. CASE u \in [kind : {"mark"}, chat : Chats, mark : Marks, value : 0 .. MaxOrder,
                  positions : Carried]
  BY <1>3 DEF Carried
<1>4. CASE u \in [kind : {"pinned"}, chat : Chats, message : Messages, on : BOOLEAN]
  BY <1>4
<1> QED
  BY <1>1, <1>2, <1>3, <1>4 DEF Updates

LEMMA MergeFacts ==
  ASSUME NEW p \in Positions, NEW q, DOMAIN q \subseteq Lists,
         \A l \in DOMAIN q : q[l] \in 0 .. MaxOrder
  PROVE  /\ MergePositions(p, q) \in Positions
         /\ \A l \in Lists : MergePositions(p, q)[l] = IF l \in DOMAIN q THEN q[l] ELSE p[l]
BY DEF MergePositions, Positions

\* A field by field account of a chat whose parts are known.
LEMMA FieldFacts ==
  ASSUME NEW f \in Fields
  PROVE  \/ f.kind = "position" /\ f.of \in Lists
         \/ f.kind = "mark" /\ f.of \in Marks
         \/ f.kind = "pin" /\ f.of \in Messages
BY DEF Fields

\* A reducer on a known chat writes the fields of its update and no other.
LEMMA ReducedFacts ==
  ASSUME NEW chat \in Chat, NEW u \in Updates, u.kind # "new"
  PROVE  /\ Reduced(chat, u) \in Chat
         /\ \A f \in Fields :
              Has(Reduced(chat, u), f) = IF Writes(u, u.chat, f) THEN Says(u, f) ELSE Has(chat, f)
<1>1. CASE u.kind = "position"
  <2> DEFINE p == MergePositions(chat.positions, u.positions)
  <2>1. p \in Positions /\ \A l \in Lists :
          p[l] = IF l \in DOMAIN u.positions THEN u.positions[l] ELSE chat.positions[l]
    <3>1. DOMAIN u.positions \subseteq Lists /\ \A l \in DOMAIN u.positions : u.positions[l] \in 0 .. MaxOrder
      BY <1>1, UpdateFacts
    <3>2. chat.positions \in Positions
      BY DEF Chat
    <3> QED
      BY <3>1, <3>2, MergeFacts
  <2>2. Reduced(chat, u) = [chat EXCEPT !.positions = p]
    BY <1>1 DEF Reduced
  <2> HIDE DEF p
  <2>3. /\ Reduced(chat, u) \in Chat /\ Reduced(chat, u).positions = p
        /\ Reduced(chat, u).marks = chat.marks /\ Reduced(chat, u).pinned = chat.pinned
    BY <2>1, <2>2 DEF Chat
  <2>4. ASSUME NEW f \in Fields
        PROVE  Has(Reduced(chat, u), f) = IF Writes(u, u.chat, f) THEN Says(u, f) ELSE Has(chat, f)
    <3>1. CASE f.kind = "position" /\ f.of \in Lists
      BY <1>1, <2>1, <2>3, <3>1 DEF Has, Writes, Says
    <3>2. CASE f.kind = "mark" /\ f.of \in Marks
      BY <1>1, <2>1, <2>3, <3>2 DEF Has, Writes, Says
    <3>3. CASE f.kind = "pin" /\ f.of \in Messages
      BY <1>1, <2>1, <2>3, <3>3 DEF Has, Writes, Says
    <3> QED
      BY <3>1, <3>2, <3>3, FieldFacts
  <2> QED
    BY <2>3, <2>4
<1>2. CASE u.kind = "mark"
  <2> DEFINE p == MergePositions(chat.positions, u.positions)
  <2>1. p \in Positions /\ \A l \in Lists :
          p[l] = IF l \in DOMAIN u.positions THEN u.positions[l] ELSE chat.positions[l]
    <3>1. DOMAIN u.positions \subseteq Lists /\ \A l \in DOMAIN u.positions : u.positions[l] \in 0 .. MaxOrder
      BY <1>2, UpdateFacts
    <3>2. chat.positions \in Positions
      BY DEF Chat
    <3> QED
      BY <3>1, <3>2, MergeFacts
  <2>2. Reduced(chat, u) = [chat EXCEPT !.marks[u.mark] = u.value, !.positions = p]
    BY <1>2 DEF Reduced
  <2>3. u.mark \in Marks /\ u.value \in 0 .. MaxOrder
    BY <1>2, UpdateFacts
  <2> HIDE DEF p
  <2>4. /\ Reduced(chat, u) \in Chat /\ Reduced(chat, u).positions = p
        /\ Reduced(chat, u).marks = [chat.marks EXCEPT ![u.mark] = u.value]
        /\ Reduced(chat, u).pinned = chat.pinned
    <3> DEFINE m == [chat.marks EXCEPT ![u.mark] = u.value]
    <3>1. m \in [Marks -> 0 .. MaxOrder]
      BY <2>3 DEF Chat
    <3>2. Reduced(chat, u) = [chat EXCEPT !.marks = m, !.positions = p]
      BY <2>2
    <3> HIDE DEF m
    <3>3. Reduced(chat, u) \in Chat /\ Reduced(chat, u).positions = p /\ Reduced(chat, u).marks = m
          /\ Reduced(chat, u).pinned = chat.pinned
      BY <2>1, <3>1, <3>2 DEF Chat
    <3> QED
      BY <3>3 DEF m
  <2>5. \A m \in Marks : Reduced(chat, u).marks[m] = IF m = u.mark THEN u.value ELSE chat.marks[m]
    BY <2>3, <2>4 DEF Chat
  <2>6. ASSUME NEW f \in Fields
        PROVE  Has(Reduced(chat, u), f) = IF Writes(u, u.chat, f) THEN Says(u, f) ELSE Has(chat, f)
    <3>1. CASE f.kind = "position" /\ f.of \in Lists
      BY <1>2, <2>1, <2>4, <2>5, <3>1 DEF Has, Writes, Says
    <3>2. CASE f.kind = "mark" /\ f.of \in Marks
      BY <1>2, <2>1, <2>4, <2>5, <3>2 DEF Has, Writes, Says
    <3>3. CASE f.kind = "pin" /\ f.of \in Messages
      BY <1>2, <2>1, <2>4, <2>5, <3>3 DEF Has, Writes, Says
    <3> QED
      BY <3>1, <3>2, <3>3, FieldFacts
  <2> QED
    BY <2>4, <2>6
<1>3. CASE u.kind = "pinned"
  <2>1. Reduced(chat, u) = [chat EXCEPT !.pinned = SetPinned(@, u.message, u.on)]
    BY <1>3 DEF Reduced
  <2>2. u.message \in Messages /\ u.on \in BOOLEAN
    BY <1>3, UpdateFacts
  <2>3. /\ Reduced(chat, u) \in Chat /\ Reduced(chat, u).positions = chat.positions
        /\ Reduced(chat, u).marks = chat.marks
        /\ Reduced(chat, u).pinned = SetPinned(chat.pinned, u.message, u.on)
    BY <2>1, <2>2 DEF Chat, SetPinned
  <2>4. ASSUME NEW f \in Fields
        PROVE  Has(Reduced(chat, u), f) = IF Writes(u, u.chat, f) THEN Says(u, f) ELSE Has(chat, f)
    <3>1. CASE f.kind = "position" /\ f.of \in Lists
      BY <1>3, <2>2, <2>3, <3>1 DEF Has, Writes, Says, SetPinned
    <3>2. CASE f.kind = "mark" /\ f.of \in Marks
      BY <1>3, <2>2, <2>3, <3>2 DEF Has, Writes, Says, SetPinned
    <3>3. CASE f.kind = "pin" /\ f.of \in Messages
      BY <1>3, <2>2, <2>3, <3>3 DEF Has, Writes, Says, SetPinned
    <3> QED
      BY <3>1, <3>2, <3>3, FieldFacts
  <2> QED
    BY <2>3, <2>4
<1>4. u.kind \in {"new", "position", "mark", "pinned"}
  BY UpdateFacts
<1> QED
  BY <1>1, <1>2, <1>3, <1>4

\* An announcement replaces the chat but for positions it does not carry.
LEMMA UpsertFacts ==
  ASSUME NEW store \in Store, NEW u \in Updates, u.kind = "new"
  PROVE  \E chat \in Chat :
           /\ Reduce(store, u) = Inserted(store, u.chat, chat)
           /\ \A f \in Fields :
                Has(chat, f) = IF Writes(u, u.chat, f) THEN Says(u, f)
                               ELSE IF u.chat \in DOMAIN store THEN Has(store[u.chat], f) ELSE 0
<1> DEFINE fresh == [u.state EXCEPT !.pinned = {}]
           kept == IF fresh.positions = NoPositions /\ u.chat \in DOMAIN store
                   THEN [fresh EXCEPT !.positions = store[u.chat].positions]
                   ELSE fresh
<1>1. u.state \in Chat
  BY UpdateFacts
<1>2. fresh \in Chat /\ fresh.positions = u.state.positions /\ fresh.marks = u.state.marks
      /\ fresh.pinned = {}
  BY <1>1 DEF Chat
<1>3. Reduce(store, u) = Inserted(store, u.chat, kept)
  BY DEF Reduce, Upsert, FromTdlib
<1>4. u.chat \in DOMAIN store => store[u.chat] \in Chat
  BY StoreFacts
<1> HIDE DEF fresh
<1>5. CASE fresh.positions = NoPositions /\ u.chat \in DOMAIN store
  <2>1. kept = [fresh EXCEPT !.positions = store[u.chat].positions]
    BY <1>5
  <2> HIDE DEF kept
  <2>2. kept \in Chat /\ kept.positions = store[u.chat].positions /\ kept.marks = u.state.marks
        /\ kept.pinned = {}
    BY <1>2, <1>4, <1>5, <2>1 DEF Chat
  <2>3. \A f \in Fields : Has(kept, f) = IF Writes(u, u.chat, f) THEN Says(u, f) ELSE Has(store[u.chat], f)
    BY <1>2, <1>5, <2>2 DEF Fields, Has, Writes, Says
  <2> QED
    BY <1>3, <1>5, <2>2, <2>3
<1>6. CASE ~(fresh.positions = NoPositions /\ u.chat \in DOMAIN store)
  <2>1. kept = fresh
    BY <1>6
  <2> HIDE DEF kept
  <2>2. \A f \in Fields : Has(kept, f) = IF Writes(u, u.chat, f) THEN Says(u, f)
                                         ELSE IF u.chat \in DOMAIN store THEN Has(store[u.chat], f) ELSE 0
    BY <1>2, <1>6, <2>1, BlankFacts DEF Fields, Has, Writes, Says
  <2> QED
    BY <1>2, <1>3, <2>1, <2>2
<1> QED
  BY <1>5, <1>6

\* One update folded: the fields it writes are as it says, and a chat comes in only by
\* an announcement.
LEMMA ReduceFacts ==
  ASSUME NEW store \in Store, NEW u \in Updates
  PROVE  /\ Reduce(store, u) \in Store
         /\ DOMAIN Reduce(store, u) =
              IF u.kind = "new" THEN DOMAIN store \cup {u.chat} ELSE DOMAIN store
         /\ \A c \in DOMAIN Reduce(store, u), f \in Fields :
              Has(Reduce(store, u)[c], f) =
                IF Writes(u, c, f) THEN Says(u, f)
                ELSE IF c \in DOMAIN store THEN Has(store[c], f) ELSE 0
<1>0. /\ DOMAIN store \subseteq Chats /\ \A c \in DOMAIN store : store[c] \in Chat
      /\ u.chat \in Chats /\ \A c, f : c # u.chat => ~Writes(u, c, f)
  BY StoreFacts, UpdateFacts DEF Writes
<1>1. CASE u.kind = "new"
  <2>1. PICK chat \in Chat :
           /\ Reduce(store, u) = Inserted(store, u.chat, chat)
           /\ \A f \in Fields :
                Has(chat, f) = IF Writes(u, u.chat, f) THEN Says(u, f)
                               ELSE IF u.chat \in DOMAIN store THEN Has(store[u.chat], f) ELSE 0
    BY <1>1, UpsertFacts
  <2> DEFINE after == Reduce(store, u)
  <2>2. after = [d \in DOMAIN store \cup {u.chat} |-> IF d = u.chat THEN chat ELSE store[d]]
    BY <2>1 DEF Inserted
  <2> HIDE DEF after
  <2>3. after \in Store
    BY <1>0, <2>2, StoreFacts
  <2>4. DOMAIN after = DOMAIN store \cup {u.chat}
    BY <2>2
  <2>5. ASSUME NEW c \in DOMAIN after, NEW f \in Fields
        PROVE  Has(after[c], f) = IF Writes(u, c, f) THEN Says(u, f)
                                  ELSE IF c \in DOMAIN store THEN Has(store[c], f) ELSE 0
    <3>1. CASE c = u.chat
      BY <2>1, <2>2, <2>4, <3>1
    <3>2. CASE c # u.chat
      BY <1>0, <2>2, <2>4, <3>2
    <3> QED
      BY <3>1, <3>2
  <2> QED
    BY <1>1, <2>3, <2>4, <2>5 DEF after
<1>2. CASE u.kind # "new" /\ u.chat \in DOMAIN store
  <2>1. Reduce(store, u) = [store EXCEPT ![u.chat] = Reduced(@, u)]
    BY <1>2 DEF Reduce
  <2>2. /\ Reduced(store[u.chat], u) \in Chat
        /\ \A f \in Fields : Has(Reduced(store[u.chat], u), f) =
             IF Writes(u, u.chat, f) THEN Says(u, f) ELSE Has(store[u.chat], f)
    BY <1>0, <1>2, ReducedFacts
  <2> DEFINE after == Reduce(store, u)
  <2>3. after = [c \in DOMAIN store |-> IF c = u.chat THEN Reduced(store[c], u) ELSE store[c]]
    BY <2>1, StoreFacts
  <2> HIDE DEF after
  <2>4. after \in Store
    BY <1>0, <2>2, <2>3, StoreFacts
  <2>5. ASSUME NEW c \in DOMAIN after, NEW f \in Fields
        PROVE  Has(after[c], f) = IF Writes(u, c, f) THEN Says(u, f) ELSE Has(store[c], f)
    <3>1. CASE c = u.chat
      BY <1>2, <2>2, <2>3, <3>1
    <3>2. CASE c # u.chat
      BY <1>0, <2>3, <3>2
    <3> QED
      BY <3>1, <3>2
  <2> QED
    BY <1>2, <2>3, <2>4, <2>5 DEF after
<1>3. CASE u.kind # "new" /\ u.chat \notin DOMAIN store
  <2>1. Reduce(store, u) = store
    BY <1>3 DEF Reduce
  <2> QED
    BY <1>0, <1>3, <2>1
<1> QED
  BY <1>1, <1>2, <1>3

-----------------------------------------------------------------------------
(* What the queue still says of a field, as it is folded and as it grows.  *)

\* Folding the first update leaves what is to come as it is.
LEMMA TakeArrives ==
  ASSUME NEW store \in Store, NEW queue \in Seq(Updates), queue # << >>,
         NEW c \in Chats, NEW f \in Fields, NEW v, Arrives(queue, store, c, f, v)
  PROVE  Arrives(Tail(queue), Reduce(store, Head(queue)), c, f, v)
<1> DEFINE u == queue[1]
           q == Tail(queue)
           s == Reduce(store, u)
<1>1. u \in Updates /\ Head(queue) = u /\ Len(queue) \in Nat \ {0}
  OBVIOUS
<1>2. Len(q) = Len(queue) - 1 /\ \A i \in 1 .. Len(q) : q[i] = queue[i + 1]
  OBVIOUS
<1>3. /\ DOMAIN store \subseteq DOMAIN s /\ (Introduces(u, c) => c \in DOMAIN s)
      /\ c \in DOMAIN s => Has(s[c], f) = IF Writes(u, c, f) THEN Says(u, f)
                                          ELSE IF c \in DOMAIN store THEN Has(store[c], f) ELSE 0
  <2> HIDE DEF u
  <2>0. u \in Updates
    BY <1>1
  <2>1. /\ DOMAIN s = IF u.kind = "new" THEN DOMAIN store \cup {u.chat} ELSE DOMAIN store
        /\ \A d \in DOMAIN s, g \in Fields :
             Has(s[d], g) = IF Writes(u, d, g) THEN Says(u, g)
                            ELSE IF d \in DOMAIN store THEN Has(store[d], g) ELSE 0
    BY <2>0, ReduceFacts
  <2> HIDE DEF s
  <2> QED
    BY <2>1 DEF Introduces
<1> HIDE DEF q, s, u
<1>4. \A i \in 2 .. Len(queue) : i - 1 \in 1 .. Len(q) /\ q[i - 1] = queue[i]
  BY <1>1, <1>2
<1>5. ASSUME NEW k \in 1 .. Len(queue), KnownBy(queue, store, c, k)
      PROVE  KnownBy(q, s, c, k - 1)
  <2>1. CASE c \in DOMAIN store
    BY <1>3, <2>1 DEF KnownBy
  <2>2. CASE c \notin DOMAIN store
    <3>1. PICK i \in 1 .. k : Introduces(queue[i], c)
      BY <1>5, <2>2 DEF KnownBy
    <3>2. CASE i = 1
      BY <1>3, <3>1, <3>2 DEF KnownBy, u
    <3>3. CASE i # 1
      <4>1. i \in 2 .. Len(queue) /\ i - 1 \in 1 .. (k - 1)
        BY <1>1, <3>3
      <4> QED
        BY <1>4, <3>1, <4>1 DEF KnownBy
    <3> QED
      BY <3>2, <3>3
  <2> QED
    BY <2>1, <2>2
<1>6. ASSUME NEW k \in 1 .. Len(queue), NoneWrites(queue, c, f, k + 1)
      PROVE  NoneWrites(q, c, f, k)
  BY <1>1, <1>2, <1>6 DEF NoneWrites
<1>7. CASE \E k \in 1 .. Len(queue) :
             /\ Writes(queue[k], c, f) /\ Says(queue[k], f) = v
             /\ NoneWrites(queue, c, f, k + 1)
             /\ KnownBy(queue, store, c, k)
  <2>1. PICK k \in 1 .. Len(queue) :
             /\ Writes(queue[k], c, f) /\ Says(queue[k], f) = v
             /\ NoneWrites(queue, c, f, k + 1)
             /\ KnownBy(queue, store, c, k)
    BY <1>7
  <2>2. NoneWrites(q, c, f, k) /\ KnownBy(q, s, c, k - 1)
    BY <1>5, <1>6, <2>1
  <2>3. CASE k = 1
    <3>1. c \in DOMAIN s
      BY <2>2, <2>3 DEF KnownBy
    <3>2. Has(s[c], f) = v
      BY <1>3, <2>1, <2>3, <3>1 DEF u
    <3>3. KnownBy(q, s, c, Len(q))
      BY <3>1 DEF KnownBy
    <3> QED
      BY <2>2, <2>3, <3>1, <3>2, <3>3, <1>1 DEF Arrives, q, s
  <2>4. CASE k # 1
    <3>1. k - 1 \in 1 .. Len(q) /\ q[k - 1] = queue[k] /\ k - 1 + 1 = k
      BY <1>1, <1>4, <2>4
    <3>2. Arrives(q, s, c, f, v)
      BY <2>1, <2>2, <3>1 DEF Arrives
    <3> QED
      BY <1>1, <3>2 DEF q, s
  <2> QED
    BY <2>3, <2>4
<1>8. CASE /\ NoneWrites(queue, c, f, 1)
           /\ KnownBy(queue, store, c, Len(queue))
           /\ v = IF c \in DOMAIN store THEN Has(store[c], f) ELSE 0
  <2>1. ~Writes(u, c, f) /\ NoneWrites(queue, c, f, 2)
    BY <1>1, <1>8 DEF NoneWrites, u
  <2>2. NoneWrites(q, c, f, 1)
    <3>1. 1 \in 1 .. Len(queue) /\ 1 + 1 = 2
      BY <1>1
    <3> QED
      BY <1>6, <2>1, <3>1
  <2>3. KnownBy(q, s, c, Len(q))
    <3>1. Len(queue) \in 1 .. Len(queue)
      BY <1>1
    <3> QED
      BY <1>2, <1>5, <1>8, <3>1
  <2>4. v = IF c \in DOMAIN s THEN Has(s[c], f) ELSE 0
    BY <1>3, <1>8, <2>1
  <2> QED
    BY <1>1, <2>2, <2>3, <2>4 DEF Arrives, q, s
<1> QED
  BY <1>7, <1>8 DEF Arrives

LEMMA AppendFacts ==
  ASSUME NEW queue \in Seq(Updates), NEW u \in Updates
  PROVE  /\ Append(queue, u) \in Seq(Updates) /\ Len(queue) \in Nat
         /\ Len(Append(queue, u)) = Len(queue) + 1
         /\ Append(queue, u)[Len(queue) + 1] = u
         /\ \A i \in 1 .. Len(queue) : Append(queue, u)[i] = queue[i]
OBVIOUS

\* A chat known to the queue stays known to a longer one.
LEMMA AppendKnown ==
  ASSUME NEW store, NEW queue \in Seq(Updates), NEW u \in Updates, NEW c,
         NEW k \in 0 .. Len(queue), NEW l \in k .. Len(queue) + 1,
         KnownBy(queue, store, c, k)
  PROVE  KnownBy(Append(queue, u), store, c, l)
<1>1. \A i \in 1 .. k : i \in 1 .. l /\ Append(queue, u)[i] = queue[i]
  BY AppendFacts
<1> QED
  BY <1>1 DEF KnownBy

LEMMA ArrivesKnown ==
  ASSUME NEW store, NEW queue \in Seq(Updates), NEW c, NEW f, NEW v,
         Arrives(queue, store, c, f, v)
  PROVE  KnownBy(queue, store, c, Len(queue))
<1>1. \A k \in 1 .. Len(queue) : \A i \in 1 .. k : i \in 1 .. Len(queue)
  OBVIOUS
<1> QED
  BY <1>1 DEF Arrives, KnownBy

\* An update that writes the field of a known chat, or announces the chat, decides it.
LEMMA WrittenArrives ==
  ASSUME NEW store, NEW queue \in Seq(Updates), NEW u \in Updates, NEW c, NEW f,
         Writes(u, c, f), Introduces(u, c) \/ KnownBy(queue, store, c, Len(queue))
  PROVE  Arrives(Append(queue, u), store, c, f, Says(u, f))
<1> DEFINE k == Len(queue) + 1
           q == Append(queue, u)
<1>1. k \in 1 .. Len(q) /\ q[k] = u /\ Len(q) = k /\ Len(queue) \in Nat
  BY AppendFacts
<1>2. KnownBy(q, store, c, k)
  <2>1. CASE Introduces(u, c)
    BY <1>1, <2>1 DEF KnownBy
  <2>2. CASE KnownBy(queue, store, c, Len(queue))
    <3>1. Len(queue) \in 0 .. Len(queue) /\ k \in Len(queue) .. Len(queue) + 1
      BY <1>1
    <3> QED
      BY <2>2, <3>1, AppendKnown
  <2> QED
    BY <2>1, <2>2
<1> HIDE DEF k, q
<1>3. NoneWrites(q, c, f, k + 1)
  BY <1>1 DEF NoneWrites, k
<1> QED
  BY <1>1, <1>2, <1>3 DEF Arrives, q

\* An update that does not leaves it to what was there.
LEMMA UnwrittenArrives ==
  ASSUME NEW store, NEW queue \in Seq(Updates), NEW u \in Updates, NEW c, NEW f, NEW v,
         ~Writes(u, c, f), Arrives(queue, store, c, f, v)
  PROVE  Arrives(Append(queue, u), store, c, f, v)
<1> DEFINE q == Append(queue, u)
<1>1. /\ Len(q) = Len(queue) + 1 /\ q[Len(queue) + 1] = u /\ Len(queue) \in Nat
      /\ \A i \in 1 .. Len(queue) : q[i] = queue[i]
  BY AppendFacts
<1> HIDE DEF q
<1>2. ASSUME NEW k \in 1 .. Len(queue) + 1, NoneWrites(queue, c, f, k)
      PROVE  NoneWrites(q, c, f, k)
  <2>1. \A j \in k .. Len(q) : j = Len(queue) + 1 \/ (j \in k .. Len(queue) /\ j \in 1 .. Len(queue))
    BY <1>1
  <2> QED
    BY <1>1, <1>2, <2>1 DEF NoneWrites
<1>3. CASE \E k \in 1 .. Len(queue) :
             /\ Writes(queue[k], c, f) /\ Says(queue[k], f) = v
             /\ NoneWrites(queue, c, f, k + 1)
             /\ KnownBy(queue, store, c, k)
  <2>1. PICK k \in 1 .. Len(queue) :
             /\ Writes(queue[k], c, f) /\ Says(queue[k], f) = v
             /\ NoneWrites(queue, c, f, k + 1)
             /\ KnownBy(queue, store, c, k)
    BY <1>3
  <2>2. k \in 1 .. Len(q) /\ q[k] = queue[k] /\ k + 1 \in 1 .. Len(queue) + 1
        /\ k \in 0 .. Len(queue) /\ k \in k .. Len(queue) + 1
    BY <1>1
  <2>3. KnownBy(q, store, c, k)
    BY <2>1, <2>2, AppendKnown DEF q
  <2>4. Arrives(q, store, c, f, v)
    BY <1>2, <2>1, <2>2, <2>3 DEF Arrives
  <2> QED
    BY <2>4 DEF q
<1>4. CASE /\ NoneWrites(queue, c, f, 1)
           /\ KnownBy(queue, store, c, Len(queue))
           /\ v = IF c \in DOMAIN store THEN Has(store[c], f) ELSE 0
  <2>1. 1 \in 1 .. Len(queue) + 1 /\ Len(queue) \in 0 .. Len(queue) /\ Len(q) \in Len(queue) .. Len(queue) + 1
    BY <1>1
  <2>2. KnownBy(q, store, c, Len(q))
    BY <1>4, <2>1, AppendKnown DEF q
  <2>3. Arrives(q, store, c, f, v)
    BY <1>2, <1>4, <2>1, <2>2 DEF Arrives
  <2> QED
    BY <2>3 DEF q
<1> QED
  BY <1>3, <1>4 DEF Arrives

\* The first announcement of a chat leaves blank what it does not write.
LEMMA FirstArrives ==
  ASSUME NEW store, NEW queue \in Seq(Updates), NEW u \in Updates, NEW c, NEW f,
         Introduces(u, c), ~Writes(u, c, f), c \notin DOMAIN store,
         \A i \in 1 .. Len(queue) : queue[i].chat # c
  PROVE  Arrives(Append(queue, u), store, c, f, 0)
<1> DEFINE q == Append(queue, u)
<1>1. /\ Len(q) = Len(queue) + 1 /\ q[Len(queue) + 1] = u /\ Len(queue) \in Nat
      /\ \A i \in 1 .. Len(queue) : q[i] = queue[i]
  BY AppendFacts
<1> HIDE DEF q
<1>2. \A j \in 1 .. Len(q) : j = Len(queue) + 1 \/ j \in 1 .. Len(queue)
  BY <1>1
<1>3. NoneWrites(q, c, f, 1)
  BY <1>1, <1>2 DEF NoneWrites, Writes
<1>4. KnownBy(q, store, c, Len(q))
  BY <1>1 DEF KnownBy
<1>5. Arrives(q, store, c, f, 0)
  BY <1>3, <1>4 DEF Arrives
<1> QED
  BY <1>5 DEF q

\* With nothing to come, the store has it.
LEMMA EmptyArrives ==
  ASSUME NEW store, NEW c, NEW f, NEW v, Arrives(<< >>, store, c, f, v)
  PROVE  c \in DOMAIN store /\ Has(store[c], f) = v
BY DEF Arrives, KnownBy, NoneWrites

-----------------------------------------------------------------------------
(* What TDLib sends.                                                       *)

\* The channel drops from its front what it has no room for, and says so.
LEMMA SendFacts ==
  ASSUME TypeOK, NEW updates \in Seq(Updates), Send(updates)
  PROVE  /\ stream' \in Seq(Updates) /\ Len(stream') <= Capacity
         /\ \A i \in 1 .. Len(stream') :
              \/ \E j \in 1 .. Len(stream) : stream'[i] = stream[j]
              \/ \E j \in 1 .. Len(updates) : stream'[i] = updates[j]
         /\ everLost' \in BOOLEAN /\ lostSince' \in [Loads -> BOOLEAN]
         /\ ~everLost' => ~everLost /\ stream' = stream \o updates
         /\ ~lostSince'[Resync] => ~lostSince[Resync] /\ stream' = stream \o updates
<1> DEFINE all == stream \o updates
           over == IF Len(all) > Capacity THEN Len(all) - Capacity ELSE 0
<1>1. /\ stream' = SubSeq(all, over + 1, Len(all))
      /\ everLost' = (everLost \/ over > 0)
      /\ lostSince' = [x \in Loads |-> lostSince[x] \/ over > 0]
  BY DEF Send
<1>2. /\ stream \in Seq(Updates) /\ everLost \in BOOLEAN /\ lostSince \in [Loads -> BOOLEAN]
      /\ Resync \in Loads
  BY DEF TypeOK, Loads
<1>3. all \in Seq(Updates) /\ Len(all) = Len(stream) + Len(updates)
  BY <1>2
<1>4. \A i \in 1 .. Len(all) :
        \/ \E j \in 1 .. Len(stream) : all[i] = stream[j]
        \/ \E j \in 1 .. Len(updates) : all[i] = updates[j]
  <2>1. TAKE i \in 1 .. Len(all)
  <2>2. CASE i <= Len(stream)
    <3>1. i \in 1 .. Len(stream) /\ all[i] = stream[i]
      BY <1>2, <1>3, <2>2
    <3> QED
      BY <3>1
  <2>3. CASE i > Len(stream)
    <3>1. i - Len(stream) \in 1 .. Len(updates) /\ all[i] = updates[i - Len(stream)]
      BY <1>2, <1>3, <2>3
    <3> QED
      BY <3>1
  <2> QED
    BY <1>2, <2>2, <2>3
<1> HIDE DEF all
<1>5. over \in Nat /\ Len(all) \in Nat /\ over <= Len(all) /\ Len(all) - over <= Capacity
  BY <1>3
<1> HIDE DEF over
<1>6. /\ stream' \in Seq(Updates) /\ Len(stream') = Len(all) - over
      /\ \A i \in 1 .. Len(stream') : stream'[i] = all[i + over] /\ i + over \in 1 .. Len(all)
  BY <1>1, <1>3, <1>5
<1>7. over = 0 => stream' = all
  BY <1>1, <1>3, <1>5, <1>6
<1> DEFINE cost == over > 0
<1>8. cost \in BOOLEAN /\ (~cost => over = 0)
  BY <1>5
<1>9. /\ everLost' = (everLost \/ cost)
      /\ lostSince' = [x \in Loads |-> lostSince[x] \/ cost]
  BY <1>1
<1> HIDE DEF cost
<1>10. everLost' \in BOOLEAN /\ (~everLost' => ~everLost /\ over = 0)
  BY <1>2, <1>8, <1>9, Zenon
<1>11. lostSince' \in [Loads -> BOOLEAN] /\ (~lostSince'[Resync] => ~lostSince[Resync] /\ over = 0)
  BY <1>2, <1>8, <1>9, Zenon
<1> QED
  BY <1>4, <1>5, <1>6, <1>7, <1>10, <1>11 DEF all

\* One update, or two, at the end of the stream.
LEMMA AppendedOnce ==
  ASSUME NEW queue \in Seq(Updates), NEW u \in Updates
  PROVE  queue \o <<u>> = Append(queue, u) /\ <<u>> \in Seq(Updates)
OBVIOUS

LEMMA AppendedTwice ==
  ASSUME NEW queue \in Seq(Updates), NEW u \in Updates, NEW w \in Updates
  PROVE  queue \o <<u, w>> = Append(Append(queue, u), w) /\ <<u, w>> \in Seq(Updates)
<1>1. <<u, w>> \in Seq(Updates) /\ Len(<<u, w>>) = 2
  OBVIOUS
<1>2. queue \o <<u, w>> \in Seq(Updates) /\ Append(Append(queue, u), w) \in Seq(Updates)
  BY <1>1
<1>3. Len(queue \o <<u, w>>) = Len(Append(Append(queue, u), w))
  BY <1>1
<1>4. \A i \in 1 .. Len(queue \o <<u, w>>) : (queue \o <<u, w>>)[i] = Append(Append(queue, u), w)[i]
  BY <1>1
<1> QED
  BY <1>1, <1>2, <1>3, <1>4, SeqEqual

\* An announcement says all of a chat but its pins, and its positions only if it is to.
LEMMA AnnouncementFacts ==
  ASSUME TypeOK, NEW c \in Chats, NEW p \in {NoPositions, truth[c].positions}
  PROVE  /\ Announcement(c, p) \in Updates /\ Introduces(Announcement(c, p), c)
         /\ Announcement(c, p).chat = c
         /\ \A f \in Fields :
              /\ f.kind # "position" => Writes(Announcement(c, p), c, f)
              /\ f.kind = "position" => (Writes(Announcement(c, p), c, f) <=> p # NoPositions)
              /\ Writes(Announcement(c, p), c, f) =>
                   Says(Announcement(c, p), f) = IF f.kind = "pin" THEN 0 ELSE Has(truth[c], f)
<1>1. truth[c] \in Chat /\ p \in Positions
  BY BlankFacts DEF TypeOK, Chat
<1> DEFINE s == [truth[c] EXCEPT !.positions = p]
           u == Announcement(c, p)
<1>2. s \in Chat /\ s.positions = p /\ s.marks = truth[c].marks /\ s.pinned = truth[c].pinned
  BY <1>1 DEF Chat
<1>3. u = [kind |-> "new", chat |-> c, state |-> s]
  BY DEF Announcement
<1> HIDE DEF s
<1>4. u \in Updates /\ u.kind = "new" /\ u.chat = c /\ u.state = s
  BY <1>2, <1>3 DEF Updates
<1> HIDE DEF u
<1>5. ASSUME NEW f \in Fields
      PROVE  /\ f.kind # "position" => Writes(u, c, f)
             /\ f.kind = "position" => (Writes(u, c, f) <=> p # NoPositions)
             /\ Writes(u, c, f) => Says(u, f) = IF f.kind = "pin" THEN 0 ELSE Has(truth[c], f)
  <2>1. CASE f.kind = "position"
    BY <1>2, <1>4, <2>1 DEF Writes, Says, Has
  <2>2. CASE f.kind = "mark"
    BY <1>2, <1>4, <2>2 DEF Writes, Says, Has
  <2>3. CASE f.kind = "pin"
    BY <1>2, <1>4, <2>3 DEF Writes, Says, Has
  <2> QED
    BY <2>1, <2>2, <2>3, FieldFacts
<1> QED
  BY <1>4, <1>5 DEF Introduces, u

PlacedUpdate(c) == [kind |-> "position", chat |-> c, positions |-> Placed(c)]

\* The placing of a chat says its order in the lists it is in.
LEMMA PlacedFacts ==
  ASSUME TypeOK, NEW c \in Chats
  PROVE  /\ PlacedUpdate(c) \in Updates /\ PlacedUpdate(c).chat = c
         /\ \A f \in Fields :
              /\ f.kind # "position" => ~Writes(PlacedUpdate(c), c, f)
              /\ f.kind = "position" => (Writes(PlacedUpdate(c), c, f) <=> Has(truth[c], f) # 0)
              /\ Writes(PlacedUpdate(c), c, f) => Says(PlacedUpdate(c), f) = Has(truth[c], f)
<1>1. truth[c] \in Chat
  BY DEF TypeOK
<1> DEFINE in == {l \in Lists : truth[c].positions[l] # 0}
           u == PlacedUpdate(c)
<1>2. Placed(c) = [l \in in |-> truth[c].positions[l]]
  BY DEF Placed
<1>3. in \in SUBSET Lists /\ \A l \in in : truth[c].positions[l] \in 0 .. MaxOrder
  BY <1>1 DEF Chat, Positions
<1>4. Placed(c) \in Carried
  <2> HIDE DEF in
  <2>1. Placed(c) \in [in -> 0 .. MaxOrder]
    BY <1>2, <1>3
  <2> QED
    BY <1>3, <2>1 DEF Carried
<1>5. u \in Updates /\ u.kind = "position" /\ u.chat = c /\ u.positions = Placed(c)
  BY <1>4 DEF Updates, PlacedUpdate
<1> HIDE DEF u
<1>6. ASSUME NEW f \in Fields
      PROVE  /\ f.kind # "position" => ~Writes(u, c, f)
             /\ f.kind = "position" => (Writes(u, c, f) <=> Has(truth[c], f) # 0)
             /\ Writes(u, c, f) => Says(u, f) = Has(truth[c], f)
  <2>1. CASE f.kind = "position" /\ f.of \in Lists
    BY <1>2, <1>5, <2>1 DEF Writes, Says, Has
  <2>2. CASE f.kind = "mark"
    BY <1>5, <2>2 DEF Writes
  <2>3. CASE f.kind = "pin"
    BY <1>5, <2>3 DEF Writes
  <2> QED
    BY <2>1, <2>2, <2>3, FieldFacts
<1> QED
  BY <1>5, <1>6 DEF u

\* An update about one chat leaves the others to what is to come for them.
LEMMA OthersArrive ==
  ASSUME NEW store, NEW queue \in Seq(Updates), NEW u \in Updates, NEW d, u.chat # d, NEW f, NEW v,
         Arrives(queue, store, d, f, v)
  PROVE  Arrives(Append(queue, u), store, d, f, v)
BY UnwrittenArrives DEF Writes

LEMMA IntroducedKnown ==
  ASSUME NEW store, NEW queue \in Seq(Updates), NEW u \in Updates, NEW c, Introduces(u, c)
  PROVE  KnownBy(Append(queue, u), store, c, Len(Append(queue, u)))
<1>1. /\ Len(Append(queue, u)) = Len(queue) + 1 /\ Append(queue, u)[Len(queue) + 1] = u
      /\ Len(queue) \in Nat
  BY AppendFacts
<1>2. Len(queue) + 1 \in 1 .. Len(Append(queue, u))
  BY <1>1
<1> QED
  BY <1>1, <1>2 DEF KnownBy

\* Of a chat never announced there is nothing in the store or in the stream.
LEMMA UnannouncedFacts ==
  ASSUME AnnouncedInv, NEW c \in Chats, c \notin announced
  PROVE  /\ c \notin DOMAIN chats /\ \A i \in 1 .. Len(stream) : stream[i].chat # c
         /\ truth[c].pinned = {}
BY DEF AnnouncedInv

\* An announcement, the first or a repeated one, with the chat's positions or without any,
\* leaves to come what TDLib has.
LEMMA AnnouncementComes ==
  ASSUME TypeOK, AnnouncedInv, NEW c \in Chats, NEW p \in {NoPositions, truth[c].positions},
         c \in announced \/ p = truth[c].positions,
         NEW d \in announced \cup {c}, NEW f \in Fields, f.kind # "pin",
         d \in announced => Comes(d, f, Has(truth[d], f))
  PROVE  Arrives(Append(stream, Announcement(c, p)), chats, d, f, Has(truth[d], f))
<1> DEFINE u == Announcement(c, p)
<1>1. /\ u \in Updates /\ Introduces(u, c) /\ u.chat = c /\ stream \in Seq(Updates)
      /\ f.kind # "position" => Writes(u, c, f)
      /\ f.kind = "position" => (Writes(u, c, f) <=> p # NoPositions)
      /\ Writes(u, c, f) => Says(u, f) = Has(truth[c], f)
  BY AnnouncementFacts DEF TypeOK
<1> HIDE DEF u
<1>2. CASE d # c
  <2>1. Arrives(Append(stream, u), chats, d, f, Has(truth[d], f))
    BY <1>1, <1>2, OthersArrive DEF Comes
  <2> QED
    BY <2>1 DEF u
<1>3. CASE d = c /\ Writes(u, c, f)
  <2>1. Arrives(Append(stream, u), chats, c, f, Says(u, f))
    BY <1>1, <1>3, WrittenArrives
  <2> QED
    BY <1>1, <1>3, <2>1 DEF u
<1>4. CASE d = c /\ ~Writes(u, c, f) /\ c \in announced
  <2>1. Arrives(Append(stream, u), chats, d, f, Has(truth[d], f))
    BY <1>1, <1>4, UnwrittenArrives DEF Comes
  <2> QED
    BY <2>1 DEF u
<1>5. CASE d = c /\ ~Writes(u, c, f) /\ c \notin announced
  <2>1. f.kind = "position" /\ f.of \in Lists /\ truth[c].positions = NoPositions
    BY <1>1, <1>5, FieldFacts
  <2>2. Has(truth[c], f) = 0
    BY <2>1, BlankFacts DEF Has
  <2>3. c \notin DOMAIN chats /\ \A i \in 1 .. Len(stream) : stream[i].chat # c
    BY <1>5, UnannouncedFacts
  <2>4. Arrives(Append(stream, u), chats, c, f, 0)
    BY <1>1, <1>5, <2>3, FirstArrives
  <2> QED
    BY <1>5, <2>2, <2>4 DEF u
<1> QED
  BY <1>2, <1>3, <1>4, <1>5

\* A chat placed keeps what is to come, or gets it.
LEMMA PlacedComes ==
  ASSUME TypeOK, NEW c \in Chats, NEW queue \in Seq(Updates), NEW d, NEW f \in Fields,
         d = c => KnownBy(queue, chats, c, Len(queue)),
         \/ Arrives(queue, chats, d, f, Has(truth[d], f))
         \/ d = c /\ f.kind = "position" /\ Has(truth[c], f) # 0
  PROVE  Arrives(Append(queue, PlacedUpdate(c)), chats, d, f, Has(truth[d], f))
<1> DEFINE u == PlacedUpdate(c)
<1>1. /\ u \in Updates /\ u.chat = c
      /\ f.kind # "position" => ~Writes(u, c, f)
      /\ f.kind = "position" => (Writes(u, c, f) <=> Has(truth[c], f) # 0)
      /\ Writes(u, c, f) => Says(u, f) = Has(truth[c], f)
  BY PlacedFacts
<1> HIDE DEF u
<1>2. CASE d = c /\ Writes(u, c, f)
  <2>1. Arrives(Append(queue, u), chats, c, f, Says(u, f))
    BY <1>1, <1>2, WrittenArrives
  <2> QED
    BY <1>1, <1>2, <2>1 DEF u
<1>3. CASE ~(d = c /\ Writes(u, c, f))
  <2>1. ~Writes(u, d, f)
    BY <1>1, <1>3 DEF Writes
  <2>2. Arrives(Append(queue, u), chats, d, f, Has(truth[d], f))
    BY <1>1, <1>3, <2>1, UnwrittenArrives
  <2> QED
    BY <2>2 DEF u
<1> QED
  BY <1>2, <1>3

\* A page that announces the chat without positions and then places it.
LEMMA PageComes ==
  ASSUME TypeOK, AnnouncedInv, NEW c \in Chats, NEW d \in announced \cup {c},
         NEW f \in Fields, f.kind # "pin",
         \/ d \in announced => Comes(d, f, Has(truth[d], f))
         \/ d = c /\ (f.kind = "position" => Has(truth[c], f) # 0)
  PROVE  Arrives(Append(Append(stream, Announcement(c, NoPositions)), PlacedUpdate(c)),
                 chats, d, f, Has(truth[d], f))
<1> DEFINE u == Announcement(c, NoPositions)
           q == Append(stream, u)
<1>1. /\ u \in Updates /\ Introduces(u, c) /\ u.chat = c /\ stream \in Seq(Updates)
      /\ f.kind # "position" => Writes(u, c, f)
      /\ ~Writes(u, c, f) => f.kind = "position"
      /\ Writes(u, c, f) => Says(u, f) = Has(truth[c], f)
  BY AnnouncementFacts DEF TypeOK
<1>2. q \in Seq(Updates) /\ KnownBy(q, chats, c, Len(q))
  <2> HIDE DEF u
  <2> QED
    BY <1>1, AppendFacts, IntroducedKnown
<1>3. SUFFICES \/ Arrives(q, chats, d, f, Has(truth[d], f))
               \/ d = c /\ f.kind = "position" /\ Has(truth[c], f) # 0
  <2> HIDE DEF q
  <2>1. Arrives(Append(q, PlacedUpdate(c)), chats, d, f, Has(truth[d], f))
    BY <1>2, <1>3, PlacedComes
  <2> QED
    BY <2>1 DEF q
<1> HIDE DEF u
<1>4. CASE d # c
  BY <1>1, <1>4, OthersArrive DEF Comes
<1>5. CASE d = c /\ Writes(u, c, f)
  <2>1. Arrives(q, chats, c, f, Says(u, f))
    BY <1>1, <1>5, WrittenArrives
  <2> QED
    BY <1>1, <1>5, <2>1
<1>6. CASE d = c /\ ~Writes(u, c, f) /\ Has(truth[c], f) = 0
  <2>1. CASE c \in announced
    BY <1>1, <1>6, <2>1, UnwrittenArrives DEF Comes
  <2>2. CASE c \notin announced
    <3>1. c \notin DOMAIN chats /\ \A i \in 1 .. Len(stream) : stream[i].chat # c
      BY <2>2, UnannouncedFacts
    <3>2. Arrives(q, chats, c, f, 0)
      BY <1>1, <1>6, <3>1, FirstArrives
    <3> QED
      BY <1>6, <3>2
  <2> QED
    BY <2>1, <2>2
<1>7. CASE d = c /\ ~Writes(u, c, f) /\ Has(truth[c], f) # 0
  BY <1>1, <1>7
<1> QED
  BY <1>4, <1>5, <1>6, <1>7

LEMMA PinRange ==
  ASSUME NEW chat, NEW f \in Fields, f.kind = "pin"
  PROVE  Has(chat, f) \in {0, 1} /\ (chat.pinned = {} => Has(chat, f) = 0)
BY DEF Has

\* An announcement takes the pins of its chat off, which are none if it is the first.
LEMMA AnnouncementPins ==
  ASSUME TypeOK, AnnouncedInv, NEW c \in Chats, NEW p \in {NoPositions, truth[c].positions},
         NEW d \in announced \cup {c}, NEW f \in Fields, f.kind = "pin",
         d \in announced => PinComes(d, f)
  PROVE  \E v \in {0, 1} :
           /\ Arrives(Append(stream, Announcement(c, p)), chats, d, f, v)
           /\ v <= Has(truth[d], f)
           /\ d \notin repeated /\ ~(d = c /\ c \in announced) => v = Has(truth[d], f)
<1> DEFINE u == Announcement(c, p)
<1>1. /\ u \in Updates /\ Introduces(u, c) /\ u.chat = c /\ stream \in Seq(Updates)
      /\ Writes(u, c, f) /\ Says(u, f) = 0
  BY AnnouncementFacts DEF TypeOK
<1> HIDE DEF u
<1>2. CASE d # c
  <2>1. PICK v \in {0, 1} :
          Comes(d, f, v) /\ v <= Has(truth[d], f) /\ (d \notin repeated => v = Has(truth[d], f))
    BY <1>2 DEF PinComes
  <2>2. Arrives(Append(stream, u), chats, d, f, v)
    BY <1>1, <1>2, <2>1, OthersArrive DEF Comes
  <2> QED
    BY <2>1, <2>2 DEF u
<1>3. CASE d = c
  <2>1. Arrives(Append(stream, u), chats, c, f, 0)
    BY <1>1, WrittenArrives
  <2>2. Has(truth[c], f) \in {0, 1} /\ (c \notin announced => Has(truth[c], f) = 0)
    BY PinRange, UnannouncedFacts
  <2>3. 0 <= Has(truth[d], f) /\ (~(d = c /\ c \in announced) => 0 = Has(truth[d], f))
    BY <1>3, <2>2
  <2> QED
    BY <1>3, <2>1, <2>3 DEF u
<1> QED
  BY <1>2, <1>3

LEMMA SentChats ==
  ASSUME TypeOK, AnnouncedInv, NEW c \in Chats, NEW updates \in Seq(Updates), Send(updates),
         \A j \in 1 .. Len(updates) : updates[j].chat = c
  PROVE  \A i \in 1 .. Len(stream') : stream'[i].chat \in announced \cup {c}
<1>1. \A i \in 1 .. Len(stream') :
        \/ \E j \in 1 .. Len(stream) : stream'[i] = stream[j]
        \/ \E j \in 1 .. Len(updates) : stream'[i] = updates[j]
  BY SendFacts
<1> QED
  BY <1>1 DEF AnnouncedInv

LEMMA AnnounceStep ==
  ASSUME IInv, NEW c \in Chats, Announce(c)
  PROVE  AnnouncedInv' /\ WholeInv' /\ ResyncInv'
<1>0. TypeOK /\ AnnouncedInv /\ WholeInv /\ ResyncInv
  BY DEF IInv
<1>1. PICK p \in {NoPositions, truth[c].positions} :
        (c \notin announced => p = truth[c].positions) /\ Send(<<Announcement(c, p)>>)
  BY DEF Announce
<1>2. /\ announced' = announced \cup {c}
      /\ repeated' = IF c \in announced THEN repeated \cup {c} ELSE repeated
      /\ UNCHANGED <<truth, chats, load, emitted>>
  BY DEF Announce
<1> DEFINE u == Announcement(c, p)
<1>3. u \in Updates /\ u.chat = c /\ stream \in Seq(Updates)
  BY <1>0, AnnouncementFacts DEF TypeOK
<1>4. stream \o <<u>> = Append(stream, u) /\ <<u>> \in Seq(Updates)
  BY <1>3, AppendedOnce
<1>5. /\ ~everLost' => ~everLost /\ stream' = Append(stream, u)
      /\ ~lostSince'[Resync] => ~lostSince[Resync] /\ stream' = Append(stream, u)
  BY <1>0, <1>1, <1>4, SendFacts
<1>6. \A i \in 1 .. Len(stream') : stream'[i].chat \in announced \cup {c}
  <2> HIDE DEF u
  <2>1. \A j \in 1 .. Len(<<u>>) : <<u>>[j].chat = c
    BY <1>3
  <2>2. Send(<<u>>)
    BY <1>1 DEF u
  <2> QED
    BY <1>0, <1>4, <2>1, <2>2, SentChats
<1>7. AnnouncedInv'
  BY <1>0, <1>2, <1>6, FS_AddElement DEF AnnouncedInv
<1>8. ASSUME NEW d \in announced \cup {c}, NEW f \in Fields, f.kind # "pin",
             d \in announced => Comes(d, f, Has(truth[d], f)), stream' = Append(stream, u)
      PROVE  Comes(d, f, Has(truth[d], f))'
  <2>1. Arrives(stream', chats', d, f, Has(truth'[d], f))
    BY <1>0, <1>1, <1>2, <1>8, AnnouncementComes
  <2> QED
    BY <2>1 DEF Comes
<1>9. ASSUME NEW d \in announced \cup {c}, NEW f \in Fields, f.kind = "pin",
             d \in announced => PinComes(d, f), stream' = Append(stream, u)
      PROVE  PinComes(d, f)'
  <2>1. PICK v \in {0, 1} :
          /\ Arrives(stream', chats', d, f, v)
          /\ v <= Has(truth'[d], f)
          /\ d \notin repeated /\ ~(d = c /\ c \in announced) => v = Has(truth'[d], f)
    BY <1>0, <1>1, <1>2, <1>9, AnnouncementPins
  <2>2. d \notin repeated' => v = Has(truth'[d], f)
    BY <1>2, <2>1
  <2> QED
    BY <2>1, <2>2 DEF PinComes, Comes
<1>10. WholeInv'
  BY <1>0, <1>2, <1>5, <1>8, <1>9 DEF WholeInv
<1>11. ResyncInv'
  <2>1. emitted[Resync] \subseteq announced
    BY <1>0 DEF AnnouncedInv, Loads
  <2> QED
    BY <1>0, <1>2, <1>5, <1>8, <2>1 DEF ResyncInv
<1> QED
  BY <1>7, <1>10, <1>11

\* The update TDLib sends of a change writes what has changed, as it is now.
Tells(c, chat, u) ==
  /\ u \in Updates /\ u.chat = c /\ u.kind # "new" /\ chat \in Chat
  /\ \A f \in Fields : Has(chat, f) = IF Writes(u, c, f) THEN Says(u, f) ELSE Has(truth[c], f)
  /\ c \notin announced => chat.pinned = truth[c].pinned

LEMMA ChangeStep ==
  ASSUME IInv, NEW c \in Chats, NEW chat, NEW u, Tells(c, chat, u), Change(c, chat, u)
  PROVE  AnnouncedInv' /\ WholeInv' /\ ResyncInv'
<1>0. TypeOK /\ AnnouncedInv /\ WholeInv /\ ResyncInv
  BY DEF IInv
<1>1. /\ truth' = [truth EXCEPT ![c] = chat] /\ truth \in [Chats -> Chat]
      /\ UNCHANGED <<announced, chats, load, emitted, repeated>>
  BY <1>0 DEF Change, TypeOK
<1>2. u \in Updates /\ u.chat = c /\ u.kind # "new" /\ stream \in Seq(Updates)
  BY <1>0 DEF Tells, TypeOK
<1>3. stream \o <<u>> = Append(stream, u) /\ <<u>> \in Seq(Updates)
  BY <1>2, AppendedOnce
<1>4. emitted[Resync] \subseteq announced /\ announced \subseteq Chats
  BY <1>0 DEF AnnouncedInv, TypeOK, Loads
<1>5. CASE c \in announced
  <2>1. Send(<<u>>)
    BY <1>5 DEF Change
  <2>2. /\ ~everLost' => ~everLost /\ stream' = Append(stream, u)
        /\ ~lostSince'[Resync] => ~lostSince[Resync] /\ stream' = Append(stream, u)
    BY <1>0, <1>3, <2>1, SendFacts
  <2>3. \A i \in 1 .. Len(stream') : stream'[i].chat \in announced \cup {c}
    <3>1. \A j \in 1 .. Len(<<u>>) : <<u>>[j].chat = c
      BY <1>2
    <3> QED
      BY <1>0, <1>3, <2>1, <3>1, SentChats
  <2>4. AnnouncedInv'
    BY <1>0, <1>1, <1>5, <2>3 DEF AnnouncedInv
  <2>5. ASSUME NEW d \in announced, NEW f \in Fields, NEW v, Comes(d, f, v), stream' = Append(stream, u)
        PROVE  Comes(d, f, IF Writes(u, d, f) THEN Says(u, f) ELSE v)'
    <3>1. CASE Writes(u, d, f)
      <4>1. KnownBy(stream, chats, d, Len(stream))
        BY <1>2, <2>5, ArrivesKnown DEF Comes
      <4>2. Arrives(stream', chats', d, f, Says(u, f))
        BY <1>1, <1>2, <2>5, <3>1, <4>1, WrittenArrives
      <4> QED
        BY <3>1, <4>2 DEF Comes
    <3>2. CASE ~Writes(u, d, f)
      <4>1. Arrives(stream', chats', d, f, v)
        BY <1>1, <1>2, <2>5, <3>2, UnwrittenArrives DEF Comes
      <4> QED
        BY <3>2, <4>1 DEF Comes
    <3> QED
      BY <3>1, <3>2
  <2>6. ASSUME NEW d \in announced, NEW f \in Fields
        PROVE  Has(truth'[d], f) = IF Writes(u, d, f) THEN Says(u, f) ELSE Has(truth[d], f)
    <3>1. CASE d = c
      <4>1. truth'[d] = chat
        BY <1>1, <3>1
      <4> QED
        BY <3>1, <4>1 DEF Tells
    <3>2. CASE d # c
      <4>1. truth'[d] = truth[d] /\ ~Writes(u, d, f)
        BY <1>1, <1>2, <1>4, <3>2 DEF Writes
      <4> QED
        BY <4>1
    <3> QED
      BY <3>1, <3>2
  <2>7. ASSUME NEW d \in announced, NEW f \in Fields, Comes(d, f, Has(truth[d], f)),
               stream' = Append(stream, u)
        PROVE  Comes(d, f, Has(truth[d], f))'
    <3>1. PICK v : v = Has(truth[d], f)
      OBVIOUS
    <3>2. Comes(d, f, IF Writes(u, d, f) THEN Says(u, f) ELSE v)'
      BY <2>5, <2>7, <3>1
    <3>3. Has(truth'[d], f) = IF Writes(u, d, f) THEN Says(u, f) ELSE v
      BY <2>6, <3>1
    <3> QED
      BY <3>2, <3>3 DEF Comes
  <2>8. ASSUME NEW d \in announced, NEW f \in Fields, f.kind = "pin", PinComes(d, f),
               stream' = Append(stream, u)
        PROVE  PinComes(d, f)'
    <3>1. PICK v \in {0, 1} :
            Comes(d, f, v) /\ v <= Has(truth[d], f) /\ (d \notin repeated => v = Has(truth[d], f))
      BY <2>8 DEF PinComes
    <3> DEFINE w == IF Writes(u, d, f) THEN Says(u, f) ELSE v
    <3>2. Arrives(stream', chats', d, f, w)
      <4>1. Comes(d, f, IF Writes(u, d, f) THEN Says(u, f) ELSE v)'
        BY <2>5, <2>8, <3>1
      <4> QED
        BY <4>1 DEF Comes
    <3>3. Has(truth'[d], f) \in {0, 1}
      BY <2>8, PinRange
    <3>4. w \in {0, 1} /\ w <= Has(truth'[d], f) /\ (d \notin repeated => w = Has(truth'[d], f))
      <4>1. CASE Writes(u, d, f)
        BY <2>6, <3>3, <4>1
      <4>2. CASE ~Writes(u, d, f)
        BY <2>6, <3>1, <4>2
      <4> QED
        BY <4>1, <4>2
    <3> HIDE DEF w
    <3> QED
      BY <1>1, <3>2, <3>4 DEF PinComes, Comes
  <2>9. WholeInv'
    BY <1>0, <1>1, <2>2, <2>7, <2>8 DEF WholeInv
  <2>10. ResyncInv'
    BY <1>0, <1>1, <1>4, <2>2, <2>7 DEF ResyncInv
  <2> QED
    BY <2>4, <2>9, <2>10
<1>6. CASE c \notin announced
  <2>1. UNCHANGED <<stream, everLost, lostSince>>
    BY <1>6 DEF Change
  <2>2. \A d \in announced : truth'[d] = truth[d]
    BY <1>1, <1>4, <1>6
  <2>3. AnnouncedInv'
    <3>1. \A d \in Chats \ announced : truth'[d].pinned = {}
      BY <1>0, <1>1, <1>6 DEF AnnouncedInv, Tells
    <3> QED
      BY <1>0, <1>1, <2>1, <3>1 DEF AnnouncedInv
  <2>5. \A d \in announced, f \in Fields : Comes(d, f, Has(truth[d], f))' <=> Comes(d, f, Has(truth[d], f))
    BY <1>1, <2>1, <2>2 DEF Comes
  <2>6. \A d \in announced, f \in Fields : PinComes(d, f)' <=> PinComes(d, f)
    BY <1>1, <2>1, <2>2 DEF PinComes, Comes
  <2>7. WholeInv'
    BY <1>0, <1>1, <2>1, <2>5, <2>6 DEF WholeInv
  <2>8. ResyncInv'
    BY <1>0, <1>1, <1>4, <2>1, <2>5 DEF ResyncInv
  <2> QED
    BY <2>3, <2>7, <2>8
<1> QED
  BY <1>5, <1>6

\* TDLib moves a chat in a list.
LEMMA MoveTells ==
  ASSUME TypeOK, NEW c \in Chats, NEW l \in Lists, NEW order \in 0 .. MaxOrder
  PROVE  Tells(c, [truth[c] EXCEPT !.positions[l] = order],
               [kind |-> "position", chat |-> c, positions |-> [k \in {l} |-> order]])
<1> DEFINE p == [truth[c].positions EXCEPT ![l] = order]
           chat == [truth[c] EXCEPT !.positions = p]
           u == [kind |-> "position", chat |-> c, positions |-> [k \in {l} |-> order]]
<1>1. truth[c] \in Chat
  BY DEF TypeOK
<1>2. /\ p \in Positions
      /\ \A k \in Lists : p[k] = IF k = l THEN order ELSE truth[c].positions[k]
  BY <1>1 DEF Chat, Positions
<1>3. /\ u \in Updates /\ u.chat = c /\ u.kind = "position"
      /\ DOMAIN u.positions = {l} /\ u.positions[l] = order
  <2>1. [k \in {l} |-> order] \in [{l} -> 0 .. MaxOrder] /\ {l} \in SUBSET Lists
    OBVIOUS
  <2>2. [k \in {l} |-> order] \in Carried
    BY <2>1 DEF Carried
  <2> QED
    BY <2>2 DEF Updates
<1> HIDE DEF p, u
<1>4. chat \in Chat /\ chat.positions = p /\ chat.marks = truth[c].marks /\ chat.pinned = truth[c].pinned
  BY <1>1, <1>2 DEF Chat
<1> HIDE DEF chat
<1>5. ASSUME NEW f \in Fields
      PROVE  Has(chat, f) = IF Writes(u, c, f) THEN Says(u, f) ELSE Has(truth[c], f)
  <2>1. CASE f.kind = "position" /\ f.of \in Lists
    BY <1>2, <1>3, <1>4, <2>1 DEF Has, Writes, Says
  <2>2. CASE f.kind = "mark"
    BY <1>3, <1>4, <2>2 DEF Has, Writes, Says
  <2>3. CASE f.kind = "pin"
    BY <1>3, <1>4, <2>3 DEF Has, Writes, Says
  <2> QED
    BY <2>1, <2>2, <2>3, FieldFacts
<1>6. Tells(c, chat, u)
  BY <1>3, <1>4, <1>5 DEF Tells
<1> QED
  BY <1>6 DEF chat, u, p

\* TDLib sets a mark, which may float the chat.
LEMMA MarkTells ==
  ASSUME TypeOK, NEW c \in Chats, NEW m \in Marks, NEW v \in 0 .. MaxOrder,
         NEW into \in SUBSET Lists, NEW carried \in [into -> 1 .. MaxOrder]
  PROVE  Tells(c, [truth[c] EXCEPT !.marks[m] = v, !.positions = MergePositions(@, carried)],
               [kind |-> "mark", chat |-> c, mark |-> m, value |-> v, positions |-> carried])
<1> DEFINE p == MergePositions(truth[c].positions, carried)
           n == [truth[c].marks EXCEPT ![m] = v]
           chat == [truth[c] EXCEPT !.marks = n, !.positions = p]
           u == [kind |-> "mark", chat |-> c, mark |-> m, value |-> v, positions |-> carried]
<1>1. truth[c] \in Chat
  BY DEF TypeOK
<1>2. /\ p \in Positions
      /\ \A k \in Lists : p[k] = IF k \in DOMAIN carried THEN carried[k] ELSE truth[c].positions[k]
  <2>1. truth[c].positions \in Positions /\ DOMAIN carried \subseteq Lists
        /\ \A k \in DOMAIN carried : carried[k] \in 0 .. MaxOrder
    BY <1>1 DEF Chat
  <2> QED
    BY <2>1, MergeFacts
<1>3. /\ n \in [Marks -> 0 .. MaxOrder]
      /\ \A k \in Marks : n[k] = IF k = m THEN v ELSE truth[c].marks[k]
  BY <1>1 DEF Chat
<1>4. /\ u \in Updates /\ u.chat = c /\ u.kind = "mark" /\ u.mark = m /\ u.value = v
      /\ u.positions = carried
  <2>1. carried \in [into -> 0 .. MaxOrder]
    OBVIOUS
  <2>2. carried \in Carried
    BY <2>1 DEF Carried
  <2> QED
    BY <2>2 DEF Updates
<1> HIDE DEF p, n, u
<1>5. chat \in Chat /\ chat.positions = p /\ chat.marks = n /\ chat.pinned = truth[c].pinned
  BY <1>1, <1>2, <1>3 DEF Chat
<1> HIDE DEF chat
<1>6. ASSUME NEW f \in Fields
      PROVE  Has(chat, f) = IF Writes(u, c, f) THEN Says(u, f) ELSE Has(truth[c], f)
  <2>1. CASE f.kind = "position" /\ f.of \in Lists
    BY <1>2, <1>4, <1>5, <2>1 DEF Has, Writes, Says
  <2>2. CASE f.kind = "mark" /\ f.of \in Marks
    BY <1>3, <1>4, <1>5, <2>2 DEF Has, Writes, Says
  <2>3. CASE f.kind = "pin"
    BY <1>4, <1>5, <2>3 DEF Has, Writes, Says
  <2> QED
    BY <2>1, <2>2, <2>3, FieldFacts
<1>7. Tells(c, chat, u)
  BY <1>4, <1>5, <1>6 DEF Tells
<1> QED
  BY <1>7 DEF chat, u, n, p

\* TDLib pins or unpins a message of an announced chat.
LEMMA PinTells ==
  ASSUME TypeOK, NEW c \in Chats, c \in announced, NEW m \in Messages, NEW on \in BOOLEAN
  PROVE  Tells(c, [truth[c] EXCEPT !.pinned = IF on THEN @ \cup {m} ELSE @ \ {m}],
               [kind |-> "pinned", chat |-> c, message |-> m, on |-> on])
<1> DEFINE p == IF on THEN truth[c].pinned \cup {m} ELSE truth[c].pinned \ {m}
           chat == [truth[c] EXCEPT !.pinned = p]
           u == [kind |-> "pinned", chat |-> c, message |-> m, on |-> on]
<1>1. truth[c] \in Chat
  BY DEF TypeOK
<1>2. /\ p \in SUBSET Messages
      /\ \A k : k \in p <=> IF k = m THEN on ELSE k \in truth[c].pinned
  BY <1>1 DEF Chat
<1>3. u \in Updates /\ u.chat = c /\ u.kind = "pinned" /\ u.message = m /\ u.on = on
  BY DEF Updates
<1> HIDE DEF p, u
<1>4. chat \in Chat /\ chat.positions = truth[c].positions /\ chat.marks = truth[c].marks /\ chat.pinned = p
  BY <1>1, <1>2 DEF Chat
<1> HIDE DEF chat
<1>5. ASSUME NEW f \in Fields
      PROVE  Has(chat, f) = IF Writes(u, c, f) THEN Says(u, f) ELSE Has(truth[c], f)
  <2>1. CASE f.kind = "position"
    BY <1>3, <1>4, <2>1 DEF Has, Writes, Says
  <2>2. CASE f.kind = "mark"
    BY <1>3, <1>4, <2>2 DEF Has, Writes, Says
  <2>3. CASE f.kind = "pin" /\ f.of \in Messages
    BY <1>2, <1>3, <1>4, <2>3 DEF Has, Writes, Says
  <2> QED
    BY <2>1, <2>2, <2>3, FieldFacts
<1>6. Tells(c, chat, u)
  BY <1>3, <1>4, <1>5 DEF Tells
<1> QED
  BY <1>6 DEF chat, u, p

\* Each change of a chat of TDLib's is told.
LEMMA ChangesTell ==
  ASSUME TypeOK, NEW c \in Chats, Move(c) \/ SetMark(c) \/ Pin(c)
  PROVE  \E chat, u : Tells(c, chat, u) /\ Change(c, chat, u)
<1>1. CASE Move(c)
  <2>1. PICK l \in Lists, order \in 0 .. MaxOrder :
          Change(c, [truth[c] EXCEPT !.positions[l] = order],
                 [kind |-> "position", chat |-> c, positions |-> [k \in {l} |-> order]])
    BY <1>1 DEF Move
  <2> QED
    BY <2>1, MoveTells
<1>2. CASE SetMark(c)
  <2>1. PICK m \in Marks, v \in 0 .. MaxOrder, into \in {{}} \cup {{l} : l \in Lists} :
          \E carried \in [into -> 1 .. MaxOrder] :
            Change(c, [truth[c] EXCEPT !.marks[m] = v, !.positions = MergePositions(@, carried)],
                   [kind |-> "mark", chat |-> c, mark |-> m, value |-> v, positions |-> carried])
    BY <1>2 DEF SetMark
  <2>2. into \in SUBSET Lists
    OBVIOUS
  <2> QED
    BY <2>1, <2>2, MarkTells
<1>3. CASE Pin(c)
  <2>1. PICK m \in Messages, on \in BOOLEAN :
          Change(c, [truth[c] EXCEPT !.pinned = IF on THEN @ \cup {m} ELSE @ \ {m}],
                 [kind |-> "pinned", chat |-> c, message |-> m, on |-> on])
    BY <1>3 DEF Pin
  <2> QED
    BY <1>3, <2>1, PinTells DEF Pin
<1> QED
  BY <1>1, <1>2, <1>3

-----------------------------------------------------------------------------
(* The steps of the client.                                                *)

\* Nothing is sent and nothing folded.
LEMMA QuietStep ==
  ASSUME IInv, UNCHANGED <<truth, announced, stream, chats, everLost, repeated>>,
         \A x \in Loads : emitted'[x] \subseteq announced,
         ~lostSince'[Resync] => ~lostSince[Resync] \/ emitted'[Resync] = {},
         emitted'[Resync] \subseteq emitted[Resync]
  PROVE  AnnouncedInv' /\ WholeInv' /\ ResyncInv'
<1>1. \A c, f, v : Comes(c, f, v)' <=> Comes(c, f, v)
  BY DEF Comes
<1>2. \A c, f : /\ Comes(c, f, Has(truth[c], f))' <=> Comes(c, f, Has(truth[c], f))
                /\ PinComes(c, f)' <=> PinComes(c, f)
  BY DEF Comes, PinComes
<1> QED
  BY <1>2 DEF IInv, AnnouncedInv, WholeInv, ResyncInv

LEMMA FoldStep ==
  ASSUME IInv, Fold
  PROVE  AnnouncedInv' /\ WholeInv' /\ ResyncInv'
<1>0. TypeOK /\ AnnouncedInv /\ WholeInv /\ ResyncInv
  BY DEF IInv
<1>1. /\ stream # << >> /\ stream' = Tail(stream) /\ chats' = Reduce(chats, Head(stream))
      /\ UNCHANGED <<truth, announced, load, emitted, everLost, lostSince, repeated>>
  BY DEF Fold
<1>2. /\ stream \in Seq(Updates) /\ chats \in Store /\ announced \subseteq Chats
      /\ emitted[Resync] \subseteq announced
  BY <1>0 DEF TypeOK, AnnouncedInv, Loads
<1>3. AnnouncedInv'
  <2>1. /\ Head(stream) = stream[1] /\ 1 \in 1 .. Len(stream) /\ Head(stream) \in Updates
        /\ \A i \in 1 .. Len(stream') : i + 1 \in 1 .. Len(stream) /\ stream'[i] = stream[i + 1]
    BY <1>1, <1>2
  <2>2. DOMAIN chats' \subseteq DOMAIN chats \cup {Head(stream).chat}
    BY <1>1, <1>2, <2>1, ReduceFacts
  <2>3. Head(stream).chat \in announced /\ \A i \in 1 .. Len(stream') : stream'[i].chat \in announced
    BY <1>0, <2>1 DEF AnnouncedInv
  <2> QED
    BY <1>0, <1>1, <2>2, <2>3 DEF AnnouncedInv
<1>4. ASSUME NEW c \in announced, NEW f \in Fields, NEW v, Comes(c, f, v)
      PROVE  Comes(c, f, v)'
  <2>1. Arrives(stream', chats', c, f, v)
    BY <1>1, <1>2, <1>4, TakeArrives DEF Comes
  <2> QED
    BY <2>1 DEF Comes
<1>5. ASSUME NEW c \in announced, NEW f \in Fields, Comes(c, f, Has(truth[c], f))
      PROVE  Comes(c, f, Has(truth[c], f))'
  <2>1. PICK v : v = Has(truth[c], f)
    OBVIOUS
  <2>2. Comes(c, f, v)' /\ v = Has(truth'[c], f)
    BY <1>1, <1>4, <1>5, <2>1
  <2> QED
    BY <2>2 DEF Comes
<1>6. ASSUME NEW c \in announced, NEW f \in Fields, PinComes(c, f)
      PROVE  PinComes(c, f)'
  <2>1. PICK v \in {0, 1} :
          Comes(c, f, v) /\ v <= Has(truth[c], f) /\ (c \notin repeated => v = Has(truth[c], f))
    BY <1>6 DEF PinComes
  <2>2. Comes(c, f, v)'
    BY <1>4, <2>1
  <2> QED
    BY <1>1, <2>1, <2>2 DEF PinComes
<1>7. WholeInv'
  BY <1>0, <1>1, <1>5, <1>6 DEF WholeInv
<1>8. ResyncInv'
  BY <1>0, <1>1, <1>2, <1>5 DEF ResyncInv
<1> QED
  BY <1>3, <1>7, <1>8

\* A page of a load that is no resync, of a chat announced before.
LEMMA PagePlacesStep ==
  ASSUME IInv, NEW x \in Loads, NEW c \in Chats, c \in announced, x # Resync,
         Send(<<PlacedUpdate(c)>>), UNCHANGED <<truth, chats, announced, repeated>>,
         emitted' = [emitted EXCEPT ![x] = @ \cup {c}]
  PROVE  AnnouncedInv' /\ WholeInv' /\ ResyncInv'
<1>0. TypeOK /\ AnnouncedInv /\ WholeInv /\ ResyncInv
  BY DEF IInv
<1> DEFINE u == PlacedUpdate(c)
<1>1. /\ u \in Updates /\ u.chat = c /\ stream \in Seq(Updates)
      /\ \A f \in Fields : f.kind = "pin" => ~Writes(u, c, f)
  BY <1>0, PlacedFacts DEF TypeOK
<1>2. stream \o <<u>> = Append(stream, u) /\ <<u>> \in Seq(Updates)
  BY <1>1, AppendedOnce
<1>3. /\ ~everLost' => ~everLost /\ stream' = Append(stream, u)
      /\ ~lostSince'[Resync] => ~lostSince[Resync] /\ stream' = Append(stream, u)
  BY <1>0, <1>2, SendFacts
<1>4. /\ emitted \in [Loads -> SUBSET Chats] /\ Resync \in Loads /\ announced \subseteq Chats
      /\ \A y \in Loads : emitted[y] \subseteq announced
  BY <1>0 DEF TypeOK, AnnouncedInv, Loads
<1>5. AnnouncedInv'
  <2>1. \A i \in 1 .. Len(stream') : stream'[i].chat \in announced
    <3> HIDE DEF u
    <3>1. \A j \in 1 .. Len(<<u>>) : <<u>>[j].chat = c
      BY <1>1
    <3>2. Send(<<u>>)
      BY DEF u
    <3> QED
      BY <1>0, <1>2, <3>1, <3>2, SentChats
  <2>2. \A y \in Loads : emitted'[y] \subseteq announced
    BY <1>4
  <2> QED
    BY <1>0, <2>1, <2>2 DEF AnnouncedInv
<1>6. ASSUME NEW d \in announced, NEW f \in Fields, Comes(d, f, Has(truth[d], f)),
             stream' = Append(stream, u)
      PROVE  Comes(d, f, Has(truth[d], f))'
  <2>1. KnownBy(stream, chats, d, Len(stream))
    BY <1>1, <1>6, ArrivesKnown DEF Comes
  <2>2. Arrives(stream', chats', d, f, Has(truth'[d], f))
    BY <1>0, <1>1, <1>6, <2>1, PlacedComes DEF Comes
  <2> QED
    BY <2>2 DEF Comes
<1>7. ASSUME NEW d \in announced, NEW f \in Fields, f.kind = "pin", PinComes(d, f),
             stream' = Append(stream, u)
      PROVE  PinComes(d, f)'
  <2>1. PICK v \in {0, 1} :
          Comes(d, f, v) /\ v <= Has(truth[d], f) /\ (d \notin repeated => v = Has(truth[d], f))
    BY <1>7 DEF PinComes
  <2>2. ~Writes(u, d, f)
    BY <1>1, <1>7 DEF Writes
  <2>3. Arrives(stream', chats', d, f, v)
    <3> HIDE DEF u
    <3> QED
      BY <1>1, <1>7, <2>1, <2>2, UnwrittenArrives DEF Comes
  <2> QED
    BY <2>1, <2>3 DEF PinComes, Comes
<1>8. WholeInv'
  BY <1>0, <1>3, <1>6, <1>7 DEF WholeInv
<1>9. ResyncInv'
  <2>1. emitted'[Resync] = emitted[Resync]
    BY <1>4
  <2> QED
    BY <1>0, <1>3, <1>4, <1>6, <2>1 DEF ResyncInv
<1> QED
  BY <1>5, <1>8, <1>9

\* A page that announces its chat, and a page of a resync, which announces it again.
LEMMA PageAnnouncesStep ==
  ASSUME IInv, NEW x \in Loads, NEW c \in Remaining(x), c \in Chats, c \notin announced \/ x = Resync,
         Send(<<Announcement(c, NoPositions), PlacedUpdate(c)>>),
         UNCHANGED <<truth, chats>>, announced' = announced \cup {c},
         repeated' = IF c \in announced /\ x = Resync THEN repeated \cup {c} ELSE repeated,
         emitted' = [emitted EXCEPT ![x] = @ \cup {c}]
  PROVE  AnnouncedInv' /\ WholeInv' /\ ResyncInv'
<1>0. TypeOK /\ AnnouncedInv /\ WholeInv /\ ResyncInv
  BY DEF IInv
<1> DEFINE u == Announcement(c, NoPositions)
           w == PlacedUpdate(c)
           q == Append(stream, u)
<1>1. /\ u \in Updates /\ u.chat = c /\ stream \in Seq(Updates)
      /\ w \in Updates /\ w.chat = c
      /\ \A f \in Fields : f.kind = "pin" => ~Writes(w, c, f)
  BY <1>0, PlacedFacts, AnnouncementFacts DEF TypeOK
<1>2. stream \o <<u, w>> = Append(q, w) /\ <<u, w>> \in Seq(Updates)
  <2> HIDE DEF u, w
  <2> QED
    BY <1>1, AppendedTwice
<1>3. /\ ~everLost' => ~everLost /\ stream' = Append(q, w)
      /\ ~lostSince'[Resync] => ~lostSince[Resync] /\ stream' = Append(q, w)
  BY <1>0, <1>2, SendFacts
<1>4. /\ emitted \in [Loads -> SUBSET Chats] /\ Resync \in Loads /\ announced \subseteq Chats
      /\ \A y \in Loads : emitted[y] \subseteq announced
  BY <1>0 DEF TypeOK, AnnouncedInv, Loads
<1>5. AnnouncedInv'
  <2>1. \A i \in 1 .. Len(stream') : stream'[i].chat \in announced \cup {c}
    <3> HIDE DEF u, w
    <3>1. \A j \in 1 .. Len(<<u, w>>) : <<u, w>>[j].chat = c
      BY <1>1
    <3>2. Send(<<u, w>>)
      BY DEF u, w
    <3> QED
      BY <1>0, <1>2, <3>1, <3>2, SentChats
  <2>2. \A y \in Loads : emitted'[y] \subseteq announced \cup {c}
    BY <1>4
  <2> QED
    BY <1>0, <2>1, <2>2, FS_AddElement DEF AnnouncedInv
<1>6. ASSUME NEW d \in announced \cup {c}, NEW f \in Fields, f.kind # "pin",
             \/ d \in announced => Comes(d, f, Has(truth[d], f))
             \/ d = c /\ (f.kind = "position" => Has(truth[c], f) # 0),
             stream' = Append(q, w)
      PROVE  Comes(d, f, Has(truth[d], f))'
  <2>1. Arrives(stream', chats', d, f, Has(truth'[d], f))
    BY <1>0, <1>6, PageComes
  <2> QED
    BY <2>1 DEF Comes
<1>7. ASSUME NEW d \in announced \cup {c}, NEW f \in Fields, f.kind = "pin",
             d \in announced => PinComes(d, f), stream' = Append(q, w)
      PROVE  PinComes(d, f)'
  <2>1. PICK v \in {0, 1} :
          /\ Arrives(q, chats, d, f, v)
          /\ v <= Has(truth[d], f)
          /\ d \notin repeated /\ ~(d = c /\ c \in announced) => v = Has(truth[d], f)
    BY <1>0, <1>7, AnnouncementPins
  <2>2. ~Writes(w, d, f)
    BY <1>1, <1>7 DEF Writes
  <2>3. Arrives(stream', chats', d, f, v)
    <3>1. q \in Seq(Updates)
      BY <1>1
    <3> HIDE DEF u, w, q
    <3> QED
      BY <1>1, <1>7, <2>1, <2>2, <3>1, UnwrittenArrives
  <2>4. d \notin repeated' => v = Has(truth'[d], f)
    BY <2>1
  <2> QED
    BY <2>1, <2>3, <2>4 DEF PinComes, Comes
<1>8. WholeInv'
  BY <1>0, <1>3, <1>6, <1>7 DEF WholeInv
<1>9. ResyncInv'
  <2>1. ASSUME x = Resync, NEW f \in Fields, f.kind = "mark" \/ (f.kind = "position" /\ f.of = Main)
        PROVE  f.kind = "position" => Has(truth[c], f) # 0
    BY <2>1 DEF Remaining, ListOf, Has
  <2>2. ASSUME NEW d \in emitted'[Resync], NEW f \in Fields,
               f.kind = "mark" \/ (f.kind = "position" /\ f.of = Main), ~lostSince'[Resync]
        PROVE  Comes(d, f, Has(truth[d], f))'
    <3>1. f.kind # "pin" /\ stream' = Append(q, w) /\ ~lostSince[Resync]
      BY <1>3, <2>2
    <3>2. CASE d \in emitted[Resync]
      <4>1. d \in announced /\ Comes(d, f, Has(truth[d], f))
        BY <1>0, <1>4, <2>2, <3>1, <3>2 DEF ResyncInv
      <4> QED
        BY <1>6, <3>1, <4>1
    <3>3. CASE d \notin emitted[Resync]
      <4>1. x = Resync /\ d = c
        BY <1>4, <2>2, <3>3
      <4> QED
        BY <1>6, <2>1, <2>2, <3>1, <4>1
    <3> QED
      BY <3>2, <3>3
  <2> QED
    BY <2>2 DEF ResyncInv
<1> QED
  BY <1>5, <1>8, <1>9

LEMMA PageStep ==
  ASSUME IInv, NEW x \in Loads, LoadPage(x)
  PROVE  AnnouncedInv' /\ WholeInv' /\ ResyncInv'
<1>1. PICK c \in Remaining(x) :
        LET placed == [kind |-> "position", chat |-> c, positions |-> Placed(c)]
            again == c \in announced
        IN /\ Send(IF again /\ x # Resync THEN <<placed>>
                   ELSE <<Announcement(c, NoPositions), placed>>)
           /\ announced' = announced \cup {c}
           /\ repeated' = IF again /\ x = Resync THEN repeated \cup {c} ELSE repeated
           /\ emitted' = [emitted EXCEPT ![x] = @ \cup {c}]
  BY DEF LoadPage
<1>2. c \in Chats /\ UNCHANGED <<truth, chats>>
  BY DEF LoadPage, Remaining
<1>3. CASE c \in announced /\ x # Resync
  <2>1. Send(<<PlacedUpdate(c)>>) /\ announced' = announced /\ repeated' = repeated
    BY <1>1, <1>3 DEF PlacedUpdate
  <2> QED
    BY <1>1, <1>2, <1>3, <2>1, PagePlacesStep
<1>4. CASE ~(c \in announced /\ x # Resync)
  <2>1. Send(<<Announcement(c, NoPositions), PlacedUpdate(c)>>)
    BY <1>1, <1>4 DEF PlacedUpdate
  <2> QED
    BY <1>1, <1>2, <1>4, <2>1, PageAnnouncesStep
<1> QED
  BY <1>3, <1>4

\* What is sent is typed, and so is all else.
LEMMA TypeStep ==
  ASSUME TypeOK, AnnouncedInv, [Next]_vars
  PROVE  TypeOK'
<1>0. /\ stream \in Seq(Updates) /\ truth \in [Chats -> Chat] /\ announced \subseteq Chats
      /\ repeated \subseteq announced /\ load \in [Loads -> {"none", "paging", "loaded", "failed"}]
      /\ emitted \in [Loads -> SUBSET Chats] /\ changes \in 0 .. MaxChanges /\ chats \in Store
      /\ everLost \in BOOLEAN /\ lostSince \in [Loads -> BOOLEAN] /\ Len(stream) <= Capacity
      /\ Resync \in Loads
  BY DEF TypeOK, Loads
<1>1. ASSUME NEW updates \in Seq(Updates), Send(updates)
      PROVE  /\ stream' \in Seq(Updates) /\ Len(stream') <= Capacity
             /\ everLost' \in BOOLEAN /\ lostSince' \in [Loads -> BOOLEAN]
  BY <1>1, SendFacts
<1>2. CASE Fold
  <2>1. Head(stream) \in Updates /\ Tail(stream) \in Seq(Updates) /\ Len(Tail(stream)) <= Capacity
    BY <1>0, <1>2 DEF Fold
  <2>2. chats' \in Store
    BY <1>0, <1>2, <2>1, ReduceFacts DEF Fold
  <2> QED
    BY <1>0, <1>2, <2>1, <2>2 DEF Fold, TypeOK
<1>3. ASSUME NEW c \in Chats, Announce(c)
      PROVE  TypeOK'
  <2>1. PICK p \in {NoPositions, truth[c].positions} : Send(<<Announcement(c, p)>>)
    BY <1>3 DEF Announce
  <2>2. Announcement(c, p) \in Updates
    BY AnnouncementFacts
  <2>3. <<Announcement(c, p)>> \in Seq(Updates)
    BY <2>2
  <2>4. /\ stream' \in Seq(Updates) /\ Len(stream') <= Capacity
        /\ everLost' \in BOOLEAN /\ lostSince' \in [Loads -> BOOLEAN]
    BY <1>1, <2>1, <2>3
  <2> QED
    BY <1>0, <1>3, <2>4 DEF Announce, TypeOK
<1>4. ASSUME NEW c \in Chats, NEW chat \in Chat, NEW u \in Updates, Change(c, chat, u)
      PROVE  TypeOK'
  <2>1. /\ stream' \in Seq(Updates) /\ Len(stream') <= Capacity
        /\ everLost' \in BOOLEAN /\ lostSince' \in [Loads -> BOOLEAN]
    <3>1. <<u>> \in Seq(Updates)
      OBVIOUS
    <3>2. CASE Send(<<u>>)
      BY <1>1, <3>1, <3>2
    <3>3. CASE UNCHANGED <<stream, everLost, lostSince>>
      BY <1>0, <3>3
    <3> QED
      BY <1>4, <3>2, <3>3 DEF Change
  <2>2. truth' \in [Chats -> Chat]
    BY <1>0, <1>4 DEF Change
  <2> QED
    BY <1>0, <1>4, <2>1, <2>2 DEF Change, TypeOK
<1>5. ASSUME NEW x \in Loads, StartLoad(x)
      PROVE  TypeOK'
  BY <1>0, <1>5 DEF StartLoad, TypeOK
<1>6. ASSUME NEW x \in Loads, LoadPage(x)
      PROVE  TypeOK'
  <2>1. PICK c \in Remaining(x) :
          /\ \/ Send(<<PlacedUpdate(c)>>) \/ Send(<<Announcement(c, NoPositions), PlacedUpdate(c)>>)
          /\ announced' = announced \cup {c}
          /\ repeated' \in {repeated, repeated \cup {c}}
          /\ emitted' = [emitted EXCEPT ![x] = @ \cup {c}]
    BY <1>6 DEF LoadPage, PlacedUpdate
  <2>2. c \in Chats
    BY DEF Remaining
  <2>3. PlacedUpdate(c) \in Updates /\ Announcement(c, NoPositions) \in Updates
    BY <2>2, PlacedFacts, AnnouncementFacts
  <2>4. <<PlacedUpdate(c)>> \in Seq(Updates)
        /\ <<Announcement(c, NoPositions), PlacedUpdate(c)>> \in Seq(Updates)
    BY <2>3
  <2>5. /\ stream' \in Seq(Updates) /\ Len(stream') <= Capacity
        /\ everLost' \in BOOLEAN /\ lostSince' \in [Loads -> BOOLEAN]
    BY <1>1, <2>1, <2>4
  <2> QED
    BY <1>0, <1>6, <2>1, <2>2, <2>5 DEF LoadPage, TypeOK
<1>7. ASSUME NEW x \in Loads, LoadExhausted(x) \/ LoadFailed(x)
      PROVE  TypeOK'
  BY <1>0, <1>7 DEF LoadExhausted, LoadFailed, TypeOK
<1>8. ASSUME NEW c \in Chats, Move(c) \/ SetMark(c) \/ Pin(c)
      PROVE  TypeOK'
  <2>1. ASSUME NEW chat, NEW u, Tells(c, chat, u), Change(c, chat, u)
        PROVE  TypeOK'
    BY <1>4, <2>1 DEF Tells
  <2> QED
    BY <1>8, <2>1, ChangesTell
<1>9. CASE UNCHANGED vars
  BY <1>0, <1>9 DEF vars, TypeOK
<1> QED
  BY <1>2, <1>3, <1>5, <1>6, <1>7, <1>8, <1>9 DEF Next

LEMMA InitIInv == Init => IInv
<1> SUFFICES ASSUME Init PROVE IInv
  OBVIOUS
<1>1. /\ \A p \in Positions : LET chat == [NewChat EXCEPT !.positions = p]
                              IN chat \in Chat /\ chat.pinned = {}
  BY DEF NewChat, Chat
<1>2. truth \in [Chats -> Chat] /\ \A c \in Chats : truth[c].pinned = {}
  <2> DEFINE Fresh == {[NewChat EXCEPT !.positions = p] : p \in Positions}
  <2>1. truth \in [Chats -> Fresh]
    BY DEF Init
  <2>2. Fresh \subseteq Chat /\ \A chat \in Fresh : chat.pinned = {}
    BY <1>1
  <2> HIDE DEF Fresh
  <2> QED
    BY <2>1, <2>2
<1>3. chats \in Store /\ DOMAIN chats = {} /\ stream = << >> /\ announced = {}
      /\ \A x \in Loads : emitted[x] = {}
  <2>1. DOMAIN EmptyStore = {} /\ EmptyStore = [c \in {} |-> EmptyStore[c]]
    BY DEF EmptyStore
  <2>2. EmptyStore \in Store
    BY <2>1, StoreFacts
  <2>3. chats = EmptyStore /\ stream = << >> /\ announced = {} /\ emitted = [x \in Loads |-> {}]
    BY DEF Init
  <2> QED
    BY <2>1, <2>2, <2>3
<1>4. TypeOK
  <2>1. stream \in Seq(Updates) /\ Len(stream) <= Capacity
    BY <1>3
  <2>2. announced \subseteq Chats /\ repeated \subseteq announced
    BY <1>3 DEF Init
  <2>3. /\ load \in [Loads -> {"none", "paging", "loaded", "failed"}]
        /\ emitted \in [Loads -> SUBSET Chats] /\ lostSince \in [Loads -> BOOLEAN]
        /\ changes \in 0 .. MaxChanges /\ everLost \in BOOLEAN
    <3>1. /\ load = [x \in Loads |-> "none"] /\ emitted = [x \in Loads |-> {}]
          /\ lostSince = [x \in Loads |-> FALSE] /\ changes = 0 /\ everLost = FALSE
      BY DEF Init
    <3>2. changes \in 0 .. MaxChanges
      BY <3>1
    <3>5. everLost \in BOOLEAN
      BY <3>1
    <3>3. load \in [Loads -> {"none", "paging", "loaded", "failed"}]
      BY <3>1
    <3>4. emitted \in [Loads -> SUBSET Chats] /\ lostSince \in [Loads -> BOOLEAN]
      BY <3>1
    <3> QED
      BY <3>2, <3>3, <3>4, <3>5
  <2> QED
    BY <1>2, <1>3, <2>1, <2>2, <2>3 DEF TypeOK
<1>5. AnnouncedInv
  BY <1>2, <1>3, FS_EmptySet DEF AnnouncedInv
<1>6. WholeInv /\ ResyncInv
  BY <1>3 DEF WholeInv, ResyncInv, Loads
<1> QED
  BY <1>4, <1>5, <1>6 DEF IInv

LEMMA NextStep == IInv /\ [Next]_vars => IInv'
<1> SUFFICES ASSUME IInv, [Next]_vars PROVE IInv'
  OBVIOUS
<1>0. TypeOK /\ AnnouncedInv
  BY DEF IInv
<1>e. /\ emitted \in [Loads -> SUBSET Chats] /\ Resync \in Loads
      /\ lostSince \in [Loads -> BOOLEAN] /\ \A x \in Loads : emitted[x] \subseteq announced
  BY <1>0 DEF TypeOK, AnnouncedInv, Loads
<1>1. ASSUME Fold
      PROVE  AnnouncedInv' /\ WholeInv' /\ ResyncInv'
  BY <1>1, FoldStep
<1>2. ASSUME NEW c \in Chats, Announce(c)
      PROVE  AnnouncedInv' /\ WholeInv' /\ ResyncInv'
  BY <1>2, AnnounceStep
<1>3. ASSUME NEW c \in Chats, Move(c) \/ SetMark(c) \/ Pin(c)
      PROVE  AnnouncedInv' /\ WholeInv' /\ ResyncInv'
  <2>1. PICK chat, u : Tells(c, chat, u) /\ Change(c, chat, u)
    BY <1>0, <1>3, ChangesTell
  <2> QED
    BY <2>1, ChangeStep
<1>4. ASSUME NEW x \in Loads, StartLoad(x)
      PROVE  AnnouncedInv' /\ WholeInv' /\ ResyncInv'
  <2>1. UNCHANGED <<truth, announced, stream, chats, everLost, repeated>>
        /\ emitted' = [emitted EXCEPT ![x] = {}] /\ lostSince' = [lostSince EXCEPT ![x] = FALSE]
    BY <1>4 DEF StartLoad
  <2>2. /\ \A y \in Loads : emitted'[y] \subseteq announced
        /\ ~lostSince'[Resync] => ~lostSince[Resync] \/ emitted'[Resync] = {}
        /\ emitted'[Resync] \subseteq emitted[Resync]
    BY <1>e, <2>1
  <2> QED
    BY <2>1, <2>2, QuietStep
<1>5. ASSUME NEW x \in Loads, LoadPage(x)
      PROVE  AnnouncedInv' /\ WholeInv' /\ ResyncInv'
  BY <1>5, PageStep
<1>6. ASSUME UNCHANGED <<truth, announced, stream, chats, emitted, everLost, lostSince, repeated>>
      PROVE  AnnouncedInv' /\ WholeInv' /\ ResyncInv'
  BY <1>e, <1>6, QuietStep
<1>7. ASSUME NEW x \in Loads, LoadExhausted(x) \/ LoadFailed(x)
      PROVE  AnnouncedInv' /\ WholeInv' /\ ResyncInv'
  BY <1>6, <1>7 DEF LoadExhausted, LoadFailed
<1>8. ASSUME UNCHANGED vars
      PROVE  AnnouncedInv' /\ WholeInv' /\ ResyncInv'
  BY <1>6, <1>8 DEF vars
<1>9. TypeOK'
  BY <1>0, TypeStep
<1> QED
  BY <1>1, <1>2, <1>3, <1>4, <1>5, <1>7, <1>8, <1>9 DEF Next, IInv

\* While no update is lost, every field of every announced chat comes from the stream
\* and the store together as TDLib has it, however loads, resyncs, repeats and changes
\* interleave; and while none is lost since a resync began, so does what it emitted.
THEOREM ChatListInductive == Spec => []IInv
<1>1. Init => IInv
  BY InitIInv
<1>2. IInv /\ [Next]_vars => IInv'
  BY NextStep
<1> QED
  BY <1>1, <1>2, PTL DEF Spec

-----------------------------------------------------------------------------
(* The fold of an update a second time.                                    *)

\* A chat's parts, from its fields.
LEMMA PartsFacts ==
  ASSUME NEW a \in Chat, NEW b \in Chat
  PROVE  /\ \A l \in Lists : (\A f \in Fields : f.kind = "position" /\ f.of = l => Has(a, f) = Has(b, f))
                               => a.positions[l] = b.positions[l]
         /\ (\A f \in Fields : f.kind = "position" => Has(a, f) = Has(b, f)) => a.positions = b.positions
         /\ (\A f \in Fields : f.kind = "mark" => Has(a, f) = Has(b, f)) => a.marks = b.marks
         /\ (\A f \in Fields : f.kind = "pin" => Has(a, f) <= Has(b, f)) => a.pinned \subseteq b.pinned
         /\ (\A f \in Fields : f.kind = "pin" => Has(a, f) = Has(b, f)) => a.pinned = b.pinned
<1>1. /\ a.positions \in [Lists -> 0 .. MaxOrder] /\ b.positions \in [Lists -> 0 .. MaxOrder]
      /\ a.marks \in [Marks -> 0 .. MaxOrder] /\ b.marks \in [Marks -> 0 .. MaxOrder]
      /\ a.pinned \subseteq Messages /\ b.pinned \subseteq Messages
  BY DEF Chat, Positions
<1>2. ASSUME NEW l \in Lists
      PROVE  \E f \in Fields : /\ f.kind = "position" /\ f.of = l
                               /\ Has(a, f) = a.positions[l] /\ Has(b, f) = b.positions[l]
  <2> DEFINE f == [kind |-> "position", of |-> l]
  <2>1. f \in Fields /\ f.kind = "position" /\ f.of = l
    BY DEF Fields
  <2> HIDE DEF f
  <2> QED
    BY <2>1 DEF Has
<1>3. ASSUME NEW m \in Marks
      PROVE  \E f \in Fields : f.kind = "mark" /\ Has(a, f) = a.marks[m] /\ Has(b, f) = b.marks[m]
  <2> DEFINE f == [kind |-> "mark", of |-> m]
  <2>1. f \in Fields /\ f.kind = "mark" /\ f.of = m
    BY DEF Fields
  <2> HIDE DEF f
  <2> QED
    BY <2>1 DEF Has
<1>4. ASSUME NEW m \in Messages
      PROVE  \E f \in Fields : /\ f.kind = "pin"
                               /\ Has(a, f) = IF m \in a.pinned THEN 1 ELSE 0
                               /\ Has(b, f) = IF m \in b.pinned THEN 1 ELSE 0
  <2> DEFINE f == [kind |-> "pin", of |-> m]
  <2>1. f \in Fields /\ f.kind = "pin" /\ f.of = m
    BY DEF Fields
  <2> HIDE DEF f
  <2> QED
    BY <2>1 DEF Has
<1>5. \A l \in Lists : (\A f \in Fields : f.kind = "position" /\ f.of = l => Has(a, f) = Has(b, f))
        => a.positions[l] = b.positions[l]
  BY <1>2
<1>6. (\A f \in Fields : f.kind = "position" => Has(a, f) = Has(b, f)) => a.positions = b.positions
  <2> HAVE \A f \in Fields : f.kind = "position" => Has(a, f) = Has(b, f)
  <2>1. \A l \in Lists : a.positions[l] = b.positions[l]
    BY <1>5
  <2> QED
    BY <1>1, <2>1
<1>7. (\A f \in Fields : f.kind = "mark" => Has(a, f) = Has(b, f)) => a.marks = b.marks
  <2> HAVE \A f \in Fields : f.kind = "mark" => Has(a, f) = Has(b, f)
  <2>1. \A m \in Marks : a.marks[m] = b.marks[m]
    BY <1>3
  <2> QED
    BY <1>1, <2>1
<1>8. (\A f \in Fields : f.kind = "pin" => Has(a, f) <= Has(b, f)) => a.pinned \subseteq b.pinned
  <2> HAVE \A f \in Fields : f.kind = "pin" => Has(a, f) <= Has(b, f)
  <2>1. ASSUME NEW m \in Messages, m \in a.pinned PROVE m \in b.pinned
    <3>1. (IF m \in a.pinned THEN 1 ELSE 0) <= (IF m \in b.pinned THEN 1 ELSE 0)
      BY <1>4
    <3> QED
      BY <2>1, <3>1
  <2> QED
    BY <1>1, <2>1
<1>9. (\A f \in Fields : f.kind = "pin" => Has(a, f) = Has(b, f)) => a.pinned = b.pinned
  <2> HAVE \A f \in Fields : f.kind = "pin" => Has(a, f) = Has(b, f)
  <2>1. ASSUME NEW m \in Messages PROVE m \in a.pinned <=> m \in b.pinned
    <3>1. (IF m \in a.pinned THEN 1 ELSE 0) = (IF m \in b.pinned THEN 1 ELSE 0)
      BY <1>4
    <3> QED
      BY <3>1
  <2> QED
    BY <1>1, <2>1
<1> QED
  BY <1>5, <1>6, <1>7, <1>8, <1>9

LEMMA SameFields ==
  ASSUME NEW a \in Chat, NEW b \in Chat, \A f \in Fields : Has(a, f) = Has(b, f)
  PROVE  a = b
<1>1. a.positions = b.positions /\ a.marks = b.marks /\ a.pinned = b.pinned
  BY PartsFacts
<1>2. /\ a = [positions |-> a.positions, marks |-> a.marks, pinned |-> a.pinned]
      /\ b = [positions |-> b.positions, marks |-> b.marks, pinned |-> b.pinned]
  BY DEF Chat
<1> QED
  BY <1>1, <1>2

LEMMA SecondFold ==
  ASSUME NEW store \in Store, NEW u \in Updates
  PROVE  Reduce(Reduce(store, u), u) = Reduce(store, u)
<1> DEFINE once == Reduce(store, u)
           twice == Reduce(once, u)
<1>1. /\ once \in Store
      /\ DOMAIN once = IF u.kind = "new" THEN DOMAIN store \cup {u.chat} ELSE DOMAIN store
      /\ \A c \in DOMAIN once, f \in Fields :
           Has(once[c], f) = IF Writes(u, c, f) THEN Says(u, f)
                             ELSE IF c \in DOMAIN store THEN Has(store[c], f) ELSE 0
  BY ReduceFacts
<1> HIDE DEF once
<1>2. /\ twice \in Store
      /\ DOMAIN twice = IF u.kind = "new" THEN DOMAIN once \cup {u.chat} ELSE DOMAIN once
      /\ \A c \in DOMAIN twice, f \in Fields :
           Has(twice[c], f) = IF Writes(u, c, f) THEN Says(u, f)
                              ELSE IF c \in DOMAIN once THEN Has(once[c], f) ELSE 0
  BY <1>1, ReduceFacts
<1> HIDE DEF twice
<1>3. DOMAIN twice = DOMAIN once
  BY <1>1, <1>2
<1>4. ASSUME NEW c \in DOMAIN once PROVE twice[c] = once[c]
  <2>1. twice[c] \in Chat /\ once[c] \in Chat
    BY <1>1, <1>2, <1>3, StoreFacts
  <2>2. \A f \in Fields : Has(twice[c], f) = Has(once[c], f)
    BY <1>1, <1>2, <1>3
  <2> QED
    BY <2>1, <2>2, SameFields
<1>5. once = [c \in DOMAIN once |-> once[c]] /\ twice = [c \in DOMAIN twice |-> twice[c]]
  BY <1>1, <1>2, StoreFacts
<1>6. twice = once
  BY <1>3, <1>4, <1>5
<1> QED
  BY <1>6 DEF once, twice

\* What the folds leave is well typed, and an update delivered twice in a row leaves
\* what its first delivery left: a resync and the stream may both announce a chat.
THEOREM ReplayIsNoopHolds == Spec => []ReplayIsNoop
<1>1. IInv => ReplayIsNoop
  <2> SUFFICES ASSUME IInv PROVE ReplayIsNoop
    OBVIOUS
  <2>1. TypeOK /\ chats \in Store /\ stream \in Seq(Updates)
    BY DEF IInv, TypeOK
  <2>2. ASSUME ~Drained PROVE Reduce(Reduce(chats, Head(stream)), Head(stream)) = Reduce(chats, Head(stream))
    <3>1. Head(stream) \in Updates
      BY <2>1, <2>2 DEF Drained
    <3> QED
      BY <2>1, <3>1, SecondFold
  <2> QED
    BY <2>1, <2>2 DEF ReplayIsNoop
<1> QED
  BY <1>1, ChatListInductive, PTL

-----------------------------------------------------------------------------
(* The view of a list.                                                     *)

InList(store, l) == {c \in DOMAIN store : store[c].positions[l] # 0}

\* Two chats of a list are never level: the id breaks the tie.
LEMMA AheadFacts ==
  ASSUME NEW store \in Store, NEW l \in Lists
  PROVE  /\ \A c \in DOMAIN store : ~Ahead(store, l, c, c)
         /\ \A c, d \in DOMAIN store : c # d => Ahead(store, l, c, d) \/ Ahead(store, l, d, c)
         /\ \A c, d, e \in DOMAIN store :
              Ahead(store, l, c, d) /\ Ahead(store, l, d, e) => Ahead(store, l, c, e)
<1>1. \A c \in DOMAIN store : c \in Nat /\ store[c].positions[l] \in Nat
  <2>1. \A c \in DOMAIN store : c \in Chats /\ store[c] \in Chat
    BY StoreFacts
  <2>2. \A chat \in Chat : chat.positions[l] \in 0 .. MaxOrder
    BY DEF Chat, Positions
  <2>3. \A k \in 0 .. MaxOrder : k \in Nat
    OBVIOUS
  <2> QED
    BY <2>1, <2>2, <2>3
<1>2. PICK at : at = [c \in DOMAIN store |-> store[c].positions[l]]
  OBVIOUS
<1>3. /\ \A c \in DOMAIN store : at[c] \in Nat /\ c \in Nat
      /\ \A c, d \in DOMAIN store :
           Ahead(store, l, c, d) <=> at[c] > at[d] \/ (at[c] = at[d] /\ c > d)
  BY <1>1, <1>2 DEF Ahead
<1> QED
  BY <1>3

\* A chat's rank is one more than the number of those ahead of it: the ranks of n chats
\* are 1 to n, and taking the chats by rank puts them in order.
LEMMA SortedExists ==
  ASSUME NEW store \in Store, NEW l \in Lists, NEW in, in = InList(store, l), IsFiniteSet(in),
         NEW n, n = Cardinality(in)
  PROVE  \E shown \in [1 .. n -> in] :
           \A i, j \in 1 .. n : i < j => Ahead(store, l, shown[i], shown[j])
<1> DEFINE before(c) == {d \in in : Ahead(store, l, d, c)}
           rank == [c \in in |-> Cardinality(before(c)) + 1]
<1>1. /\ \A c \in in : ~Ahead(store, l, c, c)
      /\ \A c, d \in in : c # d => Ahead(store, l, c, d) \/ Ahead(store, l, d, c)
      /\ \A c, d, e \in in :
           Ahead(store, l, c, d) /\ Ahead(store, l, d, e) => Ahead(store, l, c, e)
  <2>1. in \subseteq DOMAIN store
    BY DEF InList
  <2> QED
    BY <2>1, AheadFacts
<1>2. n \in Nat
  BY FS_CardinalityType
<1>3. ASSUME NEW c \in in
      PROVE  IsFiniteSet(before(c)) /\ Cardinality(before(c)) \in 0 .. (n - 1)
  <2>1. before(c) \subseteq in \ {c}
    BY <1>1
  <2>2. IsFiniteSet(in \ {c}) /\ Cardinality(in \ {c}) = n - 1
    BY FS_RemoveElement
  <2> HIDE DEF before
  <2>3. IsFiniteSet(before(c)) /\ Cardinality(before(c)) <= n - 1
    BY <2>1, <2>2, FS_Subset
  <2>4. Cardinality(before(c)) \in Nat
    BY <2>3, FS_CardinalityType
  <2> QED
    BY <1>2, <2>3, <2>4
<1>4. ASSUME NEW c \in in, NEW d \in in, Ahead(store, l, c, d)
      PROVE  Cardinality(before(c)) < Cardinality(before(d))
  <2>1. before(c) \cup {c} \subseteq before(d) /\ c \notin before(c)
    BY <1>1, <1>4
  <2>2. /\ IsFiniteSet(before(c)) /\ Cardinality(before(c)) \in 0 .. (n - 1)
        /\ IsFiniteSet(before(d)) /\ Cardinality(before(d)) \in 0 .. (n - 1)
    BY <1>3
  <2> HIDE DEF before
  <2>3. Cardinality(before(c) \cup {c}) = Cardinality(before(c)) + 1
    BY <2>1, <2>2, FS_AddElement
  <2>4. Cardinality(before(c) \cup {c}) <= Cardinality(before(d))
    BY <2>1, <2>2, FS_Subset
  <2> QED
    BY <1>2, <2>2, <2>3, <2>4
<1> HIDE DEF before
<1>5. rank \in [in -> 1 .. n] /\ \A c, d \in in : Ahead(store, l, c, d) => rank[c] < rank[d]
  <2>1. \A c \in in : Cardinality(before(c)) + 1 \in 1 .. n
    BY <1>2, <1>3
  <2>2. \A c, d \in in : Ahead(store, l, c, d) =>
          Cardinality(before(c)) + 1 < Cardinality(before(d)) + 1
    BY <1>2, <1>3, <1>4
  <2> QED
    BY <2>1, <2>2
<1> HIDE DEF rank
<1>6. \A c, d \in in : rank[c] = rank[d] => c = d
  BY <1>1, <1>2, <1>5
<1>7. rank \in Surjection(in, 1 .. n)
  <2>1. rank \in Injection(in, 1 .. n)
    BY <1>5, <1>6 DEF Injection, IsInjective
  <2>2. IsFiniteSet(1 .. n) /\ Cardinality(1 .. n) = n
    BY <1>2, FS_Interval
  <2> QED
    BY <2>1, <2>2, FS_Injection
<1> DEFINE g == [i \in 1 .. n |-> CHOOSE c \in in : rank[c] = i]
<1>8. \A i \in 1 .. n : g[i] \in in /\ rank[g[i]] = i
  BY <1>7 DEF Surjection
<1> HIDE DEF g
<1>9. ASSUME NEW i \in 1 .. n, NEW j \in 1 .. n, i < j
      PROVE  Ahead(store, l, g[i], g[j])
  <2>1. /\ g[i] \in in /\ rank[g[i]] = i /\ g[j] \in in /\ rank[g[j]] = j
    BY <1>8
  <2>2. g[i] # g[j] /\ ~Ahead(store, l, g[j], g[i])
    BY <1>2, <1>5, <1>9, <2>1
  <2> QED
    BY <1>1, <2>1, <2>2
<1>10. g \in [1 .. n -> in]
  BY <1>8 DEF g
<1> QED
  BY <1>9, <1>10

\* The view of a list has each of its chats once, in order.
LEMMA OrderedByFacts ==
  ASSUME NEW store \in Store, NEW l \in Lists, IsFiniteSet(DOMAIN store)
  PROVE  LET shown == OrderedBy(store, l)
         IN /\ \A i \in 1 .. Len(shown) : shown[i] \in InList(store, l)
            /\ \A c \in InList(store, l) : \E i \in 1 .. Len(shown) : shown[i] = c
            /\ \A i, j \in 1 .. Len(shown) : i < j => Ahead(store, l, shown[i], shown[j])
<1> DEFINE in == InList(store, l)
           n == Cardinality(in)
           shown == OrderedBy(store, l)
<1>1. in \subseteq DOMAIN store /\ IsFiniteSet(in) /\ n \in Nat
  <2>1. in \in SUBSET DOMAIN store
    BY DEF InList
  <2>2. IsFiniteSet(in)
    BY <2>1, FS_Subset
  <2> QED
    BY <2>1, <2>2, FS_CardinalityType
<1>2. shown = CHOOSE s \in [1 .. n -> in] :
                \A i, j \in 1 .. n : i < j => Ahead(store, l, s[i], s[j])
  BY DEF OrderedBy, InList
<1>3. \E s \in [1 .. n -> in] : \A i, j \in 1 .. n : i < j => Ahead(store, l, s[i], s[j])
  BY <1>1, SortedExists
<1> HIDE DEF in, n, shown
<1>4. shown \in [1 .. n -> in] /\ \A i, j \in 1 .. n : i < j => Ahead(store, l, shown[i], shown[j])
  BY <1>2, <1>3
<1>5. Len(shown) = n
  <2>1. shown \in Seq(in)
    BY <1>1, <1>4, SeqDef
  <2>2. DOMAIN shown = 1 .. Len(shown) /\ Len(shown) \in Nat
    BY <2>1, LenProperties
  <2>3. 1 .. Len(shown) = 1 .. n
    BY <1>4, <2>2
  <2> HIDE DEF shown
  <2>4. ASSUME NEW m \in Nat, 1 .. m = 1 .. n PROVE m = n
    <3>1. ~(m < n)
      <4>1. m < n => n \in 1 .. n /\ n \notin 1 .. m
        BY <1>1
      <4> QED
        BY <2>4, <4>1
    <3>2. ~(n < m)
      <4>1. n < m => m \in 1 .. m /\ m \notin 1 .. n
        BY <1>1
      <4> QED
        BY <2>4, <4>1
    <3> QED
      BY <1>1, <3>1, <3>2
  <2> QED
    BY <2>2, <2>3, <2>4
<1>6. shown \in Injection(1 .. n, in)
  <2>1. \A c \in in : ~Ahead(store, l, c, c)
    BY <1>1, AheadFacts
  <2>2. \A i, j \in 1 .. n : i # j => shown[i] # shown[j]
    BY <1>1, <1>4, <2>1
  <2> QED
    BY <1>4, <2>2 DEF Injection, IsInjective
<1>7. shown \in Surjection(1 .. n, in)
  <2>1. IsFiniteSet(1 .. n) /\ Cardinality(1 .. n) = n
    BY <1>1, FS_Interval
  <2>2. Cardinality(1 .. n) = Cardinality(in)
    BY <2>1 DEF n
  <2> QED
    BY <1>1, <1>6, <2>2, FS_Injection
<1>8. \A c \in in : \E i \in 1 .. n : shown[i] = c
  BY <1>7 DEF Surjection
<1> QED
  BY <1>4, <1>5, <1>8 DEF shown, in

-----------------------------------------------------------------------------
(* The store against TDLib's chats.                                        *)

\* Nothing left to fold: what comes is there.
LEMMA DrainedHas ==
  ASSUME Drained, NEW c, NEW f, NEW v, Comes(c, f, v)
  PROVE  c \in DOMAIN chats /\ Has(chats[c], f) = v
<1>1. Arrives(<< >>, chats, c, f, v)
  BY DEF Drained, Comes
<1> QED
  BY <1>1, EmptyArrives

\* Everything announced is in the store and everything there is right, but for pins.
LEMMA DrainedWhole ==
  ASSUME IInv, Drained, ~everLost
  PROVE  /\ announced = DOMAIN chats
         /\ \A c \in announced : /\ chats[c].positions = truth[c].positions
                                 /\ chats[c].marks = truth[c].marks
                                 /\ chats[c].pinned \subseteq truth[c].pinned
                                 /\ c \notin repeated => chats[c].pinned = truth[c].pinned
<1>0. TypeOK /\ AnnouncedInv /\ WholeInv
  BY DEF IInv
<1>1. ASSUME NEW c \in announced, NEW f \in Fields, f.kind # "pin"
      PROVE  c \in DOMAIN chats /\ Has(chats[c], f) = Has(truth[c], f)
  <2>1. Comes(c, f, Has(truth[c], f))
    BY <1>0, <1>1 DEF WholeInv
  <2> QED
    BY <2>1, DrainedHas
<1>2. ASSUME NEW c \in announced, NEW f \in Fields, f.kind = "pin"
      PROVE  /\ Has(chats[c], f) <= Has(truth[c], f)
             /\ c \notin repeated => Has(chats[c], f) = Has(truth[c], f)
  <2>1. PICK v \in {0, 1} :
          Comes(c, f, v) /\ v <= Has(truth[c], f) /\ (c \notin repeated => v = Has(truth[c], f))
    BY <1>0, <1>2 DEF WholeInv, PinComes
  <2>2. Has(chats[c], f) = v
    BY <2>1, DrainedHas
  <2> QED
    BY <2>1, <2>2
<1>3. announced \subseteq DOMAIN chats
  <2> DEFINE f == [kind |-> "position", of |-> Main]
  <2>1. f \in Fields /\ f.kind # "pin"
    BY DEF Fields
  <2> HIDE DEF f
  <2> QED
    BY <1>1, <2>1
<1>4. \A c \in announced : chats[c] \in Chat /\ truth[c] \in Chat
  BY <1>0, <1>3, StoreFacts DEF TypeOK
<1>5. ASSUME NEW c \in announced
      PROVE  /\ chats[c].positions = truth[c].positions
             /\ chats[c].marks = truth[c].marks
             /\ chats[c].pinned \subseteq truth[c].pinned
             /\ c \notin repeated => chats[c].pinned = truth[c].pinned
  <2>1. /\ \A f \in Fields : f.kind = "position" => Has(chats[c], f) = Has(truth[c], f)
        /\ \A f \in Fields : f.kind = "mark" => Has(chats[c], f) = Has(truth[c], f)
    BY <1>1
  <2>2. /\ \A f \in Fields : f.kind = "pin" => Has(chats[c], f) <= Has(truth[c], f)
        /\ c \notin repeated =>
             \A f \in Fields : f.kind = "pin" => Has(chats[c], f) = Has(truth[c], f)
    BY <1>2
  <2> QED
    BY <1>4, <2>1, <2>2, PartsFacts
<1> QED
  BY <1>0, <1>3, <1>5 DEF AnnouncedInv

LEMMA DrainedShows ==
  ASSUME IInv, Drained, ~everLost, NEW l \in Lists
  PROVE  ShowsList(OrderedBy(chats, l), l)
<1> DEFINE shown == OrderedBy(chats, l)
<1>1. announced = DOMAIN chats /\ \A c \in announced : chats[c].positions = truth[c].positions
  BY DrainedWhole
<1>2. chats \in Store /\ IsFiniteSet(DOMAIN chats)
  BY <1>1 DEF IInv, TypeOK, AnnouncedInv
<1>3. /\ \A i \in 1 .. Len(shown) : shown[i] \in InList(chats, l)
      /\ \A c \in InList(chats, l) : \E i \in 1 .. Len(shown) : shown[i] = c
      /\ \A i, j \in 1 .. Len(shown) : i < j => Ahead(chats, l, shown[i], shown[j])
  BY <1>2, OrderedByFacts
<1>4. InList(chats, l) = {c \in announced : truth[c].positions[l] # 0}
  BY <1>1 DEF InList
<1> HIDE DEF shown
<1>5. {shown[i] : i \in 1 .. Len(shown)} = {c \in announced : truth[c].positions[l] # 0}
  BY <1>3, <1>4
<1>6. ASSUME NEW i \in 1 .. Len(shown), NEW j \in 1 .. Len(shown), i < j
      PROVE  LET a == truth[shown[i]].positions[l]
                 b == truth[shown[j]].positions[l]
             IN a > b \/ (a = b /\ shown[i] > shown[j])
  <2>1. shown[i] \in announced /\ shown[j] \in announced
    BY <1>3, <1>4
  <2>2. Ahead(chats, l, shown[i], shown[j])
    BY <1>3, <1>6
  <2> QED
    BY <1>1, <2>1, <2>2 DEF Ahead
<1>7. ShowsList(shown, l)
  BY <1>5, <1>6 DEF ShowsList
<1> QED
  BY <1>7 DEF shown

LEMMA DrainedCovers ==
  ASSUME IInv, Drained, ~lostSince[Resync], NEW c \in emitted[Resync]
  PROVE  /\ c \in DOMAIN chats
         /\ chats[c].marks = truth[c].marks
         /\ chats[c].positions[Main] = truth[c].positions[Main]
<1>0. TypeOK /\ AnnouncedInv /\ ResyncInv
  BY DEF IInv
<1>1. ASSUME NEW f \in Fields, f.kind = "mark" \/ (f.kind = "position" /\ f.of = Main)
      PROVE  c \in DOMAIN chats /\ Has(chats[c], f) = Has(truth[c], f)
  <2>1. Comes(c, f, Has(truth[c], f))
    BY <1>0, <1>1 DEF ResyncInv
  <2> QED
    BY <2>1, DrainedHas
<1>2. c \in DOMAIN chats
  <2> DEFINE f == [kind |-> "position", of |-> Main]
  <2>1. f \in Fields /\ f.kind = "position" /\ f.of = Main
    BY DEF Fields
  <2> HIDE DEF f
  <2> QED
    BY <1>1, <2>1
<1>3. chats[c] \in Chat /\ truth[c] \in Chat
  <2>1. chats \in Store /\ truth \in [Chats -> Chat] /\ c \in Chats
    BY <1>0 DEF TypeOK, Loads
  <2> QED
    BY <1>2, <2>1, StoreFacts
<1> QED
  BY <1>1, <1>2, <1>3, PartsFacts

\* The store is as good as its stream.  Once every update is folded and none was lost,
\* it holds the announced chats as TDLib has them and each list in TDLib's order; and
\* after a resync that lost nothing, whatever was lost before, the chats TDLib emitted
\* for it are there with their marks and their place in the Main list.
THEOREM StoreAgreesHolds == Spec => []StoreAgrees
<1>1. IInv => StoreAgrees
  <2> SUFFICES ASSUME IInv PROVE StoreAgrees
    OBVIOUS
  <2>1. Converges
    BY DrainedWhole, DrainedShows DEF Converges
  <2>2. ResyncCovers
    BY DrainedCovers DEF ResyncCovers
  <2> QED
    BY <2>1, <2>2 DEF StoreAgrees
<1> QED
  BY <1>1, ChatListInductive, PTL

=============================================================================
