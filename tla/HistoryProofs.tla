---------------------------- MODULE HistoryProofs ----------------------------
(***************************************************************************)
(* Proofs about MessageHistory and OpenHistory for every number of         *)
(* messages and versions, page size, buffer, number of openings and of     *)
(* failures.  The first part is about the steps beside the loop, which     *)
(* both specifications take; the second about the loop's own.              *)
(***************************************************************************)
EXTENDS OpenHistory, WellFoundedInduction, NaturalsInduction, TLAPS

USE BoundsAssumption, OpenBoundsAssumption

\* A message somebody else wrote, in a state of TDLib's messages.
Theirs(td, i) == td[i].state \in {"incoming", "deleted"}

\* No step of TDLib makes it anybody else's.
TheirsKept == \A i \in Ids : Theirs(server, i) => Theirs(server', i)

\* What is on the way to the store, or in it, as incoming is TDLib's as well.
Provenance ==
  /\ \A i \in Ids : store[i].state = "incoming" => Theirs(server, i)
  /\ \A k \in 1 .. Len(stream) :
       /\ stream[k].kind \in {"new", "failed", "succeeded"}
       /\ stream[k].message.state = "incoming"
       => Theirs(server, stream[k].id)
  /\ \A i \in DOMAIN fetch.page : fetch.page[i].state = "incoming" => Theirs(server, i)

-----------------------------------------------------------------------------
\* Every nonempty set of naturals up to a bound has a least and a greatest element.
LEMMA MinFacts ==
  ASSUME NEW S \in SUBSET Nat, S # {}
  PROVE  Min(S) \in S /\ \A x \in S : Min(S) <= x
<1>1. PICK m \in S : \A y \in S : ~(<<y, m>> \in OpToRel(<, Nat))
  BY NatLessThanWellFounded, WFMin
<1>2. ASSUME NEW y \in S, y < m
      PROVE  FALSE
  <2>1. <<y, m>> \in OpToRel(<, Nat)
    BY <1>2, Zenon DEF OpToRel
  <2> QED
    BY <1>1, <2>1
<1>3. \A y \in S : m <= y
  BY <1>2
<1> QED
  BY <1>3 DEF Min

\* The greatest one, by the least distance from the bound.
LEMMA MaxFacts ==
  ASSUME NEW n \in Nat, NEW S \in SUBSET (0 .. n), S # {}
  PROVE  Max(S) \in S /\ \A x \in S : x <= Max(S)
<1> DEFINE T == {n - x : x \in S}
<1>1. \A x \in S : x \in Nat /\ n - x \in Nat
  OBVIOUS
<1>2. T \in SUBSET Nat /\ T # {}
  BY <1>1, Zenon
<1>3. Min(T) \in T /\ \A y \in T : Min(T) <= y
  BY <1>2, MinFacts
<1>4. PICK m \in S : Min(T) = n - m
  BY <1>3
<1>5. \A x \in S : n - m <= n - x
  BY <1>3, <1>4
<1>6. \A x \in S : x <= m
  BY <1>1, <1>5
<1> QED
  BY <1>6 DEF Max

\* Before a sequence of some set grows, its head may have gone.
LEMMA SendFacts ==
  ASSUME TypeOK, NEW u \in Updates, Send(u)
  PROVE  /\ stream' \in Seq(Updates) /\ Len(stream') <= Capacity
         /\ lost' \subseteq Ids
         /\ \A k \in 1 .. Len(stream') :
              \/ stream'[k] = u
              \/ \E j \in 1 .. Len(stream) : stream'[k] = stream[j]
<1>1. CASE Len(stream) < Capacity
  BY <1>1 DEF Send, TypeOK
<1>2. CASE ~(Len(stream) < Capacity)
  <2>1. Len(stream) = Capacity /\ stream # << >> /\ stream \in Seq(Updates)
    BY <1>2 DEF TypeOK
  <2>2. Tail(stream) \in Seq(Updates) /\ Len(Tail(stream)) = Len(stream) - 1
    BY <2>1
  <2>3. stream' = Append(Tail(stream), u) /\ lost' = lost \cup About(Head(stream))
    BY <1>2 DEF Send
  <2>4. Head(stream) \in Updates
    BY <2>1
  <2>5. About(Head(stream)) \subseteq Ids
    BY <2>4 DEF About, Updates
  <2>6. \A k \in 1 .. Len(Tail(stream)) : Tail(stream)[k] = stream[k + 1]
    BY <2>1
  <2> QED
    BY <2>1, <2>2, <2>3, <2>5, <2>6 DEF TypeOK
<1> QED
  BY <1>1, <1>2

\* A page holds messages of the chat.
LEMMA PageIds ==
  ASSUME TypeOK
  PROVE  /\ DOMAIN fetch.page \subseteq Ids
         /\ \A i \in DOMAIN fetch.page : fetch.page[i] \in Message
<1>1. PICK S \in SUBSET Ids : fetch.page \in [S -> Message]
  BY DEF TypeOK, Fetch, Pages
<1> QED
  BY <1>1

\* TDLib changes its messages and sends an update about it.
LEMMA TdlibInv ==
  ASSUME TypeOK, Provenance, NEW u \in Updates, Send(u),
         server' \in [Ids -> Message],
         TheirsKept,
         u.kind \in {"new", "failed", "succeeded"} /\ u.message.state = "incoming"
           => Theirs(server', u.id),
         unheard' \subseteq Ids, UNCHANGED quiet
  PROVE  TypeOK' /\ Provenance' /\ TheirsKept
<1>1. /\ stream' \in Seq(Updates) /\ Len(stream') <= Capacity
      /\ lost' \subseteq Ids
      /\ \A k \in 1 .. Len(stream') :
           \/ stream'[k] = u
           \/ \E j \in 1 .. Len(stream) : stream'[k] = stream[j]
  BY SendFacts
<1>2. TypeOK'
  BY <1>1 DEF TypeOK, quiet
<1>3. \A i \in Ids : store'[i].state = "incoming" => Theirs(server', i)
  BY DEF Provenance, quiet, TheirsKept
<1>4. DOMAIN fetch.page \subseteq Ids
  BY PageIds
<1>5. \A i \in DOMAIN fetch'.page : fetch'.page[i].state = "incoming" => Theirs(server', i)
  BY <1>4 DEF Provenance, quiet, TheirsKept
<1>6. ASSUME NEW k \in 1 .. Len(stream'), stream'[k].kind \in {"new", "failed", "succeeded"},
             stream'[k].message.state = "incoming"
      PROVE  Theirs(server', stream'[k].id)
  <2>1. CASE stream'[k] = u
    BY <1>6, <2>1 DEF Theirs
  <2>2. CASE \E j \in 1 .. Len(stream) : stream'[k] = stream[j]
    <3>1. PICK j \in 1 .. Len(stream) : stream'[k] = stream[j]
      BY <2>2
    <3>2. stream[j] \in Updates
      BY DEF TypeOK
    <3>3. stream[j].id \in Ids
      BY <3>2 DEF Updates
    <3>4. Theirs(server, stream[j].id)
      BY <1>6, <3>1 DEF Provenance
    <3>5. Theirs(server', stream[j].id)
      BY <3>3, <3>4 DEF Theirs, TheirsKept
    <3> QED
      BY <3>1, <3>5 DEF Theirs
  <2> QED
    BY <1>1, <2>1, <2>2
<1> QED
  BY <1>2, <1>3, <1>5, <1>6 DEF Provenance

\* Each step of TDLib keeps a message that is theirs theirs, and announces as
\* incoming only what is.
LEMMA CreateInv ==
  ASSUME TypeOK, Provenance, Create
  PROVE  TypeOK' /\ Provenance' /\ TheirsKept
<1>1. PICK i \in Fresh, state \in {"incoming", "pending"} :
        /\ server' = [server EXCEPT ![i] = New(state)]
        /\ Send([kind |-> "new", id |-> i, message |-> New(state)])
  BY DEF Create
<1> DEFINE u == [kind |-> "new", id |-> i, message |-> New(state)]
<1>2. i \in Ids /\ server[i] = None /\ server \in [Ids -> Message]
  BY DEF Fresh, TypeOK
<1>3. New(state) \in Message /\ u \in Updates
  BY <1>2 DEF New, Message, Updates
<1>4. server' \in [Ids -> Message]
  BY <1>1, <1>2, <1>3
<1>5. TheirsKept
  BY <1>1, <1>2 DEF TheirsKept, Theirs, None
<1>6. u.message.state = "incoming" => Theirs(server', u.id)
  BY <1>1, <1>2 DEF Theirs, New
<1>7. unheard' \subseteq Ids /\ UNCHANGED quiet /\ Send(u)
  BY <1>1 DEF Create, TypeOK
<1> HIDE DEF u
<1> QED
  BY <1>3, <1>4, <1>5, <1>6, <1>7, TdlibInv

\* The new message is ours, and the pending one it replaces was.
LEMMA SendSucceedsInv ==
  ASSUME TypeOK, Provenance, SendSucceeds
  PROVE  TypeOK' /\ Provenance' /\ TheirsKept
<1>1. PICK old \in Ids, i \in Fresh :
        /\ server[old].state = "pending"
        /\ server' = [server EXCEPT ![old].state = "deleted", ![i] = New("sent")]
        /\ Send([kind |-> "succeeded", old |-> old, id |-> i, message |-> New("sent")])
  BY DEF SendSucceeds
<1> DEFINE u == [kind |-> "succeeded", old |-> old, id |-> i, message |-> New("sent")]
<1>2. i \in Ids /\ server[i] = None /\ server \in [Ids -> Message]
  BY DEF Fresh, TypeOK
<1>3. New("sent") \in Message /\ u \in Updates
  BY <1>2 DEF New, Message, Updates
<1>4. server' = [j \in Ids |-> IF j = i THEN New("sent")
                               ELSE IF j = old THEN [server[old] EXCEPT !.state = "deleted"]
                               ELSE server[j]]
  BY <1>1, <1>2, Zenon
<1>5. [server[old] EXCEPT !.state = "deleted"] \in Message
  BY <1>2 DEF Message
<1>6. server' \in [Ids -> Message]
  BY <1>2, <1>3, <1>4, <1>5
<1>7. TheirsKept
  BY <1>1, <1>2, <1>4 DEF TheirsKept, Theirs, None
<1>8. u.message.state # "incoming"
  BY DEF New
<1>9. unheard' \subseteq Ids /\ UNCHANGED quiet /\ Send(u)
  BY <1>1 DEF SendSucceeds, TypeOK
<1> HIDE DEF u
<1> QED
  BY <1>3, <1>6, <1>7, <1>8, <1>9, TdlibInv

\* A rejected message was ours.
LEMMA SendFailsInv ==
  ASSUME TypeOK, Provenance, SendFails
  PROVE  TypeOK' /\ Provenance' /\ TheirsKept
<1>1. PICK i \in Ids :
        /\ server[i].state = "pending"
        /\ server' = [server EXCEPT ![i].state = "failed"]
        /\ Send([kind |-> "failed", id |-> i, message |-> server'[i]])
  BY DEF SendFails
<1> DEFINE u == [kind |-> "failed", id |-> i, message |-> server'[i]]
<1>2. server \in [Ids -> Message]
  BY DEF TypeOK
<1>3. server' \in [Ids -> Message] /\ server'[i].state = "failed"
  BY <1>1, <1>2 DEF Message
<1>4. u \in Updates
  BY <1>3 DEF Updates
<1>5. TheirsKept
  BY <1>1, <1>2 DEF TheirsKept, Theirs
<1>6. u.message.state # "incoming"
  BY <1>3
<1>7. unheard' \subseteq Ids /\ UNCHANGED quiet /\ Send(u)
  BY <1>1 DEF SendFails, TypeOK
<1> HIDE DEF u
<1> QED
  BY <1>3, <1>4, <1>5, <1>6, <1>7, TdlibInv

\* A change touches a version only, whether it is announced or not.
LEMMA ChangeInv ==
  ASSUME TypeOK, Provenance, Change
  PROVE  TypeOK' /\ Provenance' /\ TheirsKept
<1>1. PICK i \in Ids :
        /\ server[i].state \in {"incoming", "sent"}
        /\ server[i].version < MaxVersion
        /\ server' = [server EXCEPT ![i].version = @ + 1]
        /\ \/ /\ Send([kind |-> "content", id |-> i, message |-> server'[i]])
              /\ UNCHANGED unheard
           \/ /\ ~tdOpen
              /\ unheard' = unheard \cup {i}
              /\ UNCHANGED <<stream, lost>>
  BY DEF Change
<1> DEFINE u == [kind |-> "content", id |-> i, message |-> server'[i]]
<1>2. server \in [Ids -> Message] /\ MaxVersion \in Nat
  BY DEF TypeOK
<1>3. server' \in [Ids -> Message]
  BY <1>1, <1>2 DEF Message
<1>4. u \in Updates /\ u.kind = "content"
  BY <1>3 DEF Updates
<1>5. TheirsKept
  BY <1>1, <1>2 DEF TheirsKept, Theirs
<1>6. UNCHANGED quiet /\ unheard \subseteq Ids
  BY DEF Change, TypeOK
<1>7. CASE Send(u) /\ UNCHANGED unheard
  <2> HIDE DEF u
  <2> QED
    BY <1>3, <1>4, <1>5, <1>6, <1>7, TdlibInv
<1>8. CASE unheard' = unheard \cup {i} /\ UNCHANGED <<stream, lost>>
  <2>1. TypeOK'
    BY <1>3, <1>6, <1>8 DEF TypeOK, quiet
  <2>2. \A k \in 1 .. Len(stream) : stream[k].id \in Ids
    BY DEF TypeOK, Updates
  <2>3. DOMAIN fetch.page \subseteq Ids
    BY PageIds
  <2> QED
    BY <1>5, <1>6, <1>8, <2>1, <2>2, <2>3 DEF Provenance, quiet, TheirsKept
<1> QED
  BY <1>1, <1>7, <1>8

\* A deleted message may have been anybody's.
LEMMA DeleteInv ==
  ASSUME TypeOK, Provenance, Delete
  PROVE  TypeOK' /\ Provenance' /\ TheirsKept
<1>1. PICK i \in Ids :
        /\ server' = [server EXCEPT ![i].state = "deleted"]
        /\ Send([kind |-> "delete", id |-> i])
  BY DEF Delete
<1> DEFINE u == [kind |-> "delete", id |-> i]
<1>2. server \in [Ids -> Message]
  BY DEF TypeOK
<1>3. server' \in [Ids -> Message]
  BY <1>1, <1>2 DEF Message
<1>4. u \in Updates /\ u.kind = "delete"
  BY DEF Updates
<1>5. TheirsKept
  BY <1>1, <1>2 DEF TheirsKept, Theirs
<1>6. unheard' \subseteq Ids /\ UNCHANGED quiet /\ Send(u)
  BY <1>1 DEF Delete, TypeOK
<1> HIDE DEF u
<1> QED
  BY <1>3, <1>4, <1>5, <1>6, TdlibInv

\* An eviction changes nothing of TDLib's messages.
LEMMA EvictInv ==
  ASSUME TypeOK, Provenance, Evict
  PROVE  TypeOK' /\ Provenance' /\ TheirsKept
<1>1. PICK i \in Ids : Send([kind |-> "evict", id |-> i])
  BY DEF Evict
<1> DEFINE u == [kind |-> "evict", id |-> i]
<1>2. u \in Updates /\ u.kind = "evict"
  BY DEF Updates
<1>3. /\ server' \in [Ids -> Message] /\ server' = server
      /\ unheard' \subseteq Ids /\ UNCHANGED quiet /\ Send(u)
  BY <1>1 DEF Evict, TypeOK
<1> HIDE DEF u
<1> QED
  BY <1>2, <1>3, TdlibInv DEF TheirsKept

\* Nor does the chat's read mark.
LEMMA SendMarkInv ==
  ASSUME TypeOK, Provenance, NEW i \in Ids, SendMark(i)
  PROVE  TypeOK' /\ Provenance' /\ TheirsKept
<1> DEFINE u == [kind |-> "read", id |-> i]
<1>1. u \in Updates /\ u.kind = "read"
  BY DEF Updates
<1>2. /\ server' \in [Ids -> Message] /\ server' = server
      /\ unheard' \subseteq Ids /\ UNCHANGED quiet /\ Send(u)
  BY DEF SendMark, TypeOK
<1> HIDE DEF u
<1> QED
  BY <1>1, <1>2, TdlibInv DEF TheirsKept

-----------------------------------------------------------------------------
\* A folded update puts into the store only the message it brings, or what was
\* there in another version, or nothing.
LEMMA ReduceFacts ==
  ASSUME NEW s \in [Ids -> Message], NEW u \in Updates
  PROVE  /\ Reduce(s, u) \in [Ids -> Message]
         /\ \A i \in Ids :
              \/ Reduce(s, u)[i].state = s[i].state
              \/ Reduce(s, u)[i] = None
              \/ /\ u.kind \in {"new", "failed", "succeeded"}
                 /\ i = u.id /\ Reduce(s, u)[i] = u.message
<1>1. None \in Message
  BY DEF None, Message
<1>2. CASE u.kind \in {"new", "failed"}
  <2>1. u.id \in Ids /\ u.message \in Message
    BY <1>2 DEF Updates
  <2>2. Reduce(s, u) = [s EXCEPT ![u.id] = u.message]
    BY <1>2 DEF Reduce
  <2> QED
    BY <1>2, <2>1, <2>2
<1>3. CASE u.kind = "content"
  <2>1. u.id \in Ids /\ u.message \in Message
    BY <1>3 DEF Updates
  <2>2. Reduce(s, u) = IF s[u.id] = None THEN s
                       ELSE [s EXCEPT ![u.id].version = u.message.version]
    BY <1>3 DEF Reduce
  <2> QED
    BY <2>1, <2>2 DEF Message
<1>4. CASE u.kind = "succeeded"
  <2>1. u.id \in Ids /\ u.old \in Ids /\ u.message \in Message
    BY <1>4 DEF Updates
  <2>2. Reduce(s, u) = [s EXCEPT ![u.old] = None, ![u.id] = u.message]
    BY <1>4 DEF Reduce
  <2>3. Reduce(s, u) = [i \in Ids |-> IF i = u.id THEN u.message
                                      ELSE IF i = u.old THEN None ELSE s[i]]
    BY <2>1, <2>2, Zenon
  <2> QED
    BY <1>1, <1>4, <2>1, <2>3
<1>5. CASE u.kind = "delete"
  <2>1. u.id \in Ids /\ Reduce(s, u) = [s EXCEPT ![u.id] = None]
    BY <1>5 DEF Updates, Reduce
  <2> QED
    BY <1>1, <2>1
<1>6. CASE u.kind \in {"evict", "read"}
  BY <1>6 DEF Reduce
<1>7. u.kind \in {"new", "failed", "content", "succeeded", "delete", "evict", "read"}
  BY DEF Updates
<1> QED
  BY <1>2, <1>3, <1>4, <1>5, <1>6, <1>7

\* Provenance moves from the stream to the store.
LEMMA FoldInv ==
  ASSUME TypeOK, Provenance, Fold
  PROVE  TypeOK' /\ Provenance' /\ TheirsKept
<1> DEFINE u == Head(stream)
<1>1. stream # << >> /\ store' = Reduce(store, u) /\ stream' = Tail(stream)
  BY DEF Fold
<1>2. /\ stream \in Seq(Updates) /\ u \in Updates /\ u = stream[1] /\ 1 \in 1 .. Len(stream)
      /\ stream' \in Seq(Updates) /\ Len(stream') = Len(stream) - 1
      /\ \A k \in 1 .. Len(stream') : stream'[k] = stream[k + 1] /\ k + 1 \in 1 .. Len(stream)
  BY <1>1 DEF TypeOK
<1>3. /\ store' \in [Ids -> Message]
      /\ \A i \in Ids :
           \/ store'[i].state = store[i].state
           \/ store'[i] = None
           \/ /\ u.kind \in {"new", "failed", "succeeded"}
              /\ i = u.id /\ store'[i] = u.message
  BY <1>1, <1>2, ReduceFacts DEF TypeOK
<1>4. About(u) \subseteq Ids
  BY <1>2 DEF About, Updates
<1>5. TypeOK'
  BY <1>2, <1>3, <1>4 DEF Fold, TypeOK, tdVars
<1>6. \A i \in Ids : store'[i].state = "incoming" => Theirs(server, i)
  BY <1>2, <1>3 DEF Provenance, None
<1> HIDE DEF u
<1>7. UNCHANGED <<server, fetch>>
  BY DEF Fold, tdVars
<1> QED
  BY <1>2, <1>5, <1>6, <1>7 DEF TheirsKept, Provenance

-----------------------------------------------------------------------------
\* The page task: what TDLib answers is TDLib's.
LEMMA PageAnsweredInv ==
  ASSUME TypeOK, Provenance, PageAnswered
  PROVE  TypeOK' /\ Provenance' /\ TheirsKept
<1>1. PICK page \in SUBSET Ids :
        fetch' = [fetch EXCEPT !.stage = "answered", !.page = [i \in page |-> server[i]],
                               !.reachedStart = page = {}]
  BY DEF PageAnswered
<1>2. /\ touched' = {}
      /\ UNCHANGED <<server, tdOpen, stream, store, whole, lost, raced, unheard>>
  BY DEF PageAnswered, tdVars
<1>3. [i \in page |-> server[i]] \in [page -> Message]
  BY DEF TypeOK
<1>4. fetch' \in Fetch
  BY <1>1, <1>3 DEF TypeOK, Fetch, Pages, Stages
<1>5. fetch'.page = [i \in page |-> server[i]]
  BY <1>1 DEF TypeOK, Fetch
<1>6. TypeOK'
  BY <1>2, <1>4 DEF TypeOK
<1>7. \A i \in DOMAIN fetch'.page : fetch'.page[i].state = "incoming" => Theirs(server, i)
  BY <1>5 DEF Theirs
<1> QED
  BY <1>2, <1>6, <1>7 DEF TheirsKept, Provenance

\* A task that has no page is one all the same.
LEMMA UnansweredFacts ==
  ASSUME NEW st \in Stages, NEW a \in 0 .. MaxId, NEW r \in BOOLEAN
  PROVE  [stage |-> st, anchor |-> a, page |-> << >>, reachedStart |-> r] \in Fetch
<1>1. << >> \in [{} -> Message]
  OBVIOUS
<1>2. << >> \in Pages
  BY <1>1 DEF Pages
<1>3. \A p \in Pages : [stage |-> st, anchor |-> a, page |-> p, reachedStart |-> r] \in Fetch
  BY DEF Fetch
<1> QED
  BY <1>2, <1>3, Zenon

\* A page that was only asked for is empty, ...
LEMMA SpawnedFacts ==
  ASSUME NEW anchor \in 0 .. MaxId
  PROVE  /\ Spawned(anchor) \in Fetch /\ Idle \in Fetch
         /\ DOMAIN Spawned(anchor).page = {} /\ DOMAIN Idle.page = {}
<1>1. "spawned" \in Stages /\ "idle" \in Stages /\ NEWEST \in 0 .. MaxId /\ FALSE \in BOOLEAN
  BY DEF Stages, NEWEST
<1>2. Spawned(anchor) \in Fetch /\ Idle \in Fetch
  BY <1>1, UnansweredFacts, Zenon DEF Spawned, Idle, Unanswered
<1>3. Spawned(anchor).page = << >> /\ Idle.page = << >> /\ DOMAIN << >> = {}
  BY DEF Spawned, Idle, Unanswered
<1> QED
  BY <1>2, <1>3

\* ... and so is one that was merged, or has failed.
LEMMA ReportedFacts ==
  ASSUME NEW reachedStart \in BOOLEAN
  PROVE  /\ Reported(reachedStart) \in Fetch
         /\ DOMAIN Reported(reachedStart).page = {}
         /\ Reported(reachedStart).stage = "reported"
         /\ Reported(reachedStart).reachedStart = reachedStart
<1>1. "reported" \in Stages /\ NEWEST \in 0 .. MaxId
  BY DEF Stages, NEWEST
<1>2. Reported(reachedStart) =
        [stage |-> "reported", anchor |-> NEWEST, page |-> << >>, reachedStart |-> reachedStart]
  BY DEF Reported, Unanswered
<1>3. Reported(reachedStart) \in Fetch
  BY <1>1, <1>2, UnansweredFacts
<1>4. Reported(reachedStart).page = << >> /\ DOMAIN << >> = {}
  BY <1>2
<1> QED
  BY <1>2, <1>3, <1>4

\* Provenance moves from the page to the store.
LEMMA PageMergedInv ==
  ASSUME TypeOK, Provenance, PageMerged
  PROVE  TypeOK' /\ Provenance' /\ TheirsKept
<1>1. /\ store' = [i \in Ids |-> IF i \in DOMAIN fetch.page THEN fetch.page[i] ELSE store[i]]
      /\ fetch' = Reported(fetch.reachedStart) /\ touched' = {}
      /\ UNCHANGED <<server, tdOpen, stream>>
  BY DEF PageMerged, Merge, tdVars
<1>2. /\ DOMAIN fetch.page \subseteq Ids
      /\ \A i \in DOMAIN fetch.page : fetch.page[i] \in Message
  BY PageIds
<1>3. store' \in [Ids -> Message]
  BY <1>1, <1>2 DEF TypeOK
<1>4. fetch.reachedStart \in BOOLEAN
  BY DEF TypeOK, Fetch
<1>5. fetch' \in Fetch /\ DOMAIN fetch'.page = {}
  BY <1>1, <1>4, ReportedFacts
<1>6. whole' \in BOOLEAN /\ lost' \cup raced' \cup unheard' \subseteq Ids
  BY <1>2, <1>4 DEF PageMerged, TypeOK
<1>7. TypeOK'
  BY <1>1, <1>3, <1>5, <1>6 DEF TypeOK
<1>8. \A i \in Ids : store'[i].state = "incoming" => Theirs(server, i)
  BY <1>1 DEF Provenance
<1> QED
  BY <1>1, <1>5, <1>7, <1>8 DEF TheirsKept, Provenance

\* Wherever its anchor is, a page asked for is empty at first; and it is dropped with
\* the task.
LEMMA FetchInv ==
  ASSUME TypeOK, Provenance, UNCHANGED <<tdVars, stream, store, ghosts>>,
         \/ \E anchor \in 0 .. MaxId : fetch' = Spawned(anchor)
         \/ fetch' = Reported(FALSE)
         \/ fetch' = Idle
         \/ fetch' = fetch
  PROVE  TypeOK' /\ Provenance' /\ TheirsKept
<1>1. CASE \E anchor \in 0 .. MaxId : fetch' = Spawned(anchor)
  <2>1. fetch' \in Fetch /\ DOMAIN fetch'.page = {}
    BY <1>1, SpawnedFacts
  <2> QED
    BY <2>1 DEF TheirsKept, TypeOK, Provenance, tdVars, ghosts
<1>2. CASE fetch' = Reported(FALSE)
  <2>1. fetch' \in Fetch /\ DOMAIN fetch'.page = {}
    BY <1>2, ReportedFacts
  <2> QED
    BY <2>1 DEF TheirsKept, TypeOK, Provenance, tdVars, ghosts
<1>3. CASE fetch' = Idle
  <2>1. fetch' \in Fetch /\ DOMAIN fetch'.page = {}
    BY <1>3, SpawnedFacts
  <2> QED
    BY <2>1 DEF TheirsKept, TypeOK, Provenance, tdVars, ghosts
<1>4. CASE fetch' = fetch
  BY <1>4 DEF TheirsKept, TypeOK, Provenance, tdVars, ghosts
<1> QED
  BY <1>1, <1>2, <1>3, <1>4

\* The anchor of a page is a message's id or NEWEST.
LEMMA OldestFacts ==
  ASSUME TypeOK
  PROVE  Oldest \in 0 .. MaxId
<1>1. CASE Known = {}
  BY <1>1 DEF Oldest, NEWEST
<1>2. CASE Known # {}
  <2>1. Known \in SUBSET Nat /\ Known \subseteq Ids
    BY DEF Known, Ids
  <2>2. Oldest \in Known
    BY <1>2, <2>1, MinFacts DEF Oldest
  <2> QED
    BY <2>1, <2>2 DEF Ids
<1> QED
  BY <1>1, <1>2

-----------------------------------------------------------------------------
\* The steps of TDLib, of the router and of the page task, wherever they are used.
LEMMA StepsInv ==
  ASSUME TypeOK, Provenance, Steps
  PROVE  TypeOK' /\ Provenance' /\ TheirsKept
<1>1. \/ Create \/ SendSucceeds \/ SendFails \/ Change \/ Delete \/ Evict
      \/ Fold \/ PageAnswered \/ PageMerged
  BY DEF Steps, TdlibSteps
<1> QED
  BY <1>1, CreateInv, SendSucceedsInv, SendFailsInv, ChangeInv, DeleteInv, EvictInv,
     FoldInv, PageAnsweredInv, PageMergedInv

\* They leave to their caller who spawns a page and when its report is taken, and
\* whether TDLib has the chat open.
LEMMA StepsFacts ==
  ASSUME TypeOK, Steps
  PROVE  /\ tdOpen' = tdOpen
         /\ fetch'.stage = "idle" <=> fetch.stage = "idle"
         /\ fetch'.stage = "spawned" => fetch' = fetch
<1>1. \/ Create \/ SendSucceeds \/ SendFails \/ Change \/ Delete \/ Evict
      \/ Fold \/ PageAnswered \/ PageMerged
  BY DEF Steps, TdlibSteps
<1>2. CASE Create \/ SendSucceeds \/ SendFails \/ Change \/ Delete \/ Evict \/ Fold
  <2>1. UNCHANGED <<tdOpen, fetch>>
    BY <1>2 DEF Create, SendSucceeds, SendFails, Change, Delete, Evict, Fold, quiet, tdVars
  <2> QED
    BY <2>1
<1>3. CASE PageAnswered
  <2>1. fetch.stage = "spawned" /\ fetch'.stage = "answered" /\ tdOpen' = tdOpen
    BY <1>3 DEF PageAnswered, tdVars, TypeOK, Fetch
  <2> QED
    BY <2>1
<1>4. CASE PageMerged
  <2>1. fetch.stage = "answered" /\ fetch'.stage = "reported" /\ tdOpen' = tdOpen
    BY <1>4 DEF PageMerged, tdVars, Reported, Unanswered
  <2> QED
    BY <2>1
<1> QED
  BY <1>1, <1>2, <1>3, <1>4

\* Opening and closing leave the messages alone.
LEMMA SetOpenInv ==
  ASSUME TypeOK, Provenance, NEW isOpen \in BOOLEAN, SetOpen(isOpen)
  PROVE  TypeOK' /\ Provenance' /\ TheirsKept
BY DEF TheirsKept, SetOpen, TypeOK, Provenance, ghosts

\* The store starts empty, whatever is older than the session.
LEMMA InitInv ==
  ASSUME Init
  PROVE  TypeOK /\ Provenance
<1>1. None \in Message /\ New("incoming") \in Message
  BY DEF None, New, Message
<1>2. server \in [Ids -> Message] /\ store = [i \in Ids |-> None]
  BY <1>1 DEF Init
<1>3. stream = << >> /\ fetch = Idle /\ tdOpen = FALSE /\ whole = FALSE
      /\ lost \cup touched \cup raced \cup unheard = {}
  BY DEF Init
<1>4. stream \in Seq(Updates) /\ Len(stream) = 0 /\ Len(stream) <= Capacity
  BY <1>3
<1>5. 0 \in 0 .. MaxId
  OBVIOUS
<1>6. fetch \in Fetch /\ DOMAIN fetch.page = {}
  BY <1>3, <1>5, SpawnedFacts
<1>7. store \in [Ids -> Message] /\ tdOpen \in BOOLEAN /\ whole \in BOOLEAN
      /\ lost \cup touched \cup raced \cup unheard \subseteq Ids
  BY <1>1, <1>2, <1>3
<1>8. TypeOK
  BY <1>2, <1>4, <1>6, <1>7 DEF TypeOK
<1>9. Provenance
  BY <1>2, <1>4, <1>6 DEF Provenance, None
<1> QED
  BY <1>8, <1>9

\* Every reachable state is well typed, and no message is shown as somebody else's
\* that is not so in TDLib.
THEOREM HistoryInductive == Spec => [](TypeOK /\ Provenance)
<1>1. Init => TypeOK /\ Provenance
  BY InitInv
<1>2. TypeOK /\ Provenance /\ [Next]_vars => TypeOK' /\ Provenance' /\ TheirsKept
  <2> SUFFICES ASSUME TypeOK, Provenance, [Next]_vars
               PROVE  TypeOK' /\ Provenance' /\ TheirsKept
    OBVIOUS
  <2>1. CASE Steps
    BY <2>1, StepsInv
  <2>2. CASE PageFailed
    BY <2>2, FetchInv DEF PageFailed
  <2>3. ASSUME NEW anchor \in {NEWEST, Oldest},
               PageSpawned(anchor), UNCHANGED <<tdVars, stream, store, ghosts>>
        PROVE  TypeOK' /\ Provenance' /\ TheirsKept
    <3>1. anchor \in 0 .. MaxId
      BY OldestFacts DEF NEWEST
    <3> QED
      BY <2>3, <3>1, FetchInv DEF PageSpawned
  <2>4. CASE PageTaken /\ UNCHANGED <<tdVars, stream, store, ghosts>>
    BY <2>4, FetchInv DEF PageTaken
  <2>5. CASE SetOpen(~tdOpen)
    <3>1. (~tdOpen) \in BOOLEAN
      BY DEF TypeOK
    <3> QED
      BY <2>5, <3>1, SetOpenInv
  <2>6. ASSUME NEW i \in Ids, SendMark(i)
        PROVE  TypeOK' /\ Provenance' /\ TheirsKept
    BY <2>6, SendMarkInv
  <2>7. CASE UNCHANGED vars
    BY <2>7, FetchInv DEF vars
  <2> QED
    BY <2>1, <2>2, <2>3, <2>4, <2>5, <2>6, <2>7 DEF Next
<1> QED
  BY <1>1, <1>2, PTL DEF Spec

\* MessageStore, the stream and the page in flight hold messages of the chat and
\* nothing else, and the stream never outgrows UPDATE_BUFFER.
THEOREM HistoryTypeCorrect == Spec => []TypeOK
BY HistoryInductive, PTL

-----------------------------------------------------------------------------
(* Where the store's messages come from, and where they go.  The first n   *)
(* messages are older than the session: pages alone bring them.            *)

\* What an update does to message i: gives it, edits it, or takes it away.
Sets(u, i) == u.kind \in {"new", "failed", "succeeded"} /\ u.id = i
Edits(u, i) == u.kind = "content" /\ u.id = i
Clears(u, i) == (u.kind = "delete" /\ u.id = i) \/ (u.kind = "succeeded" /\ u.old = i /\ u.id # i)

Facets == {"state", "version"}
Facet(message, f) == IF f = "state" THEN message.state ELSE message.version

Gives(u, i, f) == Sets(u, i) \/ (f = "version" /\ Edits(u, i))
Writes(u, i, f) == Gives(u, i, f) \/ Clears(u, i)
NoneWrites(i, f, from) == \A j \in from .. Len(stream) : ~Writes(stream[j], i, f)

\* What is in the store once the page in flight is merged.
Merged(i) ==
  IF fetch.stage = "answered" /\ i \in DOMAIN fetch.page THEN fetch.page[i] ELSE store[i]

\* Facet f of message i will be TDLib's, if the store has the message then: by the last
\* update that writes it, or as the store has it if none does.
Comes(i, f) ==
  /\ \A k \in 1 .. Len(stream) :
       Gives(stream[k], i, f) /\ NoneWrites(i, f, k + 1)
         => Facet(stream[k].message, f) = Facet(server[i], f)
  /\ NoneWrites(i, f, 1) /\ Merged(i) # None => Facet(Merged(i), f) = Facet(server[i], f)

\* But for a message that a lost update, or a page in flight, has put in doubt.
Doubted ==
  raced \cup lost \cup IF fetch.stage = "answered" THEN touched \cap DOMAIN fetch.page ELSE {}

ComesInv ==
  \A i \in Ids \ Doubted, f \in Facets : (f = "version" /\ i \in unheard) \/ Comes(i, f)

\* TDLib's messages and the updates about them.
StreamInv(n) ==
  /\ \A i \in 1 .. n : server[i].state \in {"incoming", "deleted"}
  /\ \A k \in 1 .. Len(stream), i \in Ids :
       /\ Sets(stream[k], i) => i > n /\ stream[k].message.state # "none"
       /\ Clears(stream[k], i) => server[i].state = "deleted"

\* The messages of the session are in the store, or on their way to it.
SessionInv(n) ==
  \A i \in Ids \ lost : i > n /\ Exists(server[i]) =>
    store[i] # None \/ \E k \in 1 .. Len(stream) : Sets(stream[k], i)

\* Every message older than the session from k on is in the store.
Covered(n, k) == \A i \in k .. n : Exists(server[i]) => store[i] # None

\* The older ones there are without a hole: below one loaded, and below the anchor of
\* the page in flight, there may be more, and above it none.
CoverInv(n) ==
  /\ \A k \in Known : Covered(n, k)
  /\ whole => Covered(n, 1)
  /\ fetch.stage \in {"spawned", "answered"} /\ fetch.anchor # NEWEST => Covered(n, fetch.anchor)

\* The page in flight has none either.
PageHolds(n) ==
  /\ fetch.stage \in {"idle", "spawned"} => ~fetch.reachedStart
  /\ fetch.stage = "reported" /\ fetch.reachedStart => whole
  /\ fetch.stage = "answered" =>
       /\ \A i \in DOMAIN fetch.page : fetch.page[i].state # "none"
       /\ \A i \in 1 .. n :
            Exists(server[i]) /\ (fetch.anchor = NEWEST \/ i < fetch.anchor) =>
              /\ ~fetch.reachedStart
              /\ \A k \in DOMAIN fetch.page : k <= i => i \in DOMAIN fetch.page

StoredInv == \A i \in Ids : store[i] = None \/ store[i].state # "none"

FollowInv(n) ==
  StoredInv /\ StreamInv(n) /\ SessionInv(n) /\ CoverInv(n) /\ PageHolds(n) /\ ComesInv

Follows == \E n \in 0 .. MaxId : FollowInv(n)

-----------------------------------------------------------------------------
\* What an update writes is about a message of its own.
LEMMA WritesAbout ==
  ASSUME NEW u, NEW i, NEW f, Writes(u, i, f)
  PROVE  i \in About(u)
BY DEF Writes, Gives, Sets, Edits, Clears, About

\* The stream after a send: without its head or with it, and with the update at its end.
LEMMA SendOrder ==
  ASSUME TypeOK, NEW u \in Updates, Send(u)
  PROVE  \E d \in {0, 1} :
           /\ Len(stream) \in Nat /\ d <= Len(stream)
           /\ Len(stream') = Len(stream) - d + 1 /\ stream'[Len(stream')] = u
           /\ \A k \in 1 .. Len(stream) - d : stream'[k] = stream[k + d]
           /\ lost' = lost \cup IF d = 1 THEN About(stream[1]) ELSE {}
<1>1. stream \in Seq(Updates) /\ Len(stream) \in Nat /\ Len(stream) <= Capacity
  BY DEF TypeOK
<1>2. CASE Len(stream) < Capacity
  <2>1. stream' = Append(stream, u) /\ lost' = lost
    BY <1>2 DEF Send
  <2>2. /\ Len(stream') = Len(stream) + 1 /\ stream'[Len(stream')] = u
        /\ \A k \in 1 .. Len(stream) : stream'[k] = stream[k]
    BY <1>1, <2>1
  <2> QED
    BY <1>1, <2>1, <2>2
<1>3. CASE ~(Len(stream) < Capacity)
  <2>1. stream' = Append(Tail(stream), u) /\ lost' = lost \cup About(Head(stream))
    BY <1>3 DEF Send
  <2>2. stream # << >> /\ Len(stream) >= 1
    BY <1>1, <1>3
  <2>3. /\ Tail(stream) \in Seq(Updates) /\ Len(Tail(stream)) = Len(stream) - 1
        /\ \A k \in 1 .. Len(stream) - 1 : Tail(stream)[k] = stream[k + 1]
        /\ Head(stream) = stream[1]
    BY <1>1, <2>2
  <2>4. /\ Len(stream') = Len(stream) - 1 + 1 /\ stream'[Len(stream')] = u
        /\ \A k \in 1 .. Len(stream) - 1 : stream'[k] = stream[k + 1]
    BY <1>1, <2>1, <2>3
  <2> QED
    BY <1>1, <2>1, <2>2, <2>3, <2>4
<1> QED
  BY <1>2, <1>3

\* The update TDLib sends of a step tells what has become of the messages, and with it
\* come those of the session.
Tells(n, u) ==
  /\ \A i \in Ids, f \in Facets :
       /\ Gives(u, i, f) => Facet(u.message, f) = Facet(server'[i], f)
       /\ ~Writes(u, i, f) => Facet(server'[i], f) = Facet(server[i], f)
  /\ \A i \in Ids :
       /\ Sets(u, i) => i > n /\ u.message.state # "none"
       /\ Clears(u, i) => server'[i].state = "deleted"
       /\ server[i].state = "deleted" => server'[i].state = "deleted"
       /\ Exists(server'[i]) => Exists(server[i]) \/ Sets(u, i)
  /\ \A i \in 1 .. n : server'[i].state \in {"incoming", "deleted"}

LEMMA SendComes ==
  ASSUME TypeOK, NEW n \in 0 .. MaxId, NEW u \in Updates, Send(u), Tells(n, u),
         NEW i \in Ids \ lost', NEW f \in Facets, Comes(i, f), UNCHANGED quiet
  PROVE  Comes(i, f)'
<1>1. PICK d \in {0, 1} :
        /\ Len(stream) \in Nat /\ d <= Len(stream)
        /\ Len(stream') = Len(stream) - d + 1 /\ stream'[Len(stream')] = u
        /\ \A k \in 1 .. Len(stream) - d : stream'[k] = stream[k + d]
        /\ lost' = lost \cup IF d = 1 THEN About(stream[1]) ELSE {}
  BY SendOrder
<1> DEFINE m == Len(stream) - d
<1>2. m \in Nat /\ Len(stream') = m + 1 /\ Len(stream) = m + d
  BY <1>1
<1>3. d = 1 => ~Writes(stream[1], i, f)
  BY <1>1, WritesAbout
<1>4. Merged(i)' = Merged(i)
  BY DEF Merged, quiet
<1>5. CASE Writes(u, i, f)
  <2>1. \A k \in 1 .. m : ~NoneWrites(i, f, k + 1)'
    BY <1>1, <1>2, <1>5 DEF NoneWrites
  <2>2. ~NoneWrites(i, f, 1)'
    BY <1>1, <1>2, <1>5 DEF NoneWrites
  <2>3. Gives(stream'[m + 1], i, f) => Facet(stream'[m + 1].message, f) = Facet(server'[i], f)
    BY <1>1, <1>2 DEF Tells
  <2>4. \A k \in 1 .. Len(stream') : k \in 1 .. m \/ k = m + 1
    BY <1>2
  <2> QED
    BY <2>1, <2>2, <2>3, <2>4 DEF Comes
<1>6. CASE ~Writes(u, i, f)
  <2>1. Facet(server'[i], f) = Facet(server[i], f)
    BY <1>6 DEF Tells
  <2>2. ASSUME NEW k \in 1 .. Len(stream'), Gives(stream'[k], i, f), NoneWrites(i, f, k + 1)'
        PROVE  Facet(stream'[k].message, f) = Facet(server'[i], f)
    <3>1. k \in 1 .. m
      BY <1>1, <1>2, <1>6, <2>2 DEF Writes
    <3>2. stream'[k] = stream[k + d] /\ k + d \in 1 .. Len(stream)
      BY <1>1, <1>2, <3>1
    <3>3. NoneWrites(i, f, k + d + 1)
      <4>1. ASSUME NEW j \in (k + d + 1) .. Len(stream) PROVE ~Writes(stream[j], i, f)
        <5>1. j - d \in (k + 1) .. m /\ j - d \in 1 .. m
          BY <1>1, <1>2, <3>1
        <5>2. stream'[j - d] = stream[j] /\ j - d \in (k + 1) .. Len(stream')
          BY <1>1, <1>2, <5>1
        <5> QED
          BY <2>2, <5>2 DEF NoneWrites
      <4> QED
        BY <4>1 DEF NoneWrites
    <3> QED
      BY <2>1, <2>2, <3>2, <3>3 DEF Comes
  <2>3. NoneWrites(i, f, 1)' => NoneWrites(i, f, 1)
    <3>1. ASSUME NoneWrites(i, f, 1)', NEW j \in 1 .. Len(stream) PROVE ~Writes(stream[j], i, f)
      <4>1. CASE j <= d
        BY <1>3, <4>1
      <4>2. CASE j > d
        <5>1. j - d \in 1 .. m
          BY <1>1, <1>2, <4>2
        <5>2. stream'[j - d] = stream[j] /\ j - d \in 1 .. Len(stream')
          BY <1>1, <1>2, <5>1
        <5> QED
          BY <3>1, <5>2 DEF NoneWrites
      <4> QED
        BY <1>1, <4>1, <4>2
    <3> QED
      BY <3>1 DEF NoneWrites
  <2> QED
    BY <1>4, <2>1, <2>2, <2>3 DEF Comes
<1> QED
  BY <1>5, <1>6

\* A step of TDLib that tells.
LEMMA SendFollows ==
  ASSUME TypeOK, NEW n \in 0 .. MaxId, FollowInv(n), NEW u \in Updates, Send(u), Tells(n, u),
         unheard \subseteq unheard', UNCHANGED quiet
  PROVE  FollowInv(n)'
<1>0. /\ StoredInv /\ StreamInv(n) /\ SessionInv(n) /\ CoverInv(n) /\ PageHolds(n) /\ ComesInv
      /\ UNCHANGED <<store, fetch, whole, touched, raced>>
  BY DEF FollowInv, quiet
<1>1. PICK d \in {0, 1} :
        /\ Len(stream) \in Nat /\ d <= Len(stream)
        /\ Len(stream') = Len(stream) - d + 1 /\ stream'[Len(stream')] = u
        /\ \A k \in 1 .. Len(stream) - d : stream'[k] = stream[k + d]
        /\ lost' = lost \cup IF d = 1 THEN About(stream[1]) ELSE {}
  BY SendOrder
<1> DEFINE m == Len(stream) - d
<1>2. /\ m \in Nat /\ Len(stream') = m + 1 /\ lost \subseteq lost'
      /\ \A k \in 1 .. m : stream'[k] = stream[k + d] /\ k + d \in 1 .. Len(stream)
      /\ stream'[m + 1] = u /\ m + 1 \in 1 .. Len(stream')
      /\ \A k \in 1 .. Len(stream') : k \in 1 .. m \/ k = m + 1
  BY <1>1
<1> HIDE DEF m
<1>3. /\ \A i \in 1 .. n : i \in Ids
      /\ \A i \in 1 .. n : Exists(server'[i]) => Exists(server[i])
  BY DEF Tells, Ids
<1>4. StreamInv(n)'
  <2>1. ASSUME NEW k \in 1 .. Len(stream'), NEW i \in Ids
        PROVE  /\ Sets(stream'[k], i) => i > n /\ stream'[k].message.state # "none"
               /\ Clears(stream'[k], i) => server'[i].state = "deleted"
    <3>1. CASE k \in 1 .. m
      BY <1>0, <1>2, <3>1 DEF StreamInv, Tells
    <3>2. CASE k = m + 1
      BY <1>2, <3>2 DEF Tells
    <3> QED
      BY <1>2, <3>1, <3>2
  <2> QED
    BY <2>1 DEF StreamInv, Tells
<1>5. SessionInv(n)'
  <2>1. ASSUME NEW i \in Ids \ lost', i > n, Exists(server'[i]), store[i] = None
        PROVE  \E k \in 1 .. Len(stream') : Sets(stream'[k], i)
    <3>1. CASE Sets(u, i)
      BY <1>2, <3>1
    <3>2. CASE ~Sets(u, i)
      <4>1. Exists(server[i]) /\ i \in Ids \ lost
        BY <1>2, <2>1, <3>2 DEF Tells
      <4>2. PICK k \in 1 .. Len(stream) : Sets(stream[k], i)
        BY <1>0, <2>1, <4>1 DEF SessionInv
      <4>3. ~(d = 1 /\ k = 1)
        BY <1>1, <2>1, <4>2 DEF Sets, About
      <4>4. k - d \in 1 .. m /\ stream'[k - d] = stream[k]
        BY <1>1, <4>3 DEF m
      <4> QED
        BY <1>2, <4>2, <4>4
    <3> QED
      BY <3>1, <3>2
  <2> QED
    BY <1>0, <2>1 DEF SessionInv
<1>6. CoverInv(n)'
  <2>1. Known' = Known
    BY <1>0 DEF Known
  <2>2. \A k \in Nat \ {0} : Covered(n, k) => Covered(n, k)'
    <3>1. \A k \in Nat \ {0} : \A i \in k .. n : i \in 1 .. n
      OBVIOUS
    <3> QED
      BY <1>0, <1>3, <3>1 DEF Covered
  <2>3. /\ \A k \in Known : k \in Nat \ {0} /\ 1 \in Nat \ {0}
        /\ fetch.anchor # NEWEST => fetch.anchor \in Nat \ {0}
    BY DEF Known, Ids, TypeOK, Fetch, NEWEST
  <2>4. \A k \in Known : Covered(n, k)'
    BY <1>0, <2>2, <2>3 DEF CoverInv
  <2>5. whole => Covered(n, 1)'
    BY <1>0, <2>2 DEF CoverInv
  <2>6. fetch.stage \in {"spawned", "answered"} /\ fetch.anchor # NEWEST => Covered(n, fetch.anchor)'
    BY <1>0, <2>2, <2>3 DEF CoverInv
  <2> QED
    BY <1>0, <2>1, <2>4, <2>5, <2>6 DEF CoverInv, Covered
<1>7. PageHolds(n)'
  BY <1>0, <1>3 DEF PageHolds
<1>8. ComesInv'
  <2>1. ASSUME NEW i \in Ids \ Doubted', NEW f \in Facets, ~(f = "version" /\ i \in unheard')
        PROVE  Comes(i, f)'
    <3>1. i \in Ids \ Doubted /\ i \notin lost' /\ ~(f = "version" /\ i \in unheard)
      BY <1>0, <1>2, <2>1 DEF Doubted
    <3>2. Comes(i, f)
      BY <1>0, <3>1 DEF ComesInv
    <3> QED
      BY <3>1, <3>2, SendComes
  <2> QED
    BY <2>1 DEF ComesInv
<1>9. StoredInv'
  BY <1>0 DEF StoredInv
<1> QED
  BY <1>4, <1>5, <1>6, <1>7, <1>8, <1>9 DEF FollowInv

\* A message that is created is told of as it is.
LEMMA CreateFollows ==
  ASSUME TypeOK, NEW n \in 0 .. MaxId, FollowInv(n), Create
  PROVE  FollowInv(n)'
<1>1. PICK c \in Fresh, state \in {"incoming", "pending"} :
        /\ server' = [server EXCEPT ![c] = New(state)]
        /\ Send([kind |-> "new", id |-> c, message |-> New(state)])
  BY DEF Create
<1> DEFINE u == [kind |-> "new", id |-> c, message |-> New(state)]
<1>2. /\ c \in Ids /\ server[c] = None /\ server \in [Ids -> Message]
      /\ \A i \in 1 .. n : server[i].state \in {"incoming", "deleted"} /\ i \in Ids
  BY DEF Fresh, TypeOK, FollowInv, StreamInv, Ids
<1>3. c > n
  BY <1>2 DEF None, Ids
<1>4. u \in Updates /\ u.kind = "new" /\ u.id = c /\ u.message = New(state)
  BY <1>2 DEF New, Message, Updates
<1>5. server'[c] = New(state) /\ \A i \in Ids \ {c} : server'[i] = server[i]
  BY <1>1, <1>2
<1> HIDE DEF u
<1>6. Tells(n, u)
  <2>1. ASSUME NEW i \in Ids, NEW f \in Facets
        PROVE  /\ Gives(u, i, f) => Facet(u.message, f) = Facet(server'[i], f)
               /\ ~Writes(u, i, f) => Facet(server'[i], f) = Facet(server[i], f)
    BY <1>4, <1>5 DEF Gives, Writes, Sets, Edits, Clears
  <2>2. ASSUME NEW i \in Ids
        PROVE  /\ Sets(u, i) => i > n /\ u.message.state # "none"
               /\ Clears(u, i) => server'[i].state = "deleted"
               /\ server[i].state = "deleted" => server'[i].state = "deleted"
               /\ Exists(server'[i]) => Exists(server[i]) \/ Sets(u, i)
    BY <1>2, <1>3, <1>4, <1>5 DEF Sets, Clears, New, None
  <2> QED
    BY <1>2, <1>3, <1>5, <2>1, <2>2 DEF Tells
<1>7. Send(u) /\ unheard' = unheard /\ UNCHANGED quiet
  BY <1>1 DEF Create, u
<1> QED
  BY <1>4, <1>6, <1>7, SendFollows

LEMMA SendSucceedsFollows ==
  ASSUME TypeOK, NEW n \in 0 .. MaxId, FollowInv(n), SendSucceeds
  PROVE  FollowInv(n)'
<1>1. PICK old \in Ids, c \in Fresh :
        /\ server[old].state = "pending"
        /\ server' = [server EXCEPT ![old].state = "deleted", ![c] = New("sent")]
        /\ Send([kind |-> "succeeded", old |-> old, id |-> c, message |-> New("sent")])
  BY DEF SendSucceeds
<1> DEFINE u == [kind |-> "succeeded", old |-> old, id |-> c, message |-> New("sent")]
<1>2. /\ c \in Ids /\ server[c] = None /\ server \in [Ids -> Message]
      /\ \A i \in 1 .. n : server[i].state \in {"incoming", "deleted"} /\ i \in Ids
  BY DEF Fresh, TypeOK, FollowInv, StreamInv, Ids
<1>3. c > n /\ old > n /\ old # c
  BY <1>1, <1>2 DEF None, Ids
<1>4. u \in Updates /\ u.kind = "succeeded" /\ u.id = c /\ u.old = old /\ u.message = New("sent")
  BY <1>2 DEF New, Message, Updates
<1>5. /\ server'[c] = New("sent") /\ server'[old].state = "deleted"
      /\ \A i \in Ids \ {c, old} : server'[i] = server[i]
  <2>1. server' = [j \in Ids |-> IF j = c THEN New("sent")
                                 ELSE IF j = old THEN [server[old] EXCEPT !.state = "deleted"]
                                 ELSE server[j]]
    BY <1>1, <1>2, Zenon
  <2>2. [server[old] EXCEPT !.state = "deleted"].state = "deleted"
    BY <1>2 DEF Message
  <2> QED
    BY <1>2, <1>3, <2>1, <2>2
<1> HIDE DEF u
<1>6. Tells(n, u)
  <2>1. ASSUME NEW i \in Ids, NEW f \in Facets
        PROVE  /\ Gives(u, i, f) => Facet(u.message, f) = Facet(server'[i], f)
               /\ ~Writes(u, i, f) => Facet(server'[i], f) = Facet(server[i], f)
    BY <1>3, <1>4, <1>5 DEF Gives, Writes, Sets, Edits, Clears
  <2>2. ASSUME NEW i \in Ids
        PROVE  /\ Sets(u, i) => i > n /\ u.message.state # "none"
               /\ Clears(u, i) => server'[i].state = "deleted"
               /\ server[i].state = "deleted" => server'[i].state = "deleted"
               /\ Exists(server'[i]) => Exists(server[i]) \/ Sets(u, i)
    BY <1>2, <1>3, <1>4, <1>5 DEF Sets, Clears, New, None, Exists
  <2> QED
    BY <1>2, <1>3, <1>5, <2>1, <2>2 DEF Tells
<1>7. Send(u) /\ unheard' = unheard /\ UNCHANGED quiet
  BY <1>1 DEF SendSucceeds, u
<1> QED
  BY <1>4, <1>6, <1>7, SendFollows

LEMMA SendFailsFollows ==
  ASSUME TypeOK, NEW n \in 0 .. MaxId, FollowInv(n), SendFails
  PROVE  FollowInv(n)'
<1>1. PICK c \in Ids :
        /\ server[c].state = "pending"
        /\ server' = [server EXCEPT ![c].state = "failed"]
        /\ Send([kind |-> "failed", id |-> c, message |-> server'[c]])
  BY DEF SendFails
<1> DEFINE u == [kind |-> "failed", id |-> c, message |-> server'[c]]
<1>2. /\ server \in [Ids -> Message]
      /\ \A i \in 1 .. n : server[i].state \in {"incoming", "deleted"} /\ i \in Ids
  BY DEF TypeOK, FollowInv, StreamInv, Ids
<1>3. c > n
  BY <1>1, <1>2 DEF Ids
<1>4. /\ server'[c] \in Message /\ server'[c].state = "failed" /\ server'[c].version = server[c].version
      /\ \A i \in Ids \ {c} : server'[i] = server[i]
  BY <1>1, <1>2 DEF Message
<1>5. u \in Updates /\ u.kind = "failed" /\ u.id = c /\ u.message = server'[c]
  BY <1>4 DEF Updates
<1> HIDE DEF u
<1>6. Tells(n, u)
  <2>1. ASSUME NEW i \in Ids, NEW f \in Facets
        PROVE  /\ Gives(u, i, f) => Facet(u.message, f) = Facet(server'[i], f)
               /\ ~Writes(u, i, f) => Facet(server'[i], f) = Facet(server[i], f)
    BY <1>4, <1>5 DEF Gives, Writes, Sets, Edits, Clears
  <2>2. ASSUME NEW i \in Ids
        PROVE  /\ Sets(u, i) => i > n /\ u.message.state # "none"
               /\ Clears(u, i) => server'[i].state = "deleted"
               /\ server[i].state = "deleted" => server'[i].state = "deleted"
               /\ Exists(server'[i]) => Exists(server[i]) \/ Sets(u, i)
    BY <1>1, <1>3, <1>4, <1>5 DEF Sets, Clears
  <2> QED
    BY <1>2, <1>3, <1>4, <2>1, <2>2 DEF Tells
<1>7. Send(u) /\ unheard' = unheard /\ UNCHANGED quiet
  BY <1>1 DEF SendFails, u
<1> QED
  BY <1>5, <1>6, <1>7, SendFollows

LEMMA DeleteFollows ==
  ASSUME TypeOK, NEW n \in 0 .. MaxId, FollowInv(n), Delete
  PROVE  FollowInv(n)'
<1>1. PICK c \in Ids :
        /\ Exists(server[c])
        /\ server' = [server EXCEPT ![c].state = "deleted"]
        /\ Send([kind |-> "delete", id |-> c])
  BY DEF Delete
<1> DEFINE u == [kind |-> "delete", id |-> c]
<1>2. /\ server \in [Ids -> Message]
      /\ \A i \in 1 .. n : server[i].state \in {"incoming", "deleted"} /\ i \in Ids
  BY DEF TypeOK, FollowInv, StreamInv, Ids
<1>3. u \in Updates /\ u.kind = "delete" /\ u.id = c
  BY DEF Updates
<1>4. server'[c].state = "deleted" /\ \A i \in Ids \ {c} : server'[i] = server[i]
  BY <1>1, <1>2 DEF Message
<1> HIDE DEF u
<1>5. Tells(n, u)
  <2>1. ASSUME NEW i \in Ids, NEW f \in Facets
        PROVE  /\ Gives(u, i, f) => Facet(u.message, f) = Facet(server'[i], f)
               /\ ~Writes(u, i, f) => Facet(server'[i], f) = Facet(server[i], f)
    BY <1>3, <1>4 DEF Gives, Writes, Sets, Edits, Clears
  <2>2. ASSUME NEW i \in Ids
        PROVE  /\ Sets(u, i) => i > n /\ u.message.state # "none"
               /\ Clears(u, i) => server'[i].state = "deleted"
               /\ server[i].state = "deleted" => server'[i].state = "deleted"
               /\ Exists(server'[i]) => Exists(server[i]) \/ Sets(u, i)
    BY <1>1, <1>3, <1>4 DEF Sets, Clears, Exists
  <2> QED
    BY <1>2, <1>4, <2>1, <2>2 DEF Tells
<1>6. Send(u) /\ unheard' = unheard /\ UNCHANGED quiet
  BY <1>1 DEF Delete, u
<1> QED
  BY <1>3, <1>5, <1>6, SendFollows

LEMMA EvictFollows ==
  ASSUME TypeOK, NEW n \in 0 .. MaxId, FollowInv(n), Evict
  PROVE  FollowInv(n)'
<1>1. PICK c \in Ids : Send([kind |-> "evict", id |-> c])
  BY DEF Evict
<1> DEFINE u == [kind |-> "evict", id |-> c]
<1>2. u \in Updates /\ u.kind = "evict"
  BY DEF Updates
<1>3. Send(u) /\ server' = server /\ unheard' = unheard /\ UNCHANGED quiet
  BY <1>1 DEF Evict
<1> HIDE DEF u
<1>4. \A i \in 1 .. n : server[i].state \in {"incoming", "deleted"}
  BY DEF FollowInv, StreamInv
<1>5. Tells(n, u)
  BY <1>2, <1>3, <1>4 DEF Tells, Gives, Writes, Sets, Edits, Clears
<1> QED
  BY <1>2, <1>3, <1>5, SendFollows

LEMMA SendMarkFollows ==
  ASSUME TypeOK, NEW n \in 0 .. MaxId, FollowInv(n), NEW c \in Ids, SendMark(c)
  PROVE  FollowInv(n)'
<1> DEFINE u == [kind |-> "read", id |-> c]
<1>1. u \in Updates /\ u.kind = "read"
  BY DEF Updates
<1>2. Send(u) /\ server' = server /\ unheard' = unheard /\ UNCHANGED quiet
  BY DEF SendMark
<1> HIDE DEF u
<1>3. \A i \in 1 .. n : server[i].state \in {"incoming", "deleted"}
  BY DEF FollowInv, StreamInv
<1>4. Tells(n, u)
  BY <1>1, <1>2, <1>3 DEF Tells, Gives, Writes, Sets, Edits, Clears
<1> QED
  BY <1>1, <1>2, <1>4, SendFollows

\* An edit is told, or the message is one changed without an update.
LEMMA ChangeFollows ==
  ASSUME TypeOK, NEW n \in 0 .. MaxId, FollowInv(n), Change
  PROVE  FollowInv(n)'
<1>1. PICK c \in Ids :
        /\ server[c].state \in {"incoming", "sent"}
        /\ server' = [server EXCEPT ![c].version = @ + 1]
        /\ \/ /\ Send([kind |-> "content", id |-> c, message |-> server'[c]])
              /\ UNCHANGED unheard
           \/ /\ unheard' = unheard \cup {c}
              /\ UNCHANGED <<stream, lost>>
  BY DEF Change
<1>2. /\ server \in [Ids -> Message]
      /\ \A i \in 1 .. n : server[i].state \in {"incoming", "deleted"} /\ i \in Ids
  BY DEF TypeOK, FollowInv, StreamInv, Ids
<1>3. /\ server'[c].state = server[c].state
      /\ \A i \in Ids \ {c} : server'[i] = server[i]
      /\ \A i \in Ids : server'[i].state = server[i].state
  BY <1>1, <1>2 DEF Message
<1>4. UNCHANGED quiet
  BY DEF Change
<1>5. CASE Send([kind |-> "content", id |-> c, message |-> server'[c]]) /\ UNCHANGED unheard
  <2> DEFINE u == [kind |-> "content", id |-> c, message |-> server'[c]]
  <2>1. server'[c] \in Message
    <3>1. server' \in [Ids -> Message]
      BY <1>2 DEF Change, Message
    <3> QED
      BY <3>1
  <2>2. u \in Updates /\ u.kind = "content" /\ u.id = c /\ u.message = server'[c]
    BY <2>1 DEF Updates
  <2> HIDE DEF u
  <2>3. Tells(n, u)
    <3>1. ASSUME NEW i \in Ids, NEW f \in Facets
          PROVE  /\ Gives(u, i, f) => Facet(u.message, f) = Facet(server'[i], f)
                 /\ ~Writes(u, i, f) => Facet(server'[i], f) = Facet(server[i], f)
      BY <1>3, <2>2 DEF Gives, Writes, Sets, Edits, Clears, Facets, Facet
    <3>2. ASSUME NEW i \in Ids
          PROVE  /\ Sets(u, i) => i > n /\ u.message.state # "none"
                 /\ Clears(u, i) => server'[i].state = "deleted"
                 /\ server[i].state = "deleted" => server'[i].state = "deleted"
                 /\ Exists(server'[i]) => Exists(server[i]) \/ Sets(u, i)
      BY <1>3, <2>2 DEF Sets, Clears, Exists
    <3> QED
      BY <1>2, <1>3, <3>1, <3>2 DEF Tells
  <2>4. Send(u)
    BY <1>5 DEF u
  <2> QED
    BY <1>4, <1>5, <2>2, <2>3, <2>4, SendFollows
<1>6. CASE unheard' = unheard \cup {c} /\ UNCHANGED <<stream, lost>>
  <2>0. /\ StoredInv /\ StreamInv(n) /\ SessionInv(n) /\ CoverInv(n) /\ PageHolds(n) /\ ComesInv
        /\ UNCHANGED <<store, fetch, whole, touched, raced, stream, lost>>
    BY <1>4, <1>6 DEF FollowInv, quiet
  <2>1. \A i \in Ids : Exists(server'[i]) <=> Exists(server[i])
    BY <1>3 DEF Exists
  <2>2. \A k \in Nat \ {0} : Covered(n, k) <=> Covered(n, k)'
    <3>1. \A k \in Nat \ {0} : \A i \in k .. n : i \in Ids
      BY DEF Ids
    <3> QED
      BY <2>0, <2>1, <3>1 DEF Covered
  <2>3. CoverInv(n)'
    <3>1. Known' = Known /\ (\A k \in Known : k \in Nat \ {0}) /\ 1 \in Nat \ {0}
          /\ (fetch.anchor # NEWEST => fetch.anchor \in Nat \ {0})
      BY <2>0 DEF Known, Ids, TypeOK, Fetch, NEWEST
    <3>2. \A k \in Known : Covered(n, k)'
      BY <2>0, <2>2, <3>1 DEF CoverInv
    <3>3. whole => Covered(n, 1)'
      BY <2>0, <2>2 DEF CoverInv
    <3>4. fetch.stage \in {"spawned", "answered"} /\ fetch.anchor # NEWEST => Covered(n, fetch.anchor)'
      BY <2>0, <2>2, <3>1 DEF CoverInv
    <3> QED
      BY <2>0, <3>1, <3>2, <3>3, <3>4 DEF CoverInv, Covered
  <2>4. ComesInv'
    <3>1. ASSUME NEW i \in Ids \ Doubted', NEW f \in Facets, ~(f = "version" /\ i \in unheard')
          PROVE  Comes(i, f)'
      <4>1. i \in Ids \ Doubted /\ ~(f = "version" /\ i \in unheard)
        BY <1>6, <2>0, <3>1 DEF Doubted
      <4>2. Comes(i, f)
        BY <2>0, <4>1 DEF ComesInv
      <4>3. Facet(server'[i], f) = Facet(server[i], f)
        BY <1>3, <1>6, <3>1 DEF Facets, Facet
      <4> QED
        BY <2>0, <4>2, <4>3 DEF Comes, NoneWrites, Merged
    <3> QED
      BY <3>1 DEF ComesInv
  <2>5. StoredInv' /\ StreamInv(n)' /\ SessionInv(n)'
    BY <1>2, <1>3, <2>0, <2>1 DEF StoredInv, StreamInv, SessionInv
  <2>6. PageHolds(n)'
    BY <1>2, <2>0, <2>1 DEF PageHolds
  <2> QED
    BY <2>3, <2>4, <2>5, <2>6 DEF FollowInv
<1> QED
  BY <1>1, <1>5, <1>6

\* What the fold of an update leaves of message i.
LEMMA FoldedFacts ==
  ASSUME NEW s \in [Ids -> Message], NEW u \in Updates, NEW i \in Ids, NEW f \in Facets
  PROVE  /\ Sets(u, i) => Reduce(s, u)[i] = u.message
         /\ Clears(u, i) => Reduce(s, u)[i] = None
         /\ ~Sets(u, i) /\ ~Clears(u, i) /\ ~Edits(u, i) => Reduce(s, u)[i] = s[i]
         /\ Edits(u, i) /\ s[i] = None => Reduce(s, u)[i] = None
         /\ Edits(u, i) /\ s[i] # None =>
              Reduce(s, u)[i].state = s[i].state /\ Reduce(s, u)[i].version = u.message.version
<1>1. CASE u.kind \in {"new", "failed"}
  <2>1. u.id \in Ids /\ u.message \in Message
    BY <1>1 DEF Updates
  <2>2. Reduce(s, u) = [s EXCEPT ![u.id] = u.message]
    BY <1>1 DEF Reduce
  <2> QED
    BY <1>1, <2>1, <2>2 DEF Sets, Clears, Edits
<1>2. CASE u.kind = "content"
  <2>1. u.id \in Ids /\ u.message \in Message
    BY <1>2 DEF Updates
  <2>2. Reduce(s, u) = IF s[u.id] = None THEN s
                       ELSE [s EXCEPT ![u.id].version = u.message.version]
    BY <1>2 DEF Reduce
  <2>3. CASE u.id # i
    BY <1>2, <2>1, <2>2, <2>3 DEF Sets, Clears, Edits
  <2>4. CASE u.id = i /\ s[i] = None
    BY <1>2, <2>1, <2>2, <2>4 DEF Sets, Clears, Edits
  <2>5. CASE u.id = i /\ s[i] # None
    <3>1. Reduce(s, u)[i] = [s[i] EXCEPT !.version = u.message.version]
      BY <2>1, <2>2, <2>5
    <3> QED
      BY <1>2, <2>5, <3>1 DEF Sets, Clears, Edits, Message
  <2> QED
    BY <2>3, <2>4, <2>5
<1>3. CASE u.kind = "succeeded"
  <2>1. u.id \in Ids /\ u.old \in Ids /\ u.message \in Message
    BY <1>3 DEF Updates
  <2>2. Reduce(s, u) = [s EXCEPT ![u.old] = None, ![u.id] = u.message]
    BY <1>3 DEF Reduce
  <2>3. Reduce(s, u) = [j \in Ids |-> IF j = u.id THEN u.message
                                      ELSE IF j = u.old THEN None ELSE s[j]]
    BY <2>1, <2>2, Zenon
  <2> QED
    BY <1>3, <2>1, <2>3 DEF Sets, Clears, Edits
<1>4. CASE u.kind = "delete"
  <2>1. u.id \in Ids /\ Reduce(s, u) = [s EXCEPT ![u.id] = None]
    BY <1>4 DEF Updates, Reduce
  <2> QED
    BY <1>4, <2>1 DEF Sets, Clears, Edits
<1>5. CASE u.kind \in {"evict", "read"}
  BY <1>5 DEF Reduce, Sets, Clears, Edits
<1>6. u.kind \in {"new", "failed", "content", "succeeded", "delete", "evict", "read"}
  BY DEF Updates
<1> QED
  BY <1>1, <1>2, <1>3, <1>4, <1>5, <1>6

LEMMA FoldFollows ==
  ASSUME TypeOK, NEW n \in 0 .. MaxId, FollowInv(n), Fold
  PROVE  FollowInv(n)'
<1> DEFINE u == Head(stream)
           q == Tail(stream)
<1>0. /\ StoredInv /\ StreamInv(n) /\ SessionInv(n) /\ CoverInv(n) /\ PageHolds(n) /\ ComesInv
      /\ UNCHANGED <<server, fetch, whole, lost, raced, unheard>>
      /\ store \in [Ids -> Message] /\ store' = Reduce(store, u) /\ stream' = q
      /\ touched' = IF fetch.stage = "answered" THEN touched \cup About(u) ELSE touched
  BY DEF FollowInv, Fold, tdVars, TypeOK
<1>1. /\ u \in Updates /\ u = stream[1] /\ Len(stream) \in Nat \ {0} /\ 1 \in 1 .. Len(stream)
      /\ Len(q) = Len(stream) - 1
      /\ \A k \in 1 .. Len(q) : q[k] = stream[k + 1] /\ k + 1 \in 1 .. Len(stream)
  BY DEF Fold, TypeOK
<1> HIDE DEF u, q
<1>2. ASSUME NEW i \in Ids
      PROVE  /\ Sets(u, i) => store'[i] = u.message
             /\ Clears(u, i) => store'[i] = None
             /\ ~Sets(u, i) /\ ~Clears(u, i) /\ ~Edits(u, i) => store'[i] = store[i]
             /\ Edits(u, i) /\ store[i] = None => store'[i] = None
             /\ Edits(u, i) /\ store[i] # None =>
                  store'[i].state = store[i].state /\ store'[i].version = u.message.version
  <2>1. "state" \in Facets
    BY DEF Facets
  <2> QED
    BY <1>0, <1>1, <2>1, FoldedFacts
<1>3. ASSUME NEW i \in Ids
      PROVE  /\ Sets(u, i) => i > n /\ u.message.state # "none"
             /\ Clears(u, i) => server[i].state = "deleted"
  BY <1>0, <1>1 DEF StreamInv
<1>4. StoredInv'
  BY <1>0, <1>2, <1>3 DEF StoredInv
<1>5. StreamInv(n)'
  BY <1>0, <1>1 DEF StreamInv
<1>6. ASSUME NEW i \in Ids, store[i] # None, Exists(server[i])
      PROVE  store'[i] # None
  BY <1>0, <1>2, <1>3, <1>6 DEF Exists, None, StoredInv
<1>7. SessionInv(n)'
  <2>1. ASSUME NEW i \in Ids \ lost, i > n, Exists(server[i])
        PROVE  store'[i] # None \/ \E k \in 1 .. Len(q) : Sets(q[k], i)
    <3>1. CASE store[i] # None
      BY <1>6, <2>1, <3>1
    <3>2. CASE store[i] = None
      <4>1. PICK k \in 1 .. Len(stream) : Sets(stream[k], i)
        BY <1>0, <2>1, <3>2 DEF SessionInv
      <4>2. CASE k = 1
        BY <1>1, <1>2, <1>3, <4>1, <4>2 DEF None
      <4>3. CASE k # 1
        <5>1. k - 1 \in 1 .. Len(q) /\ q[k - 1] = stream[k]
          BY <1>1, <4>3
        <5> QED
          BY <4>1, <5>1
      <4> QED
        BY <4>2, <4>3
    <3> QED
      BY <3>1, <3>2
  <2> QED
    BY <1>0, <2>1 DEF SessionInv
<1>8. CoverInv(n)'
  <2>1. ASSUME NEW k \in Nat \ {0}, Covered(n, k)
        PROVE  Covered(n, k)'
    <3>1. \A i \in k .. n : i \in Ids
      BY DEF Ids
    <3> QED
      BY <1>0, <1>6, <2>1, <3>1 DEF Covered
  <2>2. /\ \A k \in Ids : k \in Nat \ {0}
        /\ 1 \in Nat \ {0}
        /\ fetch.anchor # NEWEST => fetch.anchor \in Nat \ {0}
    BY DEF Ids, TypeOK, Fetch, NEWEST
  <2>3. ASSUME NEW k \in Known'
        PROVE  Covered(n, k)'
    <3>1. k \in Ids /\ store'[k] # None
      BY DEF Known
    <3>2. CASE store[k] # None
      <4>1. Covered(n, k)
        BY <1>0, <3>1, <3>2 DEF CoverInv, Known
      <4> QED
        BY <2>1, <2>2, <3>1, <4>1
    <3>3. CASE store[k] = None
      <4>1. k > n
        BY <1>2, <1>3, <3>1, <3>3
      <4>2. k .. n = {}
        BY <3>1, <4>1 DEF Ids
      <4> QED
        BY <4>2 DEF Covered
    <3> QED
      BY <3>2, <3>3
  <2>4. whole => Covered(n, 1)'
    BY <1>0, <2>1, <2>2 DEF CoverInv
  <2>5. fetch.stage \in {"spawned", "answered"} /\ fetch.anchor # NEWEST => Covered(n, fetch.anchor)'
    BY <1>0, <2>1, <2>2 DEF CoverInv
  <2> QED
    BY <1>0, <2>3, <2>4, <2>5 DEF CoverInv, Covered
<1>9. PageHolds(n)'
  BY <1>0 DEF PageHolds
<1>10. ASSUME NEW i, NEW f, NEW k \in Nat \ {0}, NoneWrites(i, f, k)'
       PROVE  NoneWrites(i, f, k + 1)
  <2>1. ASSUME NEW j \in (k + 1) .. Len(stream)
        PROVE  ~Writes(stream[j], i, f)
    <3>1. j - 1 \in k .. Len(q) /\ j - 1 \in 1 .. Len(q) /\ q[j - 1] = stream[j]
      BY <1>1
    <3> QED
      BY <1>0, <1>10, <3>1 DEF NoneWrites
  <2> QED
    BY <2>1 DEF NoneWrites
<1>11. ASSUME NEW i, NEW f, NoneWrites(i, f, 1)', ~Writes(u, i, f)
       PROVE  NoneWrites(i, f, 1)
  <2>1. NoneWrites(i, f, 1 + 1)
    BY <1>10, <1>11
  <2>2. \A j \in 1 .. Len(stream) : j = 1 \/ j \in (1 + 1) .. Len(stream)
    OBVIOUS
  <2> QED
    BY <1>1, <1>11, <2>1, <2>2 DEF NoneWrites
<1>12. ASSUME NEW i \in Ids \ Doubted', NEW f \in Facets, ~(f = "version" /\ i \in unheard)
       PROVE  Comes(i, f)'
  <2>1. i \in Ids \ Doubted
    BY <1>0, <1>12 DEF Doubted
  <2>2. Comes(i, f)
    BY <1>0, <1>12, <2>1 DEF ComesInv
  <2>3. ASSUME NEW k \in 1 .. Len(q), Gives(q[k], i, f), NoneWrites(i, f, k + 1)'
        PROVE  Facet(q[k].message, f) = Facet(server[i], f)
    <3>1. NoneWrites(i, f, k + 1 + 1)
      BY <1>10, <2>3
    <3> QED
      BY <1>1, <2>2, <2>3, <3>1 DEF Comes
  <2>4. ASSUME NoneWrites(i, f, 1)', Merged(i)' # None
        PROVE  Facet(Merged(i)', f) = Facet(server[i], f)
    <3>1. CASE fetch.stage = "answered" /\ i \in DOMAIN fetch.page
      <4>1. ~Writes(u, i, f)
        BY <1>0, <1>12, <3>1, WritesAbout DEF Doubted
      <4>2. NoneWrites(i, f, 1)
        BY <1>11, <2>4, <4>1
      <4>3. Merged(i)' = Merged(i)
        BY <1>0, <3>1 DEF Merged
      <4> QED
        BY <2>2, <2>4, <4>2, <4>3 DEF Comes
    <3>2. CASE ~(fetch.stage = "answered" /\ i \in DOMAIN fetch.page)
      <4>1. Merged(i) = store[i] /\ Merged(i)' = store'[i]
        BY <1>0, <3>2 DEF Merged
      <4>2. CASE Gives(u, i, f)
        <5>1. NoneWrites(i, f, 1 + 1)
          BY <1>10, <2>4
        <5>2. Facet(u.message, f) = Facet(server[i], f)
          BY <1>1, <2>2, <4>2, <5>1 DEF Comes
        <5>3. Facet(store'[i], f) = Facet(u.message, f)
          BY <1>2, <2>4, <4>1, <4>2 DEF Gives, Facet, Sets, Edits
        <5> QED
          BY <4>1, <5>2, <5>3
      <4>3. CASE Clears(u, i)
        BY <1>2, <2>4, <4>1, <4>3
      <4>4. CASE ~Writes(u, i, f)
        <5>1. store[i] # None /\ Facet(store'[i], f) = Facet(store[i], f)
          BY <1>2, <2>4, <4>1, <4>4 DEF Writes, Gives, Facet, Facets
        <5> QED
          BY <1>11, <2>2, <2>4, <4>1, <4>4, <5>1 DEF Comes
      <4> QED
        BY <4>2, <4>3, <4>4 DEF Writes
    <3> QED
      BY <3>1, <3>2
  <2> QED
    BY <1>0, <2>3, <2>4 DEF Comes
<1>13. ComesInv'
  BY <1>0, <1>12 DEF ComesInv
<1> QED
  BY <1>4, <1>5, <1>7, <1>8, <1>9, <1>13 DEF FollowInv

\* TDLib answers with its messages as they are, and none missing between them.
LEMMA PageAnsweredFollows ==
  ASSUME TypeOK, NEW n \in 0 .. MaxId, FollowInv(n), PageAnswered
  PROVE  FollowInv(n)'
<1> DEFINE older == {i \in Ids : Exists(server[i]) /\ (fetch.anchor = NEWEST \/ i < fetch.anchor)}
<1>0. /\ StoredInv /\ StreamInv(n) /\ SessionInv(n) /\ CoverInv(n) /\ PageHolds(n) /\ ComesInv
      /\ UNCHANGED <<server, stream, store, whole, lost, raced, unheard>> /\ touched' = {}
      /\ fetch.stage = "spawned"
  BY DEF FollowInv, PageAnswered, tdVars
<1>1. PICK page \in SUBSET older :
        /\ older # {} => page # {}
        /\ \A i \in page, j \in older \ page : j < i
        /\ fetch' = [fetch EXCEPT !.stage = "answered", !.page = [i \in page |-> server[i]],
                                  !.reachedStart = page = {}]
  BY DEF PageAnswered
<1>2. /\ fetch'.stage = "answered" /\ fetch'.anchor = fetch.anchor
      /\ fetch'.page = [i \in page |-> server[i]] /\ fetch'.reachedStart = (page = {})
  BY <1>1 DEF TypeOK, Fetch
<1>3. PageHolds(n)'
  <2>1. ASSUME NEW i \in 1 .. n, Exists(server[i]), fetch.anchor = NEWEST \/ i < fetch.anchor
        PROVE  page # {} /\ \A k \in page : k <= i => i \in page
    <3>1. i \in older
      BY <2>1 DEF Ids
    <3>2. \A k \in page : k \in Nat /\ i \in Nat
      BY DEF Ids
    <3> HIDE DEF older
    <3> QED
      BY <1>1, <3>1, <3>2
  <2>2. \A i \in page : server[i].state # "none"
    BY DEF Exists
  <2> QED
    BY <1>0, <1>2, <2>1, <2>2 DEF PageHolds
<1>4. CoverInv(n)'
  BY <1>0, <1>2 DEF CoverInv, Covered, Known
<1>5. ComesInv'
  <2>1. ASSUME NEW i \in Ids \ Doubted', NEW f \in Facets, ~(f = "version" /\ i \in unheard)
        PROVE  Comes(i, f)'
    <3>1. i \in Ids \ Doubted
      BY <1>0, <2>1 DEF Doubted
    <3>2. Comes(i, f)
      BY <1>0, <2>1, <3>1 DEF ComesInv
    <3>3. Merged(i)' = server[i] \/ Merged(i)' = Merged(i)
      BY <1>0, <1>2 DEF Merged
    <3> QED
      BY <1>0, <3>2, <3>3 DEF Comes, NoneWrites
  <2> QED
    BY <1>0, <2>1 DEF ComesInv
<1>6. StoredInv' /\ StreamInv(n)' /\ SessionInv(n)'
  BY <1>0 DEF StoredInv, StreamInv, SessionInv
<1> QED
  BY <1>3, <1>4, <1>5, <1>6 DEF FollowInv

\* The store becomes what it was to be once the page is merged.
LEMMA PageMergedFollows ==
  ASSUME TypeOK, NEW n \in 0 .. MaxId, FollowInv(n), PageMerged
  PROVE  FollowInv(n)'
<1>0. /\ StoredInv /\ StreamInv(n) /\ SessionInv(n) /\ CoverInv(n) /\ PageHolds(n) /\ ComesInv
      /\ UNCHANGED <<server, stream>> /\ fetch.stage = "answered"
      /\ whole' = (whole \/ fetch.reachedStart)
      /\ raced' = raced \cup (touched \cap DOMAIN fetch.page)
      /\ unheard' = unheard \ Caught /\ lost' = lost \ Caught
  BY DEF FollowInv, PageMerged, tdVars
<1>1. fetch'.stage = "reported" /\ fetch'.reachedStart = fetch.reachedStart
  BY ReportedFacts DEF PageMerged, TypeOK, Fetch
<1>2. /\ DOMAIN fetch.page \subseteq Ids
      /\ \A i \in Ids : store'[i] = IF i \in DOMAIN fetch.page THEN fetch.page[i] ELSE store[i]
      /\ \A i \in DOMAIN fetch.page : fetch.page[i] # None /\ fetch.page[i].state # "none"
  BY <1>0, PageIds DEF PageMerged, Merge, PageHolds, None
<1>3. \A i \in Ids : store'[i] = Merged(i) /\ Merged(i)' = store'[i]
  BY <1>0, <1>1, <1>2 DEF Merged
<1>4. \A i \in Ids : store[i] # None => store'[i] # None
  BY <1>2
<1>5. StoredInv' /\ StreamInv(n)'
  BY <1>0, <1>2 DEF StoredInv, StreamInv
<1>6. SessionInv(n)'
  <2>1. \A i \in Caught : store'[i] # None
    BY <1>2 DEF Caught
  <2> QED
    BY <1>0, <1>4, <2>1 DEF SessionInv
<1>7. CoverInv(n)'
  <2>1. ASSUME NEW k \in Nat \ {0}, Covered(n, k)
        PROVE  Covered(n, k)'
    <3>1. \A i \in k .. n : i \in Ids
      BY DEF Ids
    <3> QED
      BY <1>0, <1>4, <2>1, <3>1 DEF Covered
  <2>2. /\ \A k \in Ids : k \in Nat \ {0}
        /\ 1 \in Nat \ {0} /\ fetch.anchor \in Nat
    BY DEF Ids, TypeOK, Fetch
  <2>3. ASSUME NEW i \in 1 .. n, Exists(server[i]), fetch.anchor # NEWEST, ~(i < fetch.anchor)
        PROVE  store'[i] # None
    <3>1. Covered(n, fetch.anchor) /\ i \in fetch.anchor .. n /\ i \in Ids
      BY <1>0, <2>2, <2>3 DEF CoverInv, Ids
    <3> QED
      BY <1>4, <2>3, <3>1 DEF Covered
  <2>4. ASSUME NEW k \in DOMAIN fetch.page
        PROVE  Covered(n, k)'
    <3>1. ASSUME NEW i \in k .. n, Exists(server[i])
          PROVE  store'[i] # None
      <4>1. i \in 1 .. n /\ i \in Ids /\ k <= i
        BY <1>2, <2>2 DEF Ids
      <4>2. CASE fetch.anchor = NEWEST \/ i < fetch.anchor
        <5>1. i \in DOMAIN fetch.page
          BY <1>0, <3>1, <4>1, <4>2 DEF PageHolds
        <5> QED
          BY <1>2, <4>1, <5>1
      <4>3. CASE ~(fetch.anchor = NEWEST \/ i < fetch.anchor)
        BY <2>3, <3>1, <4>1, <4>3
      <4> QED
        BY <4>2, <4>3
    <3> QED
      BY <1>0, <3>1 DEF Covered
  <2>5. \A k \in Known' : Covered(n, k)'
    <3>1. ASSUME NEW k \in Known' PROVE k \in Known \/ k \in DOMAIN fetch.page
      BY <1>2 DEF Known
    <3>2. \A k \in Known : Covered(n, k)'
      BY <1>0, <2>1, <2>2 DEF CoverInv, Known
    <3> QED
      BY <2>4, <3>1, <3>2
  <2>6. fetch.reachedStart => Covered(n, 1)'
    <3>1. ASSUME fetch.reachedStart, NEW i \in 1 .. n, Exists(server[i])
          PROVE  store'[i] # None
      <4>1. ~(fetch.anchor = NEWEST \/ i < fetch.anchor)
        BY <1>0, <3>1 DEF PageHolds
      <4> QED
        BY <2>3, <3>1, <4>1
    <3> QED
      BY <1>0, <3>1 DEF Covered
  <2>7. whole => Covered(n, 1)'
    BY <1>0, <2>1, <2>2 DEF CoverInv
  <2>8. whole' => Covered(n, 1)'
    BY <1>0, <2>6, <2>7
  <2> QED
    BY <1>1, <2>5, <2>8 DEF CoverInv, Covered
<1>8. PageHolds(n)'
  BY <1>0, <1>1 DEF PageHolds
<1>9. ComesInv'
  <2>1. ASSUME NEW i \in Ids \ Doubted', NEW f \in Facets, ~(f = "version" /\ i \in unheard')
        PROVE  Comes(i, f)'
    <3>1. CASE i \in Caught
      <4>1. fetch.page[i] = server[i] /\ Merged(i)' = server[i]
            /\ \A k \in 1 .. Len(stream) : i \notin About(stream[k])
        BY <1>0, <1>3, <3>1 DEF Caught, Merged
      <4>2. \A k \in 1 .. Len(stream) : ~Writes(stream[k], i, f)
        BY <4>1, WritesAbout
      <4> QED
        BY <1>0, <4>1, <4>2 DEF Comes, Writes
    <3>2. CASE i \notin Caught
      <4>1. i \in Ids \ Doubted /\ ~(f = "version" /\ i \in unheard)
        BY <1>0, <1>1, <2>1, <3>2 DEF Doubted
      <4>2. Comes(i, f)
        BY <1>0, <4>1 DEF ComesInv
      <4> QED
        BY <1>0, <1>3, <4>2 DEF Comes, NoneWrites
    <3> QED
      BY <3>1, <3>2
  <2> QED
    BY <2>1 DEF ComesInv
<1> QED
  BY <1>5, <1>6, <1>7, <1>8, <1>9 DEF FollowInv

\* A page is asked for before the oldest message known, or from the newest; it fails;
\* its report is taken.
LEMMA FetchFollows ==
  ASSUME TypeOK, NEW n \in 0 .. MaxId, FollowInv(n), UNCHANGED <<server, stream, store, ghosts>>,
         \/ fetch.stage = "idle" /\ \E anchor \in {NEWEST, Oldest} : fetch' = Spawned(anchor)
         \/ fetch.stage = "spawned" /\ fetch' = Reported(FALSE)
         \/ fetch.stage = "reported" /\ fetch' = Idle
         \/ fetch' = fetch
  PROVE  FollowInv(n)'
<1>0. /\ StoredInv /\ StreamInv(n) /\ SessionInv(n) /\ CoverInv(n) /\ PageHolds(n) /\ ComesInv
      /\ UNCHANGED <<server, stream, store, whole, lost, touched, raced, unheard>>
  BY DEF FollowInv, ghosts
<1>1. \/ fetch' = fetch
      \/ /\ fetch.stage # "answered" /\ fetch'.stage # "answered"
         /\ fetch'.stage \in {"idle", "spawned"} => ~fetch'.reachedStart
         /\ ~(fetch'.stage = "reported" /\ fetch'.reachedStart)
         /\ fetch'.stage = "spawned" => fetch'.anchor \in {NEWEST, Oldest}
  <2>1. CASE \E anchor \in {NEWEST, Oldest} : fetch.stage = "idle" /\ fetch' = Spawned(anchor)
    BY <2>1 DEF Spawned, Unanswered
  <2>2. CASE fetch.stage = "spawned" /\ fetch' = Reported(FALSE)
    <3>1. fetch'.stage = "reported" /\ ~fetch'.reachedStart
      BY <2>2, ReportedFacts
    <3> QED
      BY <2>2, <3>1
  <2>3. CASE fetch.stage = "reported" /\ fetch' = Idle
    BY <2>3 DEF Idle, Unanswered
  <2> QED
    BY <2>1, <2>2, <2>3
<1>2. Oldest = NEWEST \/ Oldest \in Known
  <2>1. Known \in SUBSET Nat
    BY DEF Known, Ids
  <2> QED
    BY <2>1, MinFacts DEF Oldest
<1>3. CoverInv(n)'
  <2>1. \A k : Covered(n, k)' <=> Covered(n, k)
    BY <1>0 DEF Covered
  <2>2. fetch'.stage \in {"spawned", "answered"} /\ fetch'.anchor # NEWEST => Covered(n, fetch'.anchor)
    BY <1>0, <1>1, <1>2 DEF CoverInv
  <2>3. Known' = Known
    BY <1>0 DEF Known
  <2> QED
    BY <1>0, <2>1, <2>2, <2>3 DEF CoverInv
<1>4. PageHolds(n)'
  BY <1>0, <1>1 DEF PageHolds
<1>5. Doubted' = Doubted /\ \A i : Merged(i)' = Merged(i)
  BY <1>0, <1>1 DEF Doubted, Merged
<1>6. ComesInv'
  BY <1>0, <1>5 DEF ComesInv, Comes, NoneWrites
<1>7. StoredInv' /\ StreamInv(n)' /\ SessionInv(n)'
  BY <1>0 DEF StoredInv, StreamInv, SessionInv
<1> QED
  BY <1>3, <1>4, <1>6, <1>7 DEF FollowInv

LEMMA StepsFollow ==
  ASSUME TypeOK, Follows, Steps
  PROVE  Follows'
<1>1. PICK n \in 0 .. MaxId : FollowInv(n)
  BY DEF Follows
<1>2. \/ Create \/ SendSucceeds \/ SendFails \/ Change \/ Delete \/ Evict
      \/ Fold \/ PageAnswered \/ PageMerged
  BY DEF Steps, TdlibSteps
<1>3. FollowInv(n)'
  BY <1>1, <1>2, CreateFollows, SendSucceedsFollows, SendFailsFollows, ChangeFollows,
     DeleteFollows, EvictFollows, FoldFollows, PageAnsweredFollows, PageMergedFollows
<1> QED
  BY <1>3 DEF Follows

LEMMA MarkFollows ==
  ASSUME TypeOK, Follows, NEW i \in Ids, SendMark(i)
  PROVE  Follows'
<1>1. PICK n \in 0 .. MaxId : FollowInv(n)
  BY DEF Follows
<1>2. FollowInv(n)'
  BY <1>1, SendMarkFollows
<1> QED
  BY <1>2 DEF Follows

LEMMA FetchesFollow ==
  ASSUME TypeOK, Follows, UNCHANGED <<server, stream, store, ghosts>>,
         \/ fetch.stage = "idle" /\ \E anchor \in {NEWEST, Oldest} : fetch' = Spawned(anchor)
         \/ fetch.stage = "spawned" /\ fetch' = Reported(FALSE)
         \/ fetch.stage = "reported" /\ fetch' = Idle
         \/ fetch' = fetch
  PROVE  Follows'
<1>1. PICK n \in 0 .. MaxId : FollowInv(n)
  BY DEF Follows
<1>2. FollowInv(n)'
  BY <1>1, FetchFollows
<1> QED
  BY <1>2 DEF Follows

\* The store starts empty, and so does the stream.
LEMMA InitFollows ==
  ASSUME Init
  PROVE  Follows
<1>1. PICK n \in 0 .. MaxId - 1 :
        server = [i \in Ids |-> IF i <= n THEN New("incoming") ELSE None]
  BY DEF Init
<1>2. n \in 0 .. MaxId /\ n \in Nat /\ \A i \in 1 .. n : i \in Ids /\ server[i].state = "incoming"
  BY <1>1 DEF Ids, New
<1>3. /\ stream = << >> /\ Len(stream) = 0 /\ fetch.stage = "idle" /\ ~fetch.reachedStart
      /\ ~whole /\ lost = {} /\ raced = {}
      /\ \A i \in Ids : store[i] = None
  BY DEF Init, Idle, Unanswered
<1>4. SessionInv(n)
  <2>1. \A i \in Ids : i > n => ~Exists(server[i])
    BY <1>1, <1>2 DEF Exists, None, Ids
  <2> QED
    BY <2>1 DEF SessionInv
<1>5. CoverInv(n)
  BY <1>3 DEF CoverInv, Known
<1>6. StoredInv /\ StreamInv(n) /\ PageHolds(n)
  BY <1>2, <1>3 DEF StoredInv, StreamInv, PageHolds
<1>7. ComesInv
  BY <1>3 DEF ComesInv, Comes, Merged
<1> QED
  BY <1>2, <1>4, <1>5, <1>6, <1>7 DEF Follows, FollowInv

\* What comes has come when nothing is left to fold or to merge.
LEMMA FollowsHolds ==
  ASSUME TypeOK, Follows
  PROVE  StoreFollows
<1>1. PICK n \in 0 .. MaxId : FollowInv(n)
  BY DEF Follows
<1>2. SessionInv(n) /\ CoverInv(n) /\ ComesInv
  BY <1>1 DEF FollowInv
<1> SUFFICES ASSUME Quiet, NEW i \in Ids \ (raced \cup lost)
             PROVE  /\ store[i] # None => /\ store[i].state = server[i].state
                                          /\ i \notin unheard => store[i].version = server[i].version
                    /\ (Exists(server[i]) /\ (whole \/ (Known # {} /\ i > Oldest))) => store[i] # None
  BY DEF StoreFollows
<1>3. Len(stream) = 0 /\ fetch.stage # "answered"
  BY DEF Quiet
<1>4. i \notin Doubted /\ Merged(i) = store[i]
  BY <1>3 DEF Doubted, Merged
<1>5. ASSUME NEW f \in Facets, ~(f = "version" /\ i \in unheard), store[i] # None
      PROVE  Facet(store[i], f) = Facet(server[i], f)
  <2>1. Comes(i, f)
    BY <1>2, <1>4, <1>5 DEF ComesInv
  <2> QED
    BY <1>3, <1>4, <1>5, <2>1 DEF Comes, NoneWrites
<1>6. store[i] # None => /\ store[i].state = server[i].state
                         /\ i \notin unheard => store[i].version = server[i].version
  BY <1>5 DEF Facets, Facet
<1>7. ASSUME Exists(server[i]), whole \/ (Known # {} /\ i > Oldest)
      PROVE  store[i] # None
  <2>1. CASE i > n
    BY <1>2, <1>3, <1>7, <2>1 DEF SessionInv
  <2>2. CASE ~(i > n) /\ whole
    <3>1. i \in 1 .. n /\ Covered(n, 1)
      BY <1>2, <2>2 DEF Ids, CoverInv
    <3> QED
      BY <1>7, <3>1 DEF Covered
  <2>3. CASE ~(i > n) /\ Known # {} /\ i > Oldest
    <3>1. Known \in SUBSET Nat
      BY DEF Known, Ids
    <3>2. Oldest \in Known /\ Oldest \in Nat
      BY <2>3, <3>1, MinFacts DEF Oldest
    <3>3. i \in Oldest .. n /\ Covered(n, Oldest)
      BY <1>2, <2>3, <3>2 DEF Ids, CoverInv
    <3> QED
      BY <1>7, <3>3 DEF Covered
  <2> QED
    BY <1>7, <2>1, <2>2, <2>3
<1> QED
  BY <1>6, <1>7

\* The store is a view of TDLib's messages: once nothing is left to fold or to merge,
\* each it holds is as TDLib has it and none is missing from the oldest one loaded on,
\* or from the start once that was reached; but for what a lost update, an unannounced
\* change or an overtaken page has put in doubt.
THEOREM HistoryFollows == Spec => []StoreFollows
<1>1. Init => TypeOK /\ Provenance /\ Follows
  BY InitInv, InitFollows
<1>2. TypeOK /\ Provenance /\ Follows /\ [Next]_vars => Follows'
  <2> SUFFICES ASSUME TypeOK, Provenance, Follows, [Next]_vars PROVE Follows'
    OBVIOUS
  <2>1. CASE Steps
    BY <2>1, StepsFollow
  <2>2. CASE PageFailed
    BY <2>2, FetchesFollow DEF PageFailed, tdVars
  <2>3. ASSUME NEW anchor \in {NEWEST, Oldest},
               PageSpawned(anchor), UNCHANGED <<tdVars, stream, store, ghosts>>
        PROVE  Follows'
    <3>1. fetch.stage = "idle" /\ fetch' = Spawned(anchor)
      BY <2>3 DEF PageSpawned, Idle, Unanswered
    <3> QED
      BY <2>3, <3>1, FetchesFollow DEF tdVars
  <2>4. CASE PageTaken /\ UNCHANGED <<tdVars, stream, store, ghosts>>
    BY <2>4, FetchesFollow DEF PageTaken, tdVars
  <2>5. CASE SetOpen(~tdOpen)
    BY <2>5, FetchesFollow DEF SetOpen
  <2>6. ASSUME NEW i \in Ids, SendMark(i)
        PROVE  Follows'
    BY <2>6, MarkFollows
  <2>7. CASE UNCHANGED vars
    BY <2>7, FetchesFollow DEF vars, tdVars
  <2> QED
    BY <2>1, <2>2, <2>3, <2>4, <2>5, <2>6, <2>7 DEF Next
<1>3. TypeOK /\ Follows => StoreFollows
  BY FollowsHolds
<1> QED
  BY <1>1, <1>2, <1>3, HistoryInductive, PTL DEF Spec

-----------------------------------------------------------------------------
(* The loop.                                                               *)

\* A page is on its way or not, as the loop thinks, and never before the first
\* opening: so the landing page finds no other in its way.
PageInv ==
  /\ LoadingMarksFlight
  /\ fetch.stage = "idle" => fetch = Idle
  /\ loading \/ open => firstPaged

\* The calls spawned are as many as the openings and leavings so far at most.
CountInv ==
  /\ calls["open"] <= opens
  /\ calls["close"] + (IF open THEN 1 ELSE 0) <= opens

\* Unless the last call was spawned before another had run, there is one at most, and
\* it makes TDLib's state the loop's; or it failed.
CallInv ==
  ~crossed =>
    \/ calls["open"] = 0 /\ calls["close"] = 0 /\ (~refused => tdOpen = open)
    \/ calls["open"] = 1 /\ calls["close"] = 0 /\ open
    \/ calls["open"] = 0 /\ calls["close"] = 1 /\ ~open

\* The loop's horizon is an incoming message's: TDLib has read that far, or the view is
\* still to run, or it failed.
ReadInv ==
  /\ readThrough # 0 => Theirs(server, readThrough) /\ opens > 0
  /\ ~unheeded => readThrough <= readAt \/ readThrough \in views

\* Update k of the stream is the chat's read mark.
IsMark(k) == stream[k].kind = "read"

\* The read marks are behind TDLib's, and the last on its way is TDLib's.
MarkInv ==
  /\ lastRead <= readAt
  /\ \A k \in 1 .. Len(stream) : IsMark(k) =>
       /\ stream[k].id <= readAt
       /\ stream[k].id = readAt \/ \E j \in k + 1 .. Len(stream) : IsMark(j)
  /\ ~MarkComes /\ ~markLost => lastRead = readAt

\* The loop stops paging only at the start of history.
EndInv == exhausted => whole

HInv == OpenTypeOK /\ Provenance
IInv ==
  HInv /\ PageInv /\ CountInv /\ CallInv /\ ReadInv /\ MarkInv /\ Follows /\ EndInv

-----------------------------------------------------------------------------
\* The newest unread message is one of them.
LEMMA UnreadFacts ==
  ASSUME TypeOK, Unread # {}
  PROVE  Max(Unread) \in Unread /\ Max(Unread) \in Ids
<1>1. MaxId \in Nat
  OBVIOUS
<1>2. Unread \subseteq Ids
  BY DEF Unread
<1>3. Unread \in SUBSET (0 .. MaxId)
  BY <1>1, <1>2 DEF Ids
<1> QED
  BY <1>1, <1>2, <1>3, MaxFacts

\* A mark moves forward only, to a message of the chat.
LEMMA MarkMovesFacts ==
  ASSUME HInv, ViewSucceeds \/ ReadElsewhere
  PROVE  \/ UNCHANGED <<vars, markVars, readThrough, unheeded>>
         \/ \E i \in Ids : i > readAt /\ MarkMoves(i)
<1>1. CASE ViewSucceeds
  BY <1>1 DEF ViewSucceeds, HInv, OpenTypeOK
<1>2. CASE ReadElsewhere
  BY <1>2 DEF ReadElsewhere
<1> QED
  BY <1>1, <1>2

\* The steps beside the loop and the loop's own, for the messages themselves.
LEMMA HistoryStep ==
  ASSUME HInv, [OpenNext]_allVars
  PROVE  TypeOK' /\ Provenance' /\ TheirsKept
<1> USE DEF HInv, OpenTypeOK
<1>1. CASE TdlibStep \/ RouterFolds \/ PageStep
  BY <1>1, StepsInv DEF TdlibStep, RouterFolds, PageStep, Steps
<1>2. CASE PageFails
  BY <1>2, FetchInv DEF PageFails, PageFailed
<1>3. CASE RunCall
  <2>1. (\E k \in Call : SetOpen(k = "open")) \/ UNCHANGED vars
    BY <1>3 DEF RunCall
  <2>2. \A k \in Call : (k = "open") \in BOOLEAN
    OBVIOUS
  <2>3. CASE UNCHANGED vars
    BY <2>3, FetchInv DEF vars
  <2> QED
    BY <2>1, <2>2, <2>3, SetOpenInv
<1>4. CASE ViewSucceeds \/ ReadElsewhere
  <2>1. (\E i \in Ids : SendMark(i)) \/ UNCHANGED vars
    BY <1>4, MarkMovesFacts DEF MarkMoves
  <2>2. CASE UNCHANGED vars
    BY <2>2, FetchInv DEF vars
  <2> QED
    BY <2>1, <2>2, SendMarkInv
<1>5. CASE Focus \/ ScrollUp \/ PageReported
  <2>1. \/ \E anchor \in 0 .. MaxId : fetch' = Spawned(anchor)
        \/ fetch' = Idle
        \/ fetch' = fetch
    <3>1. NEWEST \in 0 .. MaxId /\ Oldest \in 0 .. MaxId
      BY OldestFacts DEF NEWEST
    <3>2. fetch' \in {Spawned(NEWEST), Spawned(Oldest), Idle, fetch}
      BY <1>5 DEF Focus, OpenChat, ScrollUp, PageOlder, PageReported, PageTaken
    <3> QED
      BY <3>1, <3>2
  <2>2. UNCHANGED <<tdVars, stream, store, ghosts>>
    BY <1>5 DEF Focus, ScrollUp, PageReported, Event, tdVars
  <2> QED
    BY <2>1, <2>2, FetchInv
<1>6. CASE UNCHANGED vars
  BY <1>6, FetchInv DEF vars
<1>7. \/ TdlibStep \/ RouterFolds \/ PageStep \/ PageFails \/ RunCall
      \/ ViewSucceeds \/ ReadElsewhere \/ Focus \/ ScrollUp \/ PageReported
      \/ UNCHANGED vars
  BY DEF OpenNext, allVars, ViewFails, Tick, DriveReadState, Acknowledge
<1> QED
  BY <1>1, <1>2, <1>3, <1>4, <1>5, <1>6, <1>7

\* A mark that moves leaves the messages alone, and the task that pages them.
LEMMA MarkQuiet ==
  ASSUME HInv, ViewSucceeds \/ ReadElsewhere
  PROVE  UNCHANGED <<tdOpen, fetch, whole, open, loading, firstPaged, exhausted, calls, opens,
                     crossed, refused>>
<1>1. UNCHANGED <<tdOpen, fetch, whole>>
  BY MarkMovesFacts DEF MarkMoves, SendMark, quiet, vars, tdVars, ghosts
<1> QED
  BY <1>1 DEF ViewSucceeds, ReadElsewhere, pagingVars, callVars

\* The loop: pages.
LEMMA PagingStep ==
  ASSUME HInv, PageInv, [OpenNext]_allVars
  PROVE  PageInv' /\ (fetch'.stage = "spawned" /\ fetch' # fetch => fetch = Idle)
<1> USE DEF HInv, OpenTypeOK, PageInv, LoadingMarksFlight
<1>1. CASE TdlibStep \/ RouterFolds \/ PageStep
  <2>1. Steps /\ UNCHANGED <<open, loading, firstPaged>>
    BY <1>1 DEF TdlibStep, RouterFolds, PageStep, Steps, uiVars, pagingVars
  <2>2. /\ fetch'.stage = "idle" <=> fetch.stage = "idle"
        /\ fetch'.stage = "spawned" => fetch' = fetch
    BY <2>1, StepsFacts
  <2>3. fetch.stage = "idle" => fetch' = fetch
    BY <2>1 DEF Steps, TdlibSteps, Create, SendSucceeds, SendFails, Change, Delete, Evict,
                Fold, PageAnswered, PageMerged, quiet
  <2> QED
    BY <2>1, <2>2, <2>3
<1>2. CASE PageFails
  <2>1. fetch.stage = "spawned" /\ fetch'.stage = "reported" /\ UNCHANGED <<open, loading, firstPaged>>
    BY <1>2, ReportedFacts DEF PageFails, PageFailed, pagingVars
  <2> QED
    BY <2>1
<1>3. CASE PageReported
  <2>1. fetch' = Idle /\ loading' = FALSE /\ UNCHANGED <<open, firstPaged>>
    BY <1>3 DEF PageReported, PageTaken
  <2> QED
    BY <2>1 DEF Idle, Unanswered
<1>4. CASE Focus
  <2> DEFINE landing == ~open /\ ~firstPaged
  <2>1. /\ open' = ~open
        /\ firstPaged' = (firstPaged \/ landing) /\ loading' = (loading \/ landing)
        /\ fetch' = IF landing THEN Spawned(NEWEST) ELSE fetch
    BY <1>4 DEF Focus, OpenChat
  <2> QED
    BY <2>1 DEF Spawned, Unanswered
<1>5. CASE ScrollUp
  <2>1. /\ open /\ UNCHANGED <<open, firstPaged>>
        /\ loading' = (loading \/ MayPage)
        /\ fetch' = IF MayPage THEN Spawned(Oldest) ELSE fetch
    BY <1>5 DEF ScrollUp, PageOlder
  <2> QED
    BY <2>1 DEF Spawned, Unanswered, MayPage
<1>6. CASE ViewSucceeds \/ ReadElsewhere
  BY <1>6, MarkQuiet
<1>7. CASE UNCHANGED <<fetch, open, loading, firstPaged>>
  BY <1>7
<1> QED
  BY <1>1, <1>2, <1>3, <1>4, <1>5, <1>6, <1>7
     DEF OpenNext, allVars, uiVars, vars, pagingVars, RunCall, SetOpen, ViewFails, Tick,
         DriveReadState, Acknowledge

\* Once the start has been reached, it stays reached.
LEMMA WholeStays ==
  ASSUME Steps
  PROVE  whole => whole'
<1>1. CASE UNCHANGED quiet
  BY <1>1 DEF quiet
<1>2. CASE Fold
  BY <1>2 DEF Fold
<1>3. CASE PageAnswered
  BY <1>3 DEF PageAnswered
<1>4. CASE PageMerged
  BY <1>4 DEF PageMerged
<1> QED
  BY <1>1, <1>2, <1>3, <1>4
     DEF Steps, TdlibSteps, Create, SendSucceeds, SendFails, Change, Delete, Evict

\* The loop: no page of it is asked for while one is in flight, so what is on the way
\* to the store stays on its way.
LEMMA FollowStep ==
  ASSUME HInv, PageInv, Follows, EndInv, [OpenNext]_allVars
  PROVE  Follows' /\ EndInv'
<1> USE DEF HInv, OpenTypeOK
<1>1. CASE TdlibStep \/ RouterFolds \/ PageStep
  <2>1. Steps /\ exhausted' = exhausted
    BY <1>1 DEF TdlibStep, RouterFolds, PageStep, Steps, uiVars, pagingVars
  <2>2. whole => whole'
    BY <2>1, WholeStays
  <2> QED
    BY <2>1, <2>2, StepsFollow DEF EndInv
<1>2. CASE PageFails
  BY <1>2, FetchesFollow DEF PageFails, PageFailed, tdVars, pagingVars, ghosts, EndInv
<1>3. CASE RunCall
  <2>1. UNCHANGED <<server, stream, store, ghosts, fetch, exhausted>>
    BY <1>3 DEF RunCall, SetOpen, pagingVars, vars, tdVars
  <2> QED
    BY <2>1, FetchesFollow DEF EndInv, ghosts
<1>4. CASE PageReported
  <2>1. /\ fetch.stage = "reported" /\ fetch' = Idle
        /\ exhausted' = (exhausted \/ fetch.reachedStart)
        /\ UNCHANGED <<server, stream, store, ghosts>>
    BY <1>4 DEF PageReported, Event, PageTaken
  <2>2. fetch.reachedStart => whole
    BY <2>1 DEF Follows, FollowInv, PageHolds
  <2> QED
    BY <2>1, <2>2, FetchesFollow DEF EndInv, ghosts
<1>5. CASE Focus \/ ScrollUp
  <2>1. /\ UNCHANGED <<server, stream, store, ghosts, exhausted>>
        /\ fetch' \in {Spawned(NEWEST), Spawned(Oldest), fetch}
        /\ fetch' # fetch => (~open /\ ~firstPaged) \/ MayPage
    BY <1>5 DEF Focus, OpenChat, ScrollUp, PageOlder, Event
  <2>2. fetch' # fetch => fetch.stage = "idle"
    BY <2>1 DEF PageInv, LoadingMarksFlight, MayPage
  <2> QED
    BY <2>1, <2>2, FetchesFollow DEF EndInv, ghosts
<1>6. CASE ViewSucceeds \/ ReadElsewhere
  <2>1. (\E i \in Ids : SendMark(i)) \/ UNCHANGED vars
    BY <1>6, MarkMovesFacts DEF MarkMoves
  <2>2. Follows'
    BY <2>1, MarkFollows, FetchesFollow DEF vars, tdVars
  <2> QED
    BY <1>6, <2>2, MarkQuiet DEF EndInv
<1>7. CASE UNCHANGED <<server, stream, store, ghosts, fetch, exhausted>>
  BY <1>7, FetchesFollow DEF EndInv, ghosts
<1>8. \/ TdlibStep \/ RouterFolds \/ PageStep \/ PageFails \/ RunCall \/ PageReported
      \/ Focus \/ ScrollUp \/ ViewSucceeds \/ ReadElsewhere
      \/ UNCHANGED <<server, stream, store, ghosts, fetch, exhausted>>
  BY DEF OpenNext, allVars, vars, tdVars, uiVars, pagingVars, ViewFails, Tick, DriveReadState,
         Acknowledge
<1> QED
  BY <1>1, <1>2, <1>3, <1>4, <1>5, <1>6, <1>7, <1>8

\* The loop: openings and leavings, and the calls they spawn, one of which may fail.
LEMMA CallStep ==
  ASSUME HInv, CountInv, CallInv, [OpenNext]_allVars
  PROVE  CountInv' /\ CallInv' /\ calls' \in [Call -> 0 .. MaxOpens]
<1> USE DEF HInv, OpenTypeOK, CountInv, CallInv, Call
<1>1. CASE RunCall
  <2>1. PICK k \in Call :
          /\ calls[k] > 0
          /\ calls' = [calls EXCEPT ![k] = @ - 1]
          /\ tdOpen' = (k = "open") \/ refused'
          /\ UNCHANGED <<open, opens, crossed>>
    BY <1>1 DEF RunCall, SetOpen
  <2>2. CASE k = "open"
    BY <2>1, <2>2
  <2>3. CASE k = "close"
    BY <2>1, <2>3
  <2> QED
    BY <2>2, <2>3
<1>2. CASE Focus
  <2>1. /\ open \/ opens < MaxOpens
        /\ opens' = (IF open THEN opens ELSE opens + 1) /\ open' = ~open
        /\ calls' = [k \in Call |-> calls[k] + IF Calls(k, ~open) THEN 1 ELSE 0]
        /\ crossed' = (\E k \in Call : calls[k] > 0)
    BY <1>2 DEF Focus, OpenChat
  <2>2. calls["open"] \in Nat /\ calls["close"] \in Nat /\ opens \in Nat
    OBVIOUS
  <2>3. ~crossed' => calls["open"] = 0 /\ calls["close"] = 0
    BY <2>1, <2>2
  <2>4. CASE open
    <3>0. open' = FALSE /\ (IF open' THEN 1 ELSE 0) = 0 /\ opens' = opens
      BY <2>1, <2>4, Zenon
    <3>1. calls'["open"] = calls["open"] + 0 /\ calls'["close"] = calls["close"] + 1
      BY <2>1, <2>4 DEF Calls
    <3>2. calls' \in [Call -> 0 .. MaxOpens]
      BY <2>1, <2>2, <2>4, <3>1
    <3>3. CountInv'
      BY <2>2, <2>4, <3>0, <3>1
    <3>4. ~crossed' => calls'["open"] = 0 /\ calls'["close"] = 1
      BY <2>3, <3>1
    <3>5. CallInv'
      BY <3>0, <3>4, Zenon
    <3> QED
      BY <3>2, <3>3, <3>5
  <2>5. CASE ~open
    <3>0. open' = TRUE /\ (IF open' THEN 1 ELSE 0) = 1 /\ opens' = opens + 1
      BY <2>1, <2>5, Zenon
    <3>1. calls'["open"] = calls["open"] + 1 /\ calls'["close"] = calls["close"] + 0
      BY <2>1, <2>5 DEF Calls
    <3>2. calls' \in [Call -> 0 .. MaxOpens]
      BY <2>1, <2>2, <2>5, <3>1
    <3>3. CountInv'
      BY <2>2, <2>5, <3>0, <3>1
    <3>4. ~crossed' => calls'["open"] = 1 /\ calls'["close"] = 0
      BY <2>3, <3>1
    <3>5. CallInv'
      BY <3>0, <3>4, Zenon
    <3> QED
      BY <3>2, <3>3, <3>5
  <2> QED
    BY <2>4, <2>5
<1>3. CASE TdlibStep \/ RouterFolds \/ PageStep
  <2>1. Steps /\ UNCHANGED <<open, calls, opens, crossed, refused>>
    BY <1>3 DEF TdlibStep, RouterFolds, PageStep, Steps, uiVars, callVars
  <2>2. tdOpen' = tdOpen
    BY <2>1, StepsFacts
  <2> QED
    BY <2>1, <2>2
<1>4. CASE ViewSucceeds \/ ReadElsewhere
  BY <1>4, MarkQuiet
<1>5. CASE UNCHANGED <<tdOpen, open, calls, opens, crossed, refused>>
  BY <1>5
<1>6. \/ RunCall \/ Focus \/ TdlibStep \/ RouterFolds \/ PageStep \/ ViewSucceeds \/ ReadElsewhere
      \/ UNCHANGED <<tdOpen, open, calls, opens, crossed, refused>>
  BY DEF OpenNext, allVars, uiVars, vars, tdVars, callVars, PageFails, PageFailed, ViewFails,
         ScrollUp, PageReported, Event, Tick, DriveReadState, Acknowledge
<1> QED
  BY <1>1, <1>2, <1>3, <1>4, <1>5, <1>6

\* The loop: acknowledgements, and what becomes of them.
LEMMA ReadStep ==
  ASSUME HInv, CountInv, ReadInv, [OpenNext]_allVars
  PROVE  ReadInv' /\ readThrough' \in 0 .. MaxId /\ views' \subseteq Ids
<1> USE DEF HInv, OpenTypeOK, ReadInv
<1>1. TheirsKept
  BY HistoryStep
<1>2. opens \in Nat /\ opens' \in Nat /\ opens' >= opens
  BY DEF OpenNext, allVars, uiVars, callVars, TdlibStep, RouterFolds, PageStep, PageFails,
         RunCall, ViewSucceeds, ViewFails, ReadElsewhere, Focus, ScrollUp, Tick, PageReported,
         DriveReadState, Acknowledge
<1>3. readThrough # 0 => Theirs(server', readThrough) /\ opens' > 0
  BY <1>1, <1>2 DEF TheirsKept, Ids
<1>4. CASE ViewSucceeds
  <2>1. PICK v \in views :
          /\ views' = views \ {v}
          /\ IF v > readAt THEN MarkMoves(v) ELSE UNCHANGED <<vars, markVars, readThrough, unheeded>>
    BY <1>4 DEF ViewSucceeds
  <2>2. CASE v > readAt
    <3>1. readAt' = v /\ readThrough' = readThrough /\ unheeded' = (unheeded /\ v < readThrough)
      BY <2>1, <2>2 DEF MarkMoves
    <3> QED
      BY <1>3, <2>1, <2>2, <3>1 DEF Ids
  <2>3. CASE ~(v > readAt)
    <3>1. UNCHANGED <<readAt, readThrough, unheeded>>
      BY <2>1, <2>3 DEF markVars
    <3> QED
      BY <1>3, <2>1, <2>3, <3>1 DEF Ids
  <2> QED
    BY <2>2, <2>3
<1>5. CASE ViewFails
  <2>1. PICK v \in views :
          /\ views' = views \ {v}
          /\ unheeded' = (unheeded \/ (v = readThrough /\ v > readAt))
          /\ UNCHANGED <<readThrough, readAt>>
    BY <1>5 DEF ViewFails, markVars
  <2>2. ASSUME ~unheeded'
        PROVE  readThrough <= readAt \/ readThrough \in views'
    <3>1. ~unheeded /\ ~(v = readThrough /\ v > readAt)
      BY <2>1, <2>2
    <3>2. v \in Nat /\ readAt \in Nat
      BY DEF Ids
    <3> QED
      BY <2>1, <3>1, <3>2
  <2>3. views' \subseteq Ids
    BY <2>1
  <2> QED
    BY <1>3, <2>1, <2>2, <2>3
<1>6. CASE ReadElsewhere
  <2>1. PICK i \in Ids : i > readAt /\ MarkMoves(i)
    BY <1>6 DEF ReadElsewhere
  <2>2. /\ readAt' = i /\ UNCHANGED <<readThrough, views>>
        /\ unheeded' = (unheeded /\ i < readThrough)
    BY <1>6, <2>1 DEF MarkMoves, ReadElsewhere
  <2> QED
    BY <1>3, <2>1, <2>2 DEF Ids
<1>7. CASE Acknowledge /\ open /\ NewlyUnread
  <2> DEFINE m == Max(Unread)
  <2>1. /\ readThrough' = m /\ views' = views \cup {m} /\ unheeded' = FALSE
        /\ UNCHANGED <<server, opens>>
    BY <1>7 DEF Acknowledge, vars, tdVars, callVars
  <2>2. m \in Unread /\ m \in Ids
    BY <1>7, UnreadFacts DEF NewlyUnread
  <2>3. Theirs(server, m)
    BY <2>2 DEF Provenance, Unread
  <2>4. opens > 0
    BY <1>7 DEF CountInv, Call
  <2> HIDE DEF m
  <2> QED
    BY <2>1, <2>2, <2>3, <2>4 DEF Ids
<1>8. CASE UNCHANGED <<readThrough, readAt, unheeded, views>>
  BY <1>3, <1>8
<1>9. \/ ViewSucceeds \/ ViewFails \/ ReadElsewhere \/ (Acknowledge /\ open /\ NewlyUnread)
      \/ UNCHANGED <<readThrough, readAt, unheeded, views>>
  BY DEF OpenNext, allVars, uiVars, readVars, markVars, TdlibStep, RouterFolds, PageStep,
         PageFails, RunCall, Focus, ScrollUp, Tick, PageReported, Event, DriveReadState,
         Acknowledge
<1> QED
  BY <1>4, <1>5, <1>6, <1>7, <1>8, <1>9

\* What TDLib tells of its messages is not a read mark.
LEMMA TdlibSends ==
  ASSUME TypeOK, TdlibSteps
  PROVE  stream' = stream \/ \E u \in Updates : u.kind # "read" /\ Send(u)
<1>0. server \in [Ids -> Message] /\ MaxVersion \in Nat
  BY DEF TypeOK
<1>1. CASE Create
  <2>1. PICK i \in Ids, state \in {"incoming", "pending"} :
          Send([kind |-> "new", id |-> i, message |-> New(state)])
    BY <1>1 DEF Create, Fresh
  <2>2. [kind |-> "new", id |-> i, message |-> New(state)] \in Updates
    BY DEF New, Message, Updates
  <2> QED
    BY <2>1, <2>2
<1>2. CASE SendSucceeds
  <2>1. PICK old \in Ids, i \in Ids :
          Send([kind |-> "succeeded", old |-> old, id |-> i, message |-> New("sent")])
    BY <1>2 DEF SendSucceeds, Fresh
  <2>2. [kind |-> "succeeded", old |-> old, id |-> i, message |-> New("sent")] \in Updates
    BY DEF New, Message, Updates
  <2> QED
    BY <2>1, <2>2
<1>3. CASE SendFails
  <2>1. PICK i \in Ids :
          /\ server' = [server EXCEPT ![i].state = "failed"]
          /\ Send([kind |-> "failed", id |-> i, message |-> server'[i]])
    BY <1>3 DEF SendFails
  <2>2. server'[i] \in Message
    BY <1>0, <2>1 DEF Message
  <2>3. [kind |-> "failed", id |-> i, message |-> server'[i]] \in Updates
    BY <2>2 DEF Updates
  <2> QED
    BY <2>1, <2>3
<1>4. CASE Change
  <2>1. PICK i \in Ids :
          /\ server[i].version < MaxVersion
          /\ server' = [server EXCEPT ![i].version = @ + 1]
          /\ Send([kind |-> "content", id |-> i, message |-> server'[i]]) \/ stream' = stream
    BY <1>4 DEF Change
  <2>2. server' \in [Ids -> Message]
    BY <1>0, <2>1 DEF Message
  <2>3. server'[i] \in Message
    BY <2>2
  <2>4. [kind |-> "content", id |-> i, message |-> server'[i]] \in Updates
    BY <2>3 DEF Updates
  <2> QED
    BY <2>1, <2>4
<1>5. CASE Delete
  <2>1. PICK i \in Ids : Send([kind |-> "delete", id |-> i])
    BY <1>5 DEF Delete
  <2>2. [kind |-> "delete", id |-> i] \in Updates
    BY DEF Updates
  <2> QED
    BY <2>1, <2>2
<1>6. CASE Evict
  <2>1. PICK i \in Ids : Send([kind |-> "evict", id |-> i])
    BY <1>6 DEF Evict
  <2>2. [kind |-> "evict", id |-> i] \in Updates
    BY DEF Updates
  <2> QED
    BY <2>1, <2>2
<1> QED
  BY <1>1, <1>2, <1>3, <1>4, <1>5, <1>6 DEF TdlibSteps

\* The marks on their way stay in their order behind TDLib's, whatever TDLib tells.
LEMMA MarkPassed ==
  ASSUME HInv, MarkInv, TdlibStep
  PROVE  MarkInv' /\ UNCHANGED <<readAt, lastRead>>
<1>1. TdlibSteps /\ markLost' = (markLost \/ (MarkComes /\ ~MarkComes')) /\ UNCHANGED <<readAt, lastRead>>
  BY DEF TdlibStep
<1>2. ~MarkComes' /\ ~markLost' => ~MarkComes /\ ~markLost
  BY <1>1 DEF HInv, OpenTypeOK
<1>3. CASE stream' = stream
  BY <1>1, <1>2, <1>3 DEF MarkInv, IsMark
<1>4. CASE \E u \in Updates : u.kind # "read" /\ Send(u)
  <2>1. PICK u \in Updates : u.kind # "read" /\ Send(u)
    BY <1>4
  <2>2. PICK d \in {0, 1} :
          /\ Len(stream) \in Nat /\ d <= Len(stream)
          /\ Len(stream') = Len(stream) - d + 1 /\ stream'[Len(stream')] = u
          /\ \A k \in 1 .. Len(stream) - d : stream'[k] = stream[k + d]
    BY <2>1, SendOrder DEF HInv, OpenTypeOK
  <2>3. ASSUME NEW k \in 1 .. Len(stream'), IsMark(k)'
        PROVE  /\ stream'[k].id <= readAt
               /\ stream'[k].id = readAt \/ \E j \in k + 1 .. Len(stream') : IsMark(j)'
    <3>1. k # Len(stream')
      BY <2>1, <2>2, <2>3 DEF IsMark
    <3>2. k \in 1 .. Len(stream) - d /\ k + d \in 1 .. Len(stream) /\ stream'[k] = stream[k + d]
      BY <2>2, <3>1
    <3>3. /\ stream[k + d].id <= readAt
          /\ stream[k + d].id = readAt \/ \E j \in k + d + 1 .. Len(stream) : IsMark(j)
      BY <2>3, <3>2 DEF MarkInv, IsMark
    <3>4. ASSUME NEW j \in k + d + 1 .. Len(stream), IsMark(j)
          PROVE  \E l \in k + 1 .. Len(stream') : IsMark(l)'
      <4>1. j - d \in 1 .. Len(stream) - d /\ j - d \in k + 1 .. Len(stream') /\ j - d + d = j
        BY <2>2
      <4>2. stream'[j - d] = stream[j]
        BY <2>2, <4>1
      <4> QED
        BY <3>4, <4>1, <4>2 DEF IsMark
    <3> QED
      BY <3>2, <3>3, <3>4
  <2> QED
    BY <1>1, <1>2, <2>3 DEF MarkInv
<1> QED
  BY <1>1, <1>3, <1>4, TdlibSends DEF HInv, OpenTypeOK

\* ChatStore takes them in their order.
LEMMA MarkFolded ==
  ASSUME HInv, MarkInv, RouterFolds
  PROVE  MarkInv' /\ readAt' = readAt /\ lastRead' \in 0 .. MaxId
<1>1. /\ stream # << >> /\ stream' = Tail(stream) /\ UNCHANGED <<readAt, markLost>>
      /\ lastRead' = IF Head(stream).kind = "read" THEN Head(stream).id ELSE lastRead
  BY DEF RouterFolds, Fold
<1>2. /\ stream \in Seq(Updates) /\ lastRead \in 0 .. MaxId /\ readAt \in 0 .. MaxId
  BY DEF HInv, OpenTypeOK, TypeOK
<1>3. /\ Len(stream) \in Nat \ {0} /\ 1 \in 1 .. Len(stream) /\ Head(stream) = stream[1]
      /\ Len(stream') = Len(stream) - 1
      /\ \A k \in 1 .. Len(stream') : stream'[k] = stream[k + 1] /\ k + 1 \in 1 .. Len(stream)
  BY <1>1, <1>2
<1>4. stream[1] \in Updates
  BY <1>2, <1>3
<1>5. stream[1].kind = "read" => stream[1].id \in Ids /\ stream[1].id <= readAt
  BY <1>3, <1>4 DEF MarkInv, IsMark, Updates
<1>6. ASSUME NEW k \in 1 .. Len(stream), IsMark(k), k # 1
      PROVE  k - 1 \in 1 .. Len(stream') /\ IsMark(k - 1)'
  <2>1. k - 1 \in 1 .. Len(stream') /\ k - 1 + 1 = k
    BY <1>3, <1>6
  <2>2. stream'[k - 1] = stream[k]
    BY <1>3, <2>1
  <2> QED
    BY <1>6, <2>1, <2>2 DEF IsMark
<1>7. ASSUME NEW k \in 1 .. Len(stream'), IsMark(k)'
      PROVE  /\ stream'[k].id <= readAt
             /\ stream'[k].id = readAt \/ \E j \in k + 1 .. Len(stream') : IsMark(j)'
  <2>1. stream'[k] = stream[k + 1] /\ k + 1 \in 1 .. Len(stream) /\ IsMark(k + 1)
    BY <1>3, <1>7 DEF IsMark
  <2>2. /\ stream[k + 1].id <= readAt
        /\ stream[k + 1].id = readAt \/ \E j \in k + 1 + 1 .. Len(stream) : IsMark(j)
    BY <2>1 DEF MarkInv
  <2>3. ASSUME NEW j \in k + 1 + 1 .. Len(stream), IsMark(j)
        PROVE  \E l \in k + 1 .. Len(stream') : IsMark(l)'
    <3>1. j \in 1 .. Len(stream) /\ j # 1 /\ j - 1 \in k + 1 .. Len(stream')
      BY <1>3
    <3> QED
      BY <1>6, <2>3, <3>1
  <2> QED
    BY <2>1, <2>2, <2>3
<1>8. ASSUME ~MarkComes', ~markLost'
      PROVE  lastRead' = readAt
  <2>1. \A k \in 1 .. Len(stream) : k # 1 => ~IsMark(k)
    BY <1>6, <1>8 DEF MarkComes, IsMark
  <2>2. CASE IsMark(1)
    <3>1. \A j \in 1 + 1 .. Len(stream) : j \in 1 .. Len(stream) /\ j # 1
      OBVIOUS
    <3>2. stream[1].id = readAt
      BY <1>3, <2>1, <2>2, <3>1 DEF MarkInv
    <3> QED
      BY <1>1, <1>3, <2>2, <3>2 DEF IsMark
  <2>3. CASE ~IsMark(1)
    <3>1. ~MarkComes
      BY <2>1, <2>3 DEF MarkComes, IsMark
    <3> QED
      BY <1>1, <1>3, <1>8, <2>3, <3>1 DEF MarkInv, IsMark
  <2> QED
    BY <2>2, <2>3
<1>9. lastRead' \in 0 .. MaxId /\ lastRead' <= readAt
  BY <1>1, <1>2, <1>3, <1>5 DEF MarkInv, Ids
<1> QED
  BY <1>1, <1>7, <1>8, <1>9 DEF MarkInv

\* A mark that moves is told of last.
LEMMA MarkMoved ==
  ASSUME HInv, MarkInv, NEW i \in Ids, i > readAt, MarkMoves(i)
  PROVE  MarkInv' /\ readAt' \in 0 .. MaxId /\ lastRead' = lastRead
<1> DEFINE u == [kind |-> "read", id |-> i]
<1>1. readAt' = i /\ lastRead' = lastRead /\ Send(u) /\ u \in Updates
  BY DEF MarkMoves, SendMark, Updates
<1>2. PICK d \in {0, 1} :
        /\ Len(stream) \in Nat /\ d <= Len(stream)
        /\ Len(stream') = Len(stream) - d + 1 /\ stream'[Len(stream')] = u
        /\ \A k \in 1 .. Len(stream) - d : stream'[k] = stream[k + d]
  BY <1>1, SendOrder DEF HInv, OpenTypeOK
<1>3. /\ Len(stream') \in 1 .. Len(stream')
      /\ stream'[Len(stream')].kind = "read" /\ stream'[Len(stream')].id = i
  BY <1>2
<1> HIDE DEF u
<1>4. lastRead \in 0 .. MaxId /\ readAt \in 0 .. MaxId /\ i \in 1 .. MaxId
  BY DEF HInv, OpenTypeOK, Ids
<1>5. ASSUME NEW k \in 1 .. Len(stream'), IsMark(k)'
      PROVE  /\ stream'[k].id <= i
             /\ stream'[k].id = i \/ \E j \in k + 1 .. Len(stream') : IsMark(j)'
  <2>1. CASE k = Len(stream')
    BY <1>3, <1>4, <2>1
  <2>2. CASE k # Len(stream')
    <3>1. k \in 1 .. Len(stream) - d /\ k + d \in 1 .. Len(stream) /\ stream'[k] = stream[k + d]
      BY <1>2, <2>2
    <3>2. stream[k + d] \in Updates
      BY <3>1 DEF HInv, OpenTypeOK, TypeOK
    <3>3. stream[k + d].id \in Ids /\ stream[k + d].id <= readAt
      BY <1>5, <3>1, <3>2 DEF MarkInv, IsMark, Updates
    <3>4. Len(stream') \in k + 1 .. Len(stream')
      BY <1>2, <2>2
    <3>5. \E j \in k + 1 .. Len(stream') : IsMark(j)'
      BY <1>3, <3>4 DEF IsMark
    <3> QED
      BY <1>4, <3>1, <3>3, <3>5 DEF Ids
  <2> QED
    BY <2>1, <2>2
<1>6. MarkComes'
  BY <1>3 DEF MarkComes
<1>7. lastRead' <= readAt'
  BY <1>1, <1>4 DEF MarkInv
<1> QED
  BY <1>1, <1>4, <1>5, <1>6, <1>7 DEF MarkInv

\* The loop: TDLib's read mark and the store's.
LEMMA MarkStep ==
  ASSUME HInv, MarkInv, [OpenNext]_allVars
  PROVE  MarkInv' /\ {readAt', lastRead'} \subseteq 0 .. MaxId
<1>0. readAt \in 0 .. MaxId /\ lastRead \in 0 .. MaxId
  BY DEF HInv, OpenTypeOK
<1>1. CASE TdlibStep
  BY <1>0, <1>1, MarkPassed
<1>2. CASE RouterFolds
  BY <1>0, <1>2, MarkFolded
<1>3. CASE \E i \in Ids : i > readAt /\ MarkMoves(i)
  BY <1>0, <1>3, MarkMoved
<1>4. CASE UNCHANGED <<stream, readAt, lastRead, markLost>>
  BY <1>0, <1>4 DEF MarkInv, MarkComes, IsMark
<1>5. \/ TdlibStep \/ RouterFolds \/ ViewSucceeds \/ ReadElsewhere
      \/ UNCHANGED <<stream, readAt, lastRead, markLost>>
  BY DEF OpenNext, allVars, vars, uiVars, markVars, PageStep, PageAnswered, PageMerged, PageFails,
         PageFailed, RunCall, SetOpen, ViewFails, Focus, ScrollUp, PageReported, Event, Tick,
         DriveReadState, Acknowledge
<1> QED
  BY <1>1, <1>2, <1>3, <1>4, <1>5, MarkMovesFacts DEF vars, markVars

\* The loop: the rest of its variables.
LEMMA TypeStep ==
  ASSUME HInv, CountInv, CallInv, ReadInv, MarkInv, [OpenNext]_allVars
  PROVE  OpenTypeOK'
<1> USE DEF HInv, OpenTypeOK
<1>1. TypeOK'
  BY HistoryStep
<1>2. calls' \in [Call -> 0 .. MaxOpens]
  BY CallStep
<1>3. {readAt', lastRead', readThrough'} \subseteq 0 .. MaxId /\ views' \subseteq Ids
  BY ReadStep, MarkStep
<1>4. pc' \in {"select", "read"}
  BY DEF OpenNext, allVars, uiVars, TdlibStep, RouterFolds, PageStep, PageFails, RunCall,
         ViewSucceeds, ViewFails, ReadElsewhere, Focus, ScrollUp, Tick, PageReported, Event,
         DriveReadState, Acknowledge
<1>5. opens' \in 0 .. MaxOpens /\ failures' \in 0 .. MaxFailures
  BY DEF OpenNext, allVars, uiVars, callVars, TdlibStep, RouterFolds, PageStep, PageFails, Fail,
         RunCall, ViewSucceeds, ViewFails, ReadElsewhere, Focus, ScrollUp, Tick, PageReported,
         Event, DriveReadState, Acknowledge
<1>6. {open', firstPaged', loading', exhausted'} \subseteq BOOLEAN
  <2>1. fetch.reachedStart \in BOOLEAN /\ fetch'.reachedStart \in BOOLEAN
    BY <1>1 DEF TypeOK, Fetch
  <2> QED
    BY <2>1 DEF OpenNext, allVars, uiVars, pagingVars, TdlibStep, RouterFolds, PageStep,
         PageFails, RunCall, ViewSucceeds, ViewFails, ReadElsewhere, Focus, OpenChat, ScrollUp,
         PageOlder, Tick, PageReported, DriveReadState, Acknowledge
<1>7. {crossed', refused'} \subseteq BOOLEAN
  BY DEF OpenNext, allVars, uiVars, callVars, TdlibStep, RouterFolds, PageStep, PageFails,
         RunCall, ViewSucceeds, ViewFails, ReadElsewhere, Focus, OpenChat, ScrollUp, Tick,
         PageReported, DriveReadState, Acknowledge
<1>8. {unheeded', markLost'} \subseteq BOOLEAN
  BY DEF OpenNext, allVars, uiVars, readVars, markVars, TdlibStep, RouterFolds, PageStep,
         PageFails, RunCall, ViewSucceeds, ViewFails, ReadElsewhere, MarkMoves, Focus, ScrollUp,
         Tick, PageReported, Event, DriveReadState, Acknowledge
<1> QED
  BY <1>1, <1>2, <1>3, <1>4, <1>5, <1>6, <1>7, <1>8

\* Nothing is open, asked for or acknowledged at first; the read mark is TDLib's.
LEMMA OpenInitInv ==
  ASSUME OpenInit
  PROVE  IInv
<1>1. TypeOK /\ Provenance /\ fetch = Idle /\ tdOpen = FALSE /\ stream = << >>
  BY InitInv DEF OpenInit, Init
<1>2. /\ open = FALSE /\ firstPaged = FALSE /\ loading = FALSE /\ exhausted = FALSE
      /\ crossed = FALSE /\ refused = FALSE /\ unheeded = FALSE /\ markLost = FALSE
      /\ pc = "select" /\ views = {} /\ opens = 0 /\ failures = 0
      /\ lastRead = readAt /\ readThrough = 0
  BY DEF OpenInit
<1>3. /\ calls \in [Call -> 0 .. MaxOpens]
      /\ calls["open"] = 0 /\ calls["close"] = 0
  BY DEF OpenInit, Call
<1>4. 0 \in 0 .. MaxId /\ 0 \in 0 .. MaxOpens /\ 0 \in 0 .. MaxFailures
  OBVIOUS
<1>5. readAt \in 0 .. MaxId
  BY DEF OpenInit, Ids
<1>6. HInv
  BY <1>1, <1>2, <1>3, <1>4, <1>5 DEF HInv, OpenTypeOK
<1>7. PageInv
  BY <1>1, <1>2 DEF PageInv, LoadingMarksFlight, Idle, Unanswered
<1>8. CountInv
  <2>1. (IF open THEN 1 ELSE 0) = 0 /\ opens = 0
    BY <1>2
  <2> QED
    BY <1>3, <2>1 DEF CountInv
<1>9. CallInv
  <2>1. tdOpen = open
    BY <1>1, <1>2
  <2> QED
    BY <1>3, <2>1, Zenon DEF CallInv
<1>10. ReadInv /\ MarkInv
  BY <1>1, <1>2, <1>5 DEF ReadInv, MarkInv
<1>11. Follows /\ EndInv
  BY <1>2, InitFollows DEF OpenInit, EndInv
<1> QED
  BY <1>6, <1>7, <1>8, <1>9, <1>10, <1>11 DEF IInv

\* The parts together.
LEMMA IInvStep ==
  ASSUME IInv, [OpenNext]_allVars
  PROVE  IInv'
BY HistoryStep, TypeStep, PagingStep, FollowStep, CallStep, ReadStep, MarkStep DEF IInv, HInv

-----------------------------------------------------------------------------
\* The inductive invariant of the loop and of what runs beside it.
THEOREM OpenInductive == OpenSpec => []IInv
<1>1. OpenInit => IInv
  BY OpenInitInv
<1>2. IInv /\ [OpenNext]_allVars => IInv'
  BY IInvStep
<1> QED
  BY <1>1, <1>2, PTL DEF OpenSpec

\* Every reachable state of the loop, its tasks and the store is well typed.
THEOREM OpenTypeCorrect == OpenSpec => []OpenTypeOK
<1>1. IInv => OpenTypeOK
  BY DEF IInv, HInv
<1> QED
  BY <1>1, OpenInductive, PTL

\* HistoryState's loading mark is exact.
THEOREM LoadingMarksFlightHolds == OpenSpec => []LoadingMarksFlight
<1>1. IInv => LoadingMarksFlight
  BY DEF IInv, PageInv
<1> QED
  BY <1>1, OpenInductive, PTL

\* No page is asked for while another is in flight.
THEOREM OnePageAtATimeHolds == OpenSpec => OnePageAtATime
<1>1. IInv /\ [OpenNext]_allVars => [fetch'.stage = "spawned" /\ fetch' # fetch => fetch = Idle]_allVars
  BY PagingStep DEF IInv
<1> QED
  BY <1>1, OpenInductive, PTL DEF OpenSpec, OnePageAtATime

\* What the loop acknowledges is somebody else's and was loaded while the chat was open;
\* TDLib comes to have read that far, unless that view failed; and the chat's mark is
\* TDLib's, unless its update is on its way or was lost.
THEOREM ReadMarksAgreeHolds == OpenSpec => []ReadMarksAgree
<1>1. IInv => ReadMarksAgree
  BY DEF IInv, ReadInv, MarkInv, ReadMarksAgree, Theirs
<1> QED
  BY <1>1, OpenInductive, PTL

\* TDLib ends with the chat open that the user has open, unless the last call may have
\* crossed with another or has failed.
THEOREM TdlibTracksOpenHolds == OpenSpec => []TdlibTracksOpen
<1>1. IInv => TdlibTracksOpen
  BY DEF IInv, CallInv, TdlibTracksOpen, Call
<1> QED
  BY <1>1, OpenInductive, PTL

\* Under the loop the store is a view of TDLib's messages as it is under anyone.
THEOREM OpenFollows == OpenSpec => []StoreFollows
<1>1. IInv => StoreFollows
  BY FollowsHolds DEF IInv, HInv, OpenTypeOK
<1> QED
  BY <1>1, OpenInductive, PTL

\* The loop's exhausted mark is true: nothing TDLib has is missing from the store.
THEOREM ExhaustedHasAllHolds == OpenSpec => []ExhaustedHasAll
<1>1. IInv => ExhaustedHasAll
  <2> SUFFICES ASSUME IInv PROVE ExhaustedHasAll
    OBVIOUS
  <2>1. StoreFollows /\ (exhausted => whole)
    BY FollowsHolds DEF IInv, HInv, OpenTypeOK, EndInv
  <2> QED
    BY <2>1 DEF StoreFollows, ExhaustedHasAll
<1> QED
  BY <1>1, OpenInductive, PTL

=============================================================================
