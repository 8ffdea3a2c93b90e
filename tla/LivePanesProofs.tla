-------------------------- MODULE LivePanesProofs --------------------------
(***************************************************************************)
(* Proofs about CoreSession, for every capacity, number of updates, set of *)
(* resync tasks and saturation point, and about LivePanes, which runs the  *)
(* same session under the panes, for every depth of its channel: when      *)
(* nothing is left to do, every update has reached the panes and the       *)
(* status bar.                                                             *)
(***************************************************************************)
EXTENDS LivePanes, FiniteSetTheorems, SequenceTheorems, TLAPS

USE CapacityAssumption, MaxUpdatesAssumption, RouterAssumption, MaxDroppedAssumption

\* What the router's hand and cursor say about what is settled: the cursor is
\* past exactly the updates settled and those in hand.
HandInv ==
  /\ Started <=> since # 0
  /\ Started => since <= SettledUpTo + 1
  /\ hand.first = 0 => hand = NoEvent
  /\ hand.first # 0 =>
       /\ Started
       /\ since <= hand.first
       /\ cursor[Router] = hand.first + (IF hand.skipped = 0 THEN 1 ELSE hand.skipped)

\* The settled updates are the interval from the first visible one on.
SettledInv ==
  /\ folded \cap missed = {}
  /\ folded \cup missed = IF Started THEN since .. SettledUpTo ELSE {}

\* A resync that has its answer covers every gap recorded so far, unless a gap
\* was recorded since.
RaceInv ==
  /\ exposed \subseteq missed
  /\ ~raced => \A t \in Resyncs :
                 task[t] = "answered" => \A n \in exposed : n <= answeredAt[t]
  /\ StaleUnmarkedOnlyByRace

IInv == TypeOK /\ HandInv /\ SettledInv /\ RaceInv

-----------------------------------------------------------------------------
\* What a subscriber reads next leaves its cursor just after the event.
LEMMA NextEventFacts ==
  ASSUME FeedTypeOK, NEW s \in Subscribers, Readable(s)
  PROVE  /\ NextEvent(s) \in Event
         /\ NextEvent(s).first = cursor[s]
         /\ cursor[s] # 0
         /\ NextCursor(s) = cursor[s] + (IF NextEvent(s).skipped = 0 THEN 1
                                         ELSE NextEvent(s).skipped)
         /\ NextCursor(s) \in Nat
         /\ NextCursor(s) <= Len(log) + 1
<1>1. /\ cursor[s] \in Nat /\ cursor[s] # 0 /\ cursor[s] <= Len(log)
      /\ Len(log) \in Nat
  BY DEF FeedTypeOK, Readable, Subscribed
<1>2. /\ Oldest \in Nat /\ Oldest <= Len(log)
  BY <1>1 DEF Oldest
<1>3. CASE cursor[s] < Oldest
  <2>1. /\ NextEvent(s) = [first |-> cursor[s], skipped |-> Oldest - cursor[s]]
        /\ NextCursor(s) = Oldest
    BY <1>3 DEF NextEvent, NextCursor, Lagged
  <2>2. Oldest - cursor[s] \in Nat /\ Oldest - cursor[s] # 0
    BY <1>1, <1>2, <1>3
  <2> QED
    BY <1>1, <1>2, <2>1, <2>2 DEF Event
<1>4. CASE ~(cursor[s] < Oldest)
  BY <1>1, <1>2, <1>4 DEF NextEvent, NextCursor, Update, Event
<1> QED
  BY <1>3, <1>4

\* What an event covers is the interval that ends just before the cursor.
LEMMA CoversInterval ==
  ASSUME NEW e \in Event, e.first # 0, NEW c,
         c = e.first + (IF e.skipped = 0 THEN 1 ELSE e.skipped)
  PROVE  Covers(e) = e.first .. (c - 1)
BY DEF Event, Covers

\* Accounted is what HandInv and SettledInv say together.
LEMMA InvImpliesAccounted ==
  ASSUME TypeOK, HandInv, SettledInv
  PROVE  Accounted
<1>1. CASE hand.first = 0
  <2>1. Covers(hand) = {} /\ hand = NoEvent
    BY <1>1 DEF Covers, HandInv
  <2> QED
    BY <2>1 DEF Accounted, SettledInv, SettledUpTo
<1>2. CASE hand.first # 0
  <2>1. /\ Started /\ since \in Nat /\ hand \in Event /\ since <= hand.first
        /\ SettledUpTo = hand.first - 1
        /\ cursor[Router] = hand.first + (IF hand.skipped = 0 THEN 1 ELSE hand.skipped)
    BY <1>2 DEF HandInv, TypeOK, SettledUpTo, NoEvent
  <2>2. Covers(hand) = hand.first .. (cursor[Router] - 1)
    BY <1>2, <2>1, CoversInterval
  <2>3. folded \cup missed = since .. (hand.first - 1)
    BY <2>1 DEF SettledInv
  <2>4. hand.first \in Nat /\ cursor[Router] \in Nat /\ hand.first < cursor[Router]
    BY <2>1 DEF Event
  <2>5. (since .. (hand.first - 1)) \cup (hand.first .. (cursor[Router] - 1))
          = since .. (cursor[Router] - 1)
    BY <2>1, <2>4
  <2>6. (since .. (hand.first - 1)) \cap (hand.first .. (cursor[Router] - 1)) = {}
    BY <2>1, <2>4
  <2> QED
    BY <2>1, <2>2, <2>3, <2>5, <2>6 DEF Accounted, SettledInv
<1> QED
  BY <1>1, <1>2

-----------------------------------------------------------------------------
\* Before the session starts nothing is settled, in hand or owed.
LEMMA InitInv == Init => IInv
<1> SUFFICES ASSUME Init PROVE IInv
  OBVIOUS
<1>1. TypeOK
  <2>1. log \in Seq(Kinds) /\ Len(log) = 0
    BY DEF Init, FeedInit
  <2>2. cursor \in [Subscribers -> Nat] /\ \A s \in Subscribers : cursor[s] = 0
    BY DEF Init, FeedInit
  <2>3. FeedTypeOK
    BY <2>1, <2>2 DEF FeedTypeOK
  <2>4. hand \in Event
    BY DEF Init, Event, NoEvent
  <2>5. task \in [Resyncs -> TaskState] /\ answeredAt \in [Resyncs -> Nat]
    BY DEF Init, TaskState
  <2>6. dropped \in 0 .. MaxDropped
    BY DEF Init
  <2> QED
    BY <2>3, <2>4, <2>5, <2>6 DEF Init, TypeOK
<1>2. ~Started /\ hand = NoEvent /\ hand.first = 0 /\ since = 0
  BY DEF Init, FeedInit, Started, Subscribed, NoEvent
<1>3. HandInv
  BY <1>2 DEF HandInv
<1>4. SettledInv
  BY <1>2 DEF Init, SettledInv
<1>5. RaceInv
  BY DEF Init, RaceInv, StaleUnmarkedOnlyByRace
<1> QED
  BY <1>1, <1>3, <1>4, <1>5 DEF IInv

\* One step at a time.
LEMMA PublishInv ==
  ASSUME IInv, Publish PROVE IInv'
<1>1. PICK kind \in Kinds : Receive(kind)
  BY DEF Publish
<1>2. /\ log' = Append(log, kind) /\ Len(log) < MaxUpdates
      /\ UNCHANGED <<cursor, hand, since, task, answeredAt, folded, needsResync,
                     dropped, missed, exposed, raced>>
  BY <1>1 DEF Publish, Receive, accountVars, taskVars
<1>3. log \in Seq(Kinds) /\ Len(log) \in Nat
  BY DEF IInv, TypeOK, FeedTypeOK
<1>4. log' \in Seq(Kinds) /\ Len(log') = Len(log) + 1
  BY <1>2, <1>3
<1>5. TypeOK'
  <2>1. \A s \in Subscribers : cursor'[s] <= Len(log') + 1
    BY <1>2, <1>3, <1>4 DEF IInv, TypeOK, FeedTypeOK
  <2> QED
    BY <1>2, <1>3, <1>4, <2>1 DEF IInv, TypeOK, FeedTypeOK
<1>6. /\ Started' = Started /\ SettledUpTo' = SettledUpTo
  BY <1>2 DEF Started, Subscribed, SettledUpTo
<1>7. HandInv' /\ SettledInv'
  BY <1>2, <1>6 DEF IInv, HandInv, SettledInv
<1>8. RaceInv'
  BY <1>2 DEF IInv, RaceInv, StaleUnmarkedOnlyByRace
<1> QED
  BY <1>5, <1>7, <1>8 DEF IInv

\* The session opens at the next update to come.
LEMMA StartInv ==
  ASSUME IInv, Start PROVE IInv'
<1>1. /\ ~Started /\ cursor' = [cursor EXCEPT ![Router] = Len(log) + 1]
      /\ since' = Len(log) + 1
      /\ UNCHANGED <<log, hand, task, answeredAt, folded, needsResync, dropped,
                     missed, exposed, raced>>
  BY DEF Start, Subscribe, Started, accountVars, taskVars
<1>2. Len(log) \in Nat /\ cursor \in [Subscribers -> Nat]
  BY DEF IInv, TypeOK, FeedTypeOK
<1>3. TypeOK'
  BY <1>1, <1>2 DEF IInv, TypeOK, FeedTypeOK
<1>4. cursor'[Router] = Len(log) + 1 /\ Started'
  BY <1>1, <1>2 DEF Started, Subscribed
<1>5. hand.first = 0 /\ hand = NoEvent
  BY <1>1 DEF IInv, HandInv
<1>6. SettledUpTo' = Len(log)
  BY <1>1, <1>2, <1>4, <1>5 DEF SettledUpTo
<1>7. HandInv'
  BY <1>1, <1>2, <1>4, <1>5, <1>6 DEF HandInv
<1>8. SettledInv'
  BY <1>1, <1>2, <1>4, <1>6 DEF IInv, SettledInv
<1>9. RaceInv'
  BY <1>1 DEF IInv, RaceInv, StaleUnmarkedOnlyByRace
<1> QED
  BY <1>3, <1>7, <1>8, <1>9 DEF IInv

\* Taking an event moves it from the feed to the hand.
LEMMA RouterTakeInv ==
  ASSUME IInv, RouterTake PROVE IInv'
<1>1. /\ hand = NoEvent /\ Readable(Router) /\ hand' = NextEvent(Router)
      /\ cursor' = [cursor EXCEPT ![Router] = NextCursor(Router)]
      /\ UNCHANGED <<log, since, task, answeredAt, folded, needsResync, dropped,
                     missed, exposed, raced>>
  BY DEF RouterTake, Advance, accountVars, taskVars
<1>2. /\ FeedTypeOK /\ Started /\ cursor[Router] \in Nat /\ since \in Nat
      /\ since # 0 /\ since <= cursor[Router]
  <2>1. FeedTypeOK /\ Started /\ cursor[Router] \in Nat /\ since \in Nat
    BY <1>1 DEF IInv, TypeOK, FeedTypeOK, Readable, Started
  <2>2. SettledUpTo = cursor[Router] - 1
    BY <1>1, <2>1 DEF SettledUpTo
  <2> QED
    BY <2>1, <2>2 DEF IInv, HandInv
<1>3. /\ hand' \in Event /\ hand'.first = cursor[Router] /\ hand'.first # 0
      /\ cursor'[Router] \in Nat /\ cursor'[Router] <= Len(log) + 1
      /\ cursor'[Router] = hand'.first + (IF hand'.skipped = 0 THEN 1 ELSE hand'.skipped)
  BY <1>1, <1>2, NextEventFacts DEF FeedTypeOK
<1>4. TypeOK'
  <2>1. FeedTypeOK'
    BY <1>1, <1>2, <1>3 DEF FeedTypeOK
  <2> QED
    BY <1>1, <1>3, <2>1 DEF IInv, TypeOK
<1>5. Started' /\ SettledUpTo' = cursor[Router] - 1
  <2>1. cursor'[Router] # 0 /\ hand' # NoEvent
    BY <1>2, <1>3 DEF Event, NoEvent
  <2> QED
    BY <1>3, <2>1 DEF Started, Subscribed, SettledUpTo
<1>6. HandInv'
  BY <1>1, <1>2, <1>3, <1>5 DEF HandInv
<1>7. SettledInv'
  <2>1. SettledUpTo = cursor[Router] - 1
    BY <1>1, <1>2 DEF SettledUpTo
  <2> QED
    BY <1>1, <1>2, <1>5, <2>1 DEF IInv, SettledInv
<1>8. RaceInv'
  BY <1>1 DEF IInv, RaceInv, StaleUnmarkedOnlyByRace
<1> QED
  BY <1>4, <1>6, <1>7, <1>8 DEF IInv

\* Folding moves the update in hand to the settled ones.
LEMMA RouterFoldInv ==
  ASSUME IInv, RouterFold PROVE IInv'
<1>1. /\ hand.first # 0 /\ hand.skipped = 0 /\ folded' = folded \cup {hand.first}
      /\ hand' = NoEvent
      /\ UNCHANGED <<log, cursor, since, needsResync, dropped, missed, exposed,
                     raced, task, answeredAt>>
  BY DEF RouterFold, IsUpdate, taskVars
<1>2. /\ Started /\ hand.first \in Nat /\ since \in Nat /\ since <= hand.first
      /\ cursor[Router] = hand.first + 1 /\ hand # NoEvent
  BY <1>1 DEF IInv, HandInv, TypeOK, Event, NoEvent
<1>3. TypeOK'
  BY <1>1, <1>2 DEF IInv, TypeOK, FeedTypeOK, Event, NoEvent
<1>4. /\ SettledUpTo = hand.first - 1 /\ SettledUpTo' = hand.first
      /\ Started' /\ hand'.first = 0
  BY <1>1, <1>2 DEF SettledUpTo, Started, Subscribed, NoEvent
<1>5. HandInv'
  BY <1>1, <1>2, <1>4 DEF IInv, HandInv
<1>6. SettledInv'
  <2>1. folded \cup missed = since .. (hand.first - 1) /\ folded \cap missed = {}
    BY <1>2, <1>4 DEF IInv, SettledInv
  <2>2. hand.first \notin missed
    BY <1>2, <2>1
  <2>3. (since .. (hand.first - 1)) \cup {hand.first} = since .. hand.first
    BY <1>2
  <2>4. folded' \cup missed' = since .. hand.first
    BY <1>1, <2>1, <2>3
  <2> QED
    BY <1>1, <1>4, <2>1, <2>2, <2>4 DEF SettledInv
<1>7. RaceInv'
  BY <1>1 DEF IInv, RaceInv, StaleUnmarkedOnlyByRace
<1> QED
  BY <1>3, <1>5, <1>6, <1>7 DEF IInv

\* Recording a gap moves it from the hand to what was missed.
LEMMA RouterLagInv ==
  ASSUME IInv, RouterLag PROVE IInv'
<1> DEFINE gap == Covers(hand)
<1>1. /\ hand.first # 0 /\ hand.skipped # 0 /\ needsResync' = TRUE
      /\ dropped' = SaturatingAdd(dropped, hand.skipped)
      /\ missed' = missed \cup gap /\ exposed' = exposed \cup gap
      /\ raced' = (raced \/ \E t \in Resyncs : task[t] = "answered")
      /\ hand' = NoEvent
      /\ UNCHANGED <<log, cursor, since, folded, task, answeredAt>>
  BY DEF RouterLag, IsLagged, taskVars
<1>2. /\ Started /\ hand.first \in Nat /\ hand.skipped \in Nat /\ since \in Nat
      /\ since <= hand.first /\ cursor[Router] = hand.first + hand.skipped
      /\ hand # NoEvent
  BY <1>1 DEF IInv, HandInv, TypeOK, Event, NoEvent
<1>3. gap = hand.first .. (cursor[Router] - 1)
  BY <1>1, <1>2 DEF Covers
<1>4. TypeOK'
  <2>1. gap \in SUBSET Nat
    BY <1>2, <1>3
  <2>2. dropped' \in 0 .. MaxDropped
    BY <1>1, <1>2 DEF IInv, TypeOK, SaturatingAdd
  <2> QED
    BY <1>1, <2>1, <2>2 DEF IInv, TypeOK, FeedTypeOK, Event, NoEvent
<1>5. /\ SettledUpTo = hand.first - 1 /\ SettledUpTo' = cursor[Router] - 1
      /\ Started' /\ hand'.first = 0
  BY <1>1, <1>2 DEF SettledUpTo, Started, Subscribed, NoEvent
<1>6. HandInv'
  BY <1>1, <1>2, <1>5 DEF IInv, HandInv
<1>7. SettledInv'
  <2>1. folded \cup missed = since .. (hand.first - 1) /\ folded \cap missed = {}
    BY <1>2, <1>5 DEF IInv, SettledInv
  <2>2. folded \cap gap = {}
    BY <1>2, <1>3, <2>1
  <2>3. (since .. (hand.first - 1)) \cup gap = since .. (cursor[Router] - 1)
    BY <1>1, <1>2, <1>3
  <2>4. folded' \cup missed' = since .. (cursor[Router] - 1)
    BY <1>1, <2>1, <2>3
  <2> QED
    BY <1>1, <1>5, <2>1, <2>2, <2>4 DEF SettledInv
<1>8. RaceInv'
  BY <1>1 DEF IInv, RaceInv, StaleUnmarkedOnlyByRace
<1> QED
  BY <1>4, <1>6, <1>7, <1>8 DEF IInv

\* The steps of a resync leave the feed and what is settled alone.
LEMMA ResyncFrame ==
  ASSUME IInv, UNCHANGED <<log, cursor, hand, since, folded, missed>>
  PROVE  HandInv' /\ SettledInv'
BY DEF IInv, HandInv, SettledInv, SettledUpTo, Started, Subscribed

\* A resync that is asked for has no answer yet.
LEMMA ResyncCallInv ==
  ASSUME IInv, NEW t \in Resyncs, ResyncCall(t) PROVE IInv'
<1>1. /\ task' = [task EXCEPT ![t] = "loading"]
      /\ UNCHANGED <<log, cursor, hand, since, answeredAt, folded, needsResync,
                     dropped, missed, exposed, raced>>
  BY DEF ResyncCall, accountVars
<1>2. TypeOK'
  BY <1>1 DEF IInv, TypeOK, FeedTypeOK, TaskState
<1>3. RaceInv'
  BY <1>1 DEF IInv, TypeOK, RaceInv, StaleUnmarkedOnlyByRace
<1> QED
  BY <1>1, <1>2, <1>3, ResyncFrame DEF IInv

\* An answer covers every gap recorded by then.
LEMMA ResyncAnsweredInv ==
  ASSUME IInv, NEW t \in Resyncs, ResyncAnswered(t) PROVE IInv'
<1>1. /\ task' = [task EXCEPT ![t] = "answered"]
      /\ answeredAt' = [answeredAt EXCEPT ![t] = Len(log)]
      /\ UNCHANGED <<log, cursor, hand, since, folded, needsResync, dropped,
                     missed, exposed, raced>>
  BY DEF ResyncAnswered, accountVars
<1>2. TypeOK'
  BY <1>1 DEF IInv, TypeOK, FeedTypeOK, TaskState
<1>3. \A n \in missed : n <= Len(log)
  <2>1. CASE Started
    <3>1. /\ cursor[Router] \in Nat /\ cursor[Router] <= Len(log) + 1
          /\ Len(log) \in Nat /\ hand \in Event
      BY DEF IInv, TypeOK, FeedTypeOK
    <3>2. SettledUpTo \in Int /\ SettledUpTo <= Len(log)
      BY <2>1, <3>1 DEF IInv, HandInv, SettledUpTo, Event
    <3>3. missed \subseteq since .. SettledUpTo /\ since \in Nat
      BY <2>1 DEF IInv, SettledInv, TypeOK
    <3> QED
      BY <3>1, <3>2, <3>3
  <2>2. CASE ~Started
    BY <2>2 DEF IInv, SettledInv
  <2> QED
    BY <2>1, <2>2
<1>4. RaceInv'
  BY <1>1, <1>3 DEF IInv, TypeOK, RaceInv, StaleUnmarkedOnlyByRace
<1> QED
  BY <1>1, <1>2, <1>4, ResyncFrame DEF IInv

\* A resync that failed covers nothing and marks nothing.
LEMMA ResyncFailedInv ==
  ASSUME IInv, NEW t \in Resyncs, ResyncFailed(t) PROVE IInv'
<1>1. /\ task' = [task EXCEPT ![t] = "idle"]
      /\ UNCHANGED <<log, cursor, hand, since, answeredAt, folded, needsResync,
                     dropped, missed, exposed, raced>>
  BY DEF ResyncFailed, accountVars
<1>2. TypeOK'
  BY <1>1 DEF IInv, TypeOK, FeedTypeOK, TaskState
<1>3. RaceInv'
  BY <1>1 DEF IInv, TypeOK, RaceInv, StaleUnmarkedOnlyByRace
<1> QED
  BY <1>1, <1>2, <1>3, ResyncFrame DEF IInv

\* A mark is right unless a gap was recorded since the answer.
LEMMA ResyncMarkInv ==
  ASSUME IInv, NEW t \in Resyncs, ResyncMark(t) PROVE IInv'
<1>1. /\ task[t] = "answered" /\ task' = [task EXCEPT ![t] = "idle"]
      /\ needsResync' = FALSE /\ exposed' = {n \in exposed : n > answeredAt[t]}
      /\ UNCHANGED <<log, cursor, hand, since, folded, dropped, missed, raced, answeredAt>>
  BY DEF ResyncMark
<1>2. TypeOK'
  BY <1>1 DEF IInv, TypeOK, FeedTypeOK, TaskState
<1>3. exposed' \subseteq exposed
  BY <1>1
<1>4. StaleUnmarkedOnlyByRace'
  <2>1. CASE raced
    BY <1>1, <2>1 DEF StaleUnmarkedOnlyByRace
  <2>2. CASE ~raced
    <3>1. \A n \in exposed : n \in Nat /\ n <= answeredAt[t] /\ answeredAt[t] \in Nat
      BY <1>1, <2>2 DEF IInv, RaceInv, TypeOK
    <3>2. exposed' = {}
      BY <1>1, <3>1
    <3> QED
      BY <3>2 DEF StaleUnmarkedOnlyByRace
  <2> QED
    BY <2>1, <2>2
<1>5. RaceInv'
  BY <1>1, <1>3, <1>4 DEF IInv, TypeOK, RaceInv
<1> QED
  BY <1>1, <1>2, <1>5, ResyncFrame DEF IInv

\* One case per action.
LEMMA StepInv == IInv /\ [Next]_vars => IInv'
<1> SUFFICES ASSUME IInv, [Next]_vars PROVE IInv'
  OBVIOUS
<1>1. CASE UNCHANGED vars
  BY <1>1 DEF vars, IInv, TypeOK, FeedTypeOK, HandInv, SettledInv, SettledUpTo, RaceInv,
              StaleUnmarkedOnlyByRace, Started, Subscribed
<1>2. CASE Next
  BY <1>2, PublishInv, StartInv, RouterTakeInv, RouterFoldInv, RouterLagInv,
     ResyncCallInv, ResyncAnsweredInv, ResyncFailedInv, ResyncMarkInv DEF Next
<1> QED
  BY <1>1, <1>2

\* The inductive invariant holds of every behaviour.
THEOREM Inductive == Spec => []IInv
BY InitInv, StepInv, PTL DEF Spec

\* Every variable keeps its type.
THEOREM TypeCorrect == Spec => []TypeOK
<1>1. IInv => TypeOK
  BY DEF IInv
<1> QED
  BY Inductive, <1>1, PTL

\* No update taken from the channel is folded twice, lost without a record, or
\* recorded as lost though it was folded.
THEOREM AccountedHolds == Spec => []Accounted
<1>1. IInv => Accounted
  BY InvImpliesAccounted DEF IInv
<1> QED
  BY Inductive, <1>1, PTL

\* An unrecovered gap is unmarked only after a gap recorded between the answer of a
\* resync and its mark.
THEOREM StaleUnmarkedOnlyByRaceHolds == Spec => []StaleUnmarkedOnlyByRace
<1>1. IInv => StaleUnmarkedOnlyByRace
  BY DEF IInv, RaceInv
<1> QED
  BY Inductive, <1>1, PTL

-----------------------------------------------------------------------------
\* The drop counter.
CountInv == IsFiniteSet(missed) /\ DroppedCountsMissed

\* The missed updates grow by as many as the gap has.
LEMMA LagCount ==
  ASSUME IInv, CountInv, RouterLag PROVE CountInv'
<1>1. /\ hand.first # 0 /\ hand.skipped # 0
      /\ dropped' = SaturatingAdd(dropped, hand.skipped)
      /\ missed' = missed \cup Covers(hand)
  BY DEF RouterLag, IsLagged
<1>2. /\ hand.first \in Nat /\ hand.skipped \in Nat
      /\ Covers(hand) = hand.first .. (hand.first + hand.skipped - 1)
  BY <1>1 DEF IInv, TypeOK, Event, Covers
<1>3. IsFiniteSet(Covers(hand)) /\ Cardinality(Covers(hand)) = hand.skipped
  <2> DEFINE last == hand.first + hand.skipped - 1
  <2>1. hand.first \in Int /\ last \in Int /\ ~(hand.first > last)
        /\ last - hand.first + 1 = hand.skipped
    BY <1>1, <1>2
  <2> HIDE DEF last
  <2>2. IsFiniteSet(hand.first .. last)
        /\ Cardinality(hand.first .. last) =
             IF hand.first > last THEN 0 ELSE last - hand.first + 1
    BY <2>1, FS_Interval, Zenon
  <2> QED
    BY <1>2, <2>1, <2>2 DEF last
<1>4. missed \cap Covers(hand) = {}
  BY InvImpliesAccounted DEF IInv, Accounted
<1>5. /\ IsFiniteSet(missed') /\ Cardinality(missed) \in Nat
      /\ Cardinality(missed') = Cardinality(missed) + hand.skipped
  <2>1. IsFiniteSet(missed) /\ Cardinality(missed) \in Nat
    BY FS_CardinalityType DEF CountInv
  <2>2. /\ IsFiniteSet(missed \cup Covers(hand))
        /\ Cardinality(missed \cup Covers(hand)) =
             Cardinality(missed) + Cardinality(Covers(hand))
               - Cardinality(missed \cap Covers(hand))
    BY <1>3, <2>1, FS_Union
  <2>3. Cardinality(missed \cap Covers(hand)) = 0
    BY <1>4, FS_EmptySet
  <2> QED
    BY <1>1, <1>2, <1>3, <2>1, <2>2, <2>3
<1>6. dropped' = IF Cardinality(missed') > MaxDropped THEN MaxDropped
                 ELSE Cardinality(missed')
  BY <1>1, <1>2, <1>5 DEF CountInv, DroppedCountsMissed, SaturatingAdd
<1> QED
  BY <1>5, <1>6 DEF CountInv, DroppedCountsMissed

\* dropped_updates is exact up to its saturation, for every number of updates and
\* every interleaving of resyncs.
THEOREM DroppedCountsMissedHolds == Spec => []DroppedCountsMissed
<1>1. Init => CountInv
  BY FS_EmptySet DEF Init, CountInv, DroppedCountsMissed
<1>2. IInv /\ CountInv /\ [Next]_vars => CountInv'
  <2> SUFFICES ASSUME IInv, CountInv, [Next]_vars PROVE CountInv'
    OBVIOUS
  <2>1. CASE RouterLag
    BY <2>1, LagCount
  <2>2. CASE ~RouterLag
    <3>1. UNCHANGED <<missed, dropped>>
      BY <2>2 DEF Next, vars, Publish, Start, RouterTake, RouterFold, ResyncCall,
                  ResyncAnswered, ResyncFailed, ResyncMark, accountVars
    <3> QED
      BY <3>1 DEF CountInv, DroppedCountsMissed
  <2> QED
    BY <2>1, <2>2
<1>3. CountInv => DroppedCountsMissed
  BY DEF CountInv
<1> QED
  BY <1>1, <1>2, <1>3, Inductive, PTL DEF Spec

-----------------------------------------------------------------------------
\* A resync runs only in a session that has started.
TaskInv == \A t \in Resyncs : task[t] # "idle" => Started

\* A task is woken after the start, and the session never ends.
LEMMA TaskInductive == Spec => []TaskInv
<1>1. Init => TaskInv
  BY DEF Init, TaskInv
<1>2. IInv /\ TaskInv /\ [Next]_vars => TaskInv'
  <2> SUFFICES ASSUME IInv, TaskInv, [Next]_vars PROVE TaskInv'
    OBVIOUS
  <2> USE DEF IInv, TypeOK, FeedTypeOK, TaskInv, Started, Subscribed
  <2>1. CASE Publish
    BY <2>1 DEF Publish, Receive, taskVars
  <2>2. CASE Start
    BY <2>2 DEF Start, Subscribe, taskVars
  <2>3. CASE RouterTake
    <3>1. cursor'[Router] = NextCursor(Router) /\ UNCHANGED task
      BY <2>3 DEF RouterTake, Advance, taskVars
    <3>2. NextCursor(Router) # 0
      BY <2>3 DEF RouterTake, Advance, Readable, NextCursor, Oldest
    <3> QED
      BY <3>1, <3>2
  <2>4. CASE RouterFold
    BY <2>4 DEF RouterFold, taskVars
  <2>5. CASE RouterLag
    BY <2>5 DEF RouterLag, taskVars
  <2>6. CASE \E t \in Resyncs : ResyncStep(t)
    BY <2>6 DEF ResyncStep, ResyncCall, ResyncAnswered, ResyncFailed, ResyncMark
  <2>7. CASE UNCHANGED vars
    BY <2>7 DEF vars
  <2> QED
    BY <2>1, <2>2, <2>3, <2>4, <2>5, <2>6, <2>7 DEF Next, ResyncStep
<1> QED
  BY <1>1, <1>2, Inductive, PTL DEF Spec

\* The mark goes away only with the success of a resync, and the diagnostic
\* counter stays.
THEOREM MarkClearedOnlyByAnswerHolds == Spec => MarkClearedOnlyByAnswer
<1>1. IInv /\ [Next]_vars =>
        [needsResync /\ ~needsResync' =>
           /\ \E t \in Resyncs : task[t] = "answered" /\ task'[t] = "idle"
           /\ dropped' = dropped]_vars
  <2> SUFFICES ASSUME IInv, Next, needsResync, ~needsResync'
               PROVE  /\ \E t \in Resyncs : task[t] = "answered" /\ task'[t] = "idle"
                      /\ dropped' = dropped
    BY DEF vars
  <2>1. PICK t \in Resyncs : ResyncMark(t)
    BY DEF Next, Publish, Start, RouterTake, RouterFold, RouterLag, ResyncCall,
           ResyncAnswered, ResyncFailed, accountVars
  <2> QED
    BY <2>1 DEF ResyncMark, IInv, TypeOK
<1> QED
  BY <1>1, Inductive, PTL DEF Spec, MarkClearedOnlyByAnswer

-----------------------------------------------------------------------------
\* Every step of the session is a step of UpdateJournal or leaves it as it is.
LEMMA JournalStep ==
  ASSUME IInv, IInv', TaskInv, Next
  PROVE  Journal!JournalNext \/ UNCHANGED Journal!journalVars
<1> USE DEF Journal!JournalNext, Journal!journalVars
<1>0. /\ FeedTypeOK /\ Len(log) \in Nat /\ cursor[Router] \in Nat /\ hand \in Event
      /\ cursor[Router] <= Len(log) + 1
  BY DEF IInv, TypeOK, FeedTypeOK
<1>1. CASE Publish
  <2>1. PICK kind \in Kinds : Receive(kind)
    BY <1>1 DEF Publish
  <2>2. log' = Append(log, kind) /\ UNCHANGED <<cursor, hand, folded, missed, needsResync>>
    BY <1>1, <2>1 DEF Publish, Receive, accountVars
  <2>3. Len(log') = Len(log) + 1
    BY <1>0, <2>2 DEF FeedTypeOK
  <2> QED
    BY <2>2, <2>3 DEF Journal!Send, SettledUpTo, Started, Subscribed
<1>2. CASE Start
  <2>1. /\ ~Started /\ UNCHANGED <<log, hand, folded, missed, needsResync>>
        /\ cursor' = [cursor EXCEPT ![Router] = Len(log) + 1]
    BY <1>2 DEF Start, Subscribe, Started, accountVars
  <2>2. hand = NoEvent
    BY <2>1 DEF IInv, HandInv
  <2>3. cursor'[Router] = Len(log) + 1
    BY <1>0, <2>1 DEF FeedTypeOK
  <2>4. Started' /\ SettledUpTo' = Len(log)
    BY <1>0, <2>1, <2>2, <2>3 DEF Started, Subscribed, SettledUpTo
  <2> QED
    BY <2>1, <2>4 DEF Journal!Open
<1>3. CASE RouterTake
  <2>1. /\ hand = NoEvent /\ Readable(Router) /\ hand' = NextEvent(Router)
        /\ cursor' = [cursor EXCEPT ![Router] = NextCursor(Router)]
        /\ UNCHANGED <<log, folded, missed, needsResync>>
    BY <1>3 DEF RouterTake, Advance, accountVars
  <2>2. /\ NextEvent(Router).first = cursor[Router] /\ cursor[Router] # 0
        /\ NextCursor(Router) \in Nat
        /\ NextCursor(Router) > cursor[Router]
    BY <1>0, <2>1, NextEventFacts DEF Event
  <2>3. cursor'[Router] = NextCursor(Router)
    BY <1>0, <2>1 DEF FeedTypeOK
  <2>4. Started /\ Started'
    BY <1>0, <2>2, <2>3 DEF Started, Subscribed
  <2>5. hand' # NoEvent /\ hand'.first = cursor[Router]
    BY <2>1, <2>2 DEF NoEvent
  <2>6. SettledUpTo' = SettledUpTo
    BY <2>1, <2>4, <2>5 DEF SettledUpTo
  <2> QED
    BY <2>1, <2>4, <2>6
<1>4. CASE RouterFold
  <2>1. /\ hand.first # 0 /\ hand.skipped = 0 /\ folded' = folded \cup {hand.first}
        /\ hand' = NoEvent /\ UNCHANGED <<log, cursor, missed, needsResync>>
    BY <1>4 DEF RouterFold, IsUpdate
  <2>2. /\ Started /\ Started' /\ hand # NoEvent /\ cursor[Router] = hand.first + 1
    BY <2>1 DEF IInv, HandInv, NoEvent, Started, Subscribed
  <2>3. hand.first \in Nat /\ SettledUpTo = hand.first - 1 /\ SettledUpTo' = hand.first
    BY <1>0, <2>1, <2>2 DEF SettledUpTo, Event
  <2> QED
    BY <1>0, <2>1, <2>2, <2>3 DEF Journal!Apply
<1>5. CASE RouterLag
  <2>1. /\ hand.first # 0 /\ hand.skipped # 0 /\ needsResync' = TRUE
        /\ missed' = missed \cup Covers(hand)
        /\ hand' = NoEvent /\ UNCHANGED <<log, cursor, folded>>
    BY <1>5 DEF RouterLag, IsLagged
  <2>2. /\ Started /\ Started' /\ hand # NoEvent
        /\ cursor[Router] = hand.first + hand.skipped
    BY <2>1 DEF IInv, HandInv, NoEvent, Started, Subscribed
  <2>3. /\ hand.first \in Nat /\ hand.skipped \in Nat
        /\ SettledUpTo = hand.first - 1 /\ SettledUpTo' = cursor[Router] - 1
    BY <1>0, <2>1, <2>2 DEF SettledUpTo, Event
  <2>4. Covers(hand) = (SettledUpTo + 1) .. SettledUpTo'
    BY <2>1, <2>2, <2>3 DEF Covers
  <2>5. SettledUpTo' \in (SettledUpTo + 1) .. Len(log)
    BY <1>0, <2>1, <2>2, <2>3
  <2> QED
    BY <2>1, <2>2, <2>4, <2>5 DEF Journal!Lose
<1>6. CASE \E t \in Resyncs : ResyncMark(t)
  <2>1. /\ Started /\ needsResync' = FALSE
        /\ UNCHANGED <<log, cursor, hand, folded, missed>>
    BY <1>6 DEF ResyncMark, TaskInv
  <2> QED
    BY <2>1 DEF Journal!Recover, SettledUpTo, Started, Subscribed
<1>7. CASE \E t \in Resyncs : ResyncCall(t) \/ ResyncAnswered(t) \/ ResyncFailed(t)
  <2>1. UNCHANGED <<log, cursor, hand, folded, missed, needsResync>>
    BY <1>7 DEF ResyncCall, ResyncAnswered, ResyncFailed, accountVars
  <2> QED
    BY <2>1 DEF SettledUpTo, Started, Subscribed
<1> QED
  BY <1>1, <1>2, <1>3, <1>4, <1>5, <1>6, <1>7 DEF Next

\* The session implements UpdateJournal: in-order, exactly-once settlement, and no
\* loss without the stale mark in the same step.
THEOREM JournalKeptHolds == Spec => JournalKept
<1>1. Init => Journal!JournalInit
  <2> SUFFICES ASSUME Init PROVE Journal!JournalInit
    OBVIOUS
  <2>1. Len(log) = 0 /\ ~Started
    BY DEF Init, FeedInit, Started, Subscribed
  <2> QED
    BY <2>1 DEF Init, Journal!JournalInit, SettledUpTo
<1>2. IInv /\ IInv' /\ TaskInv /\ [Next]_vars
        => [Journal!JournalNext]_Journal!journalVars
  <2> SUFFICES ASSUME IInv, IInv', TaskInv, [Next]_vars
               PROVE  Journal!JournalNext \/ UNCHANGED Journal!journalVars
    OBVIOUS
  <2>1. CASE UNCHANGED vars
    BY <2>1 DEF vars, Journal!journalVars, SettledUpTo, Started, Subscribed
  <2>2. CASE Next
    BY <2>2, JournalStep
  <2> QED
    BY <2>1, <2>2
<1> QED
  BY <1>1, <1>2, Inductive, TaskInductive, PTL DEF Spec, JournalKept, Journal!JournalSpec

-----------------------------------------------------------------------------
(* The panes, over the session's inductive invariant.                      *)

USE SourceAssumption, ChannelDepthAssumption

\* A sequence has an element.
In(seq, x) == \E i \in 1 .. Len(seq) : seq[i] = x

\* A signal makes the loop read a pane; a file only if the conversation refers to it.
Wants(pane, signal) ==
  In(PanesOf(signal), pane) /\ (pane = "conversation" => signal # "File")

\* The source's cursor is just after what it holds, and an update it holds has a signal.
SourceInv ==
  /\ sourceSince = 0 <=> cursor[Source] = 0
  /\ sourceSince <= cursor[Source]
  /\ sourceHand.first = 0 => sourceHand = NoEvent
  /\ sourceHand # NoEvent =>
       cursor[Source] = sourceHand.first + (IF sourceHand.skipped = 0 THEN 1 ELSE sourceHand.skipped)
  /\ IsUpdate(sourceHand) =>
       sourceHand.first \in delivered /\ SignalOf(log[sourceHand.first]) # "none"

\* A signal on its way will make the loop read the pane, or the loop is about to.
Pending(pane) ==
  \/ In(todo, pane)
  \/ \E i \in 1 .. Len(queue) : Wants(pane, queue[i].signal)
  \/ sourceHand # NoEvent /\ Wants(pane, SignalFor(sourceHand).signal)

\* The pane has been read since each update before the source's cursor that names it.
ReadSince(pane) ==
  \A n \in sourceSince .. (cursor[Source] - 1) :
    Wants(pane, SignalOf(log[n])) => stamp[pane] >= n

NudgeInv ==
  \A pane \in Panes :
    Pending(pane) \/ (pane = "conversation" /\ ~open) \/ ReadSince(pane)

\* The connection update n is in the channel.
Queued(n) == \E i \in 1 .. Len(queue) : queue[i].signal = "Connection" /\ queue[i].n = n

\* A connection update that was taken is shown, superseded or on its way, and what is
\* on its way is in order and newer than what is shown.
StatusInv ==
  /\ \A n \in delivered : n < cursor[Source] /\ n # 0
  /\ \A n \in delivered : log[n] = "Connection" =>
       n <= status \/ Queued(n) \/ (IsUpdate(sourceHand) /\ n = sourceHand.first)
  /\ status # 0 => status \in delivered /\ log[status] = "Connection"
  /\ IsUpdate(sourceHand) => status < sourceHand.first
  /\ \A i \in 1 .. Len(queue) : queue[i].signal = "Connection" =>
       /\ queue[i].n \in delivered
       /\ log[queue[i].n] = "Connection"
       /\ status < queue[i].n
       /\ IsUpdate(sourceHand) => queue[i].n < sourceHand.first
  /\ \A i, j \in 1 .. Len(queue) :
       i < j /\ queue[i].signal = "Connection" /\ queue[j].signal = "Connection"
         => queue[i].n < queue[j].n

LiveIInv == IInv /\ LiveTypeOK /\ SourceInv /\ NudgeInv /\ StatusInv

-----------------------------------------------------------------------------
\* The panes of a signal, as a set.
Named(signal) ==
  CASE signal = "Chats" -> {"chats", "secret"}
    [] signal \in {"ChatReadOutbox", "Lagged"} -> {"chats", "secret", "conversation"}
    [] signal \in {"Messages", "File"} -> {"conversation"}
    [] signal = "Secret" -> {"secret"}
    [] OTHER -> {}

LEMMA PanesOfSet ==
  ASSUME NEW signal
  PROVE  /\ PanesOf(signal) \in Seq(Panes)
         /\ \A p : In(PanesOf(signal), p) <=> p \in Named(signal)
<1>1. CASE signal = "Chats"
  <2>1. PanesOf(signal) = <<"chats", "secret">> /\ Named(signal) = {"chats", "secret"}
    BY <1>1 DEF PanesOf, Named
  <2>2. \A p : In(<<"chats", "secret">>, p) <=> p = "chats" \/ p = "secret"
    BY DEF In
  <2> QED
    BY <2>1, <2>2 DEF Panes
<1>2. CASE signal \in {"ChatReadOutbox", "Lagged"}
  <2>1. /\ PanesOf(signal) = <<"chats", "secret", "conversation">>
        /\ Named(signal) = {"chats", "secret", "conversation"}
    BY <1>2 DEF PanesOf, Named
  <2>2. \A p : In(<<"chats", "secret", "conversation">>, p)
                <=> p = "chats" \/ p = "secret" \/ p = "conversation"
    BY DEF In
  <2> QED
    BY <2>1, <2>2 DEF Panes
<1>3. CASE signal \in {"Messages", "File"}
  <2>1. PanesOf(signal) = <<"conversation">> /\ Named(signal) = {"conversation"}
    BY <1>3 DEF PanesOf, Named
  <2>2. \A p : In(<<"conversation">>, p) <=> p = "conversation"
    BY DEF In
  <2> QED
    BY <2>1, <2>2 DEF Panes
<1>4. CASE signal = "Secret"
  <2>1. PanesOf(signal) = <<"secret">> /\ Named(signal) = {"secret"}
    BY <1>4 DEF PanesOf, Named
  <2>2. \A p : In(<<"secret">>, p) <=> p = "secret"
    BY DEF In
  <2> QED
    BY <2>1, <2>2 DEF Panes
<1>5. CASE signal \notin {"Chats", "ChatReadOutbox", "Lagged", "Messages", "File", "Secret"}
  <2>1. PanesOf(signal) = << >> /\ Named(signal) = {}
    BY <1>5 DEF PanesOf, Named
  <2>2. \A p : ~In(<< >>, p)
    BY DEF In
  <2> QED
    BY <2>1, <2>2
<1> QED
  BY <1>1, <1>2, <1>3, <1>4, <1>5

\* The loop reads every pane a signal wants, but the conversation while it is closed.
LEMMA PanesForReads ==
  ASSUME NEW signal
  PROVE  /\ PanesFor(signal) \in Seq(Panes)
         /\ \A p : Wants(p, signal) /\ (p = "conversation" => open) => In(PanesFor(signal), p)
<1> DEFINE panes == PanesOf(signal)
           end == Len(panes)
<1>1. panes \in Seq(Panes)
  BY PanesOfSet
<1>2. CASE ~(end # 0 /\ panes[end] = "conversation" /\ ~ReadsConversation(signal))
  BY <1>1, <1>2 DEF PanesFor, Wants
<1>3. CASE end # 0 /\ panes[end] = "conversation" /\ ~ReadsConversation(signal)
  <2>1. PanesFor(signal) = SubSeq(panes, 1, end - 1)
    BY <1>3 DEF PanesFor
  <2>2. end \in Nat /\ end - 1 \in Nat
    BY <1>1, <1>3
  <2>3. /\ PanesFor(signal) \in Seq(Panes) /\ Len(PanesFor(signal)) = end - 1
        /\ \A i \in 1 .. (end - 1) : PanesFor(signal)[i] = panes[i]
    <3> DEFINE last == end - 1
    <3>1. 1 \in Int /\ last \in Int /\ \A i \in 1 .. last : panes[i] \in Panes
      BY <1>1, <2>2
    <3>2. PanesFor(signal) = SubSeq(panes, 1, last)
      BY <2>1
    <3> HIDE DEF last, panes
    <3>3. /\ SubSeq(panes, 1, last) \in Seq(Panes)
          /\ Len(SubSeq(panes, 1, last)) = IF 1 <= last THEN last - 1 + 1 ELSE 0
          /\ \A i \in 1 .. last - 1 + 1 : SubSeq(panes, 1, last)[i] = panes[1 + i - 1]
      BY <3>1, SubSeqProperties
    <3>4. /\ last \in Nat /\ last = end - 1
      BY <2>2 DEF last
    <3>5. last - 1 + 1 = last /\ \A i \in 1 .. last : 1 + i - 1 = i
      BY <3>4
    <3>6. (IF 1 <= last THEN last - 1 + 1 ELSE 0) = last
      BY <3>4
    <3>7. \A i \in 1 .. last : SubSeq(panes, 1, last)[i] = panes[i]
      BY <3>3, <3>5
    <3> QED
      BY <3>2, <3>3, <3>4, <3>6, <3>7
  <2>4. ASSUME NEW p, Wants(p, signal), p = "conversation" => open
        PROVE  In(PanesFor(signal), p)
    <3>1. p # "conversation"
      BY <1>3, <2>4 DEF Wants, ReadsConversation
    <3>2. PICK i \in 1 .. end : panes[i] = p
      BY <2>4 DEF Wants, In
    <3>3. i \in 1 .. (end - 1)
      BY <1>3, <2>2, <3>1, <3>2
    <3> QED
      BY <2>3, <3>2, <3>3 DEF In
  <2> QED
    BY <2>3, <2>4
<1> QED
  BY <1>2, <1>3

\* No pane wants an update nobody handles; a gap makes the loop read them all.
LEMMA WantsFacts ==
  /\ \A p : ~Wants(p, "none")
  /\ \A p \in Panes : Wants(p, "Lagged")
BY PanesOfSet DEF Wants, Named, Panes

\* What is in the tail or the head of a sequence.
LEMMA TailFacts ==
  ASSUME NEW S, NEW seq \in Seq(S), seq # << >>
  PROVE  /\ Head(seq) = seq[1] /\ Head(seq) \in S /\ Tail(seq) \in Seq(S)
         /\ Len(seq) \in Nat /\ Len(seq) # 0 /\ Len(Tail(seq)) = Len(seq) - 1
         /\ \A i \in 1 .. Len(Tail(seq)) : Tail(seq)[i] = seq[i + 1] /\ i + 1 \in 1 .. Len(seq)
         /\ \A i \in 1 .. Len(seq) : i # 1 => i - 1 \in 1 .. Len(Tail(seq))
         /\ \A i \in 1 .. Len(seq) : i # 1 => seq[i] = Tail(seq)[i - 1]
OBVIOUS

-----------------------------------------------------------------------------
\* Before the session starts.
LEMMA LiveInitInv == LiveInit => LiveIInv
<1> SUFFICES ASSUME LiveInit PROVE LiveIInv
  OBVIOUS
<1>1. IInv
  BY InitInv DEF LiveInit
<1>2. cursor[Source] = 0 /\ Len(log) = 0
  BY DEF LiveInit, Init, FeedInit
<1>3. LiveTypeOK
  <2>1. sourceHand \in Event /\ queue \in Seq(Signal) /\ Len(queue) = 0 /\ todo \in Seq(Panes)
    BY DEF LiveInit, Event, NoEvent
  <2>2. shown \in [Panes -> SUBSET Nat]
    BY DEF LiveInit
  <2>3. stamp \in [Panes -> Nat]
    BY DEF LiveInit
  <2>4. Len(queue) <= ChannelDepth
    BY <2>1
  <2>5. open \in BOOLEAN /\ status \in Nat /\ sourceSince \in Nat /\ delivered \in SUBSET Nat
    BY DEF LiveInit
  <2> QED
    BY <1>1, <2>1, <2>2, <2>3, <2>4, <2>5 DEF LiveTypeOK, IInv
<1>4. SourceInv
  BY <1>2 DEF LiveInit, SourceInv, NoEvent, IsUpdate
<1>5. NudgeInv
  BY <1>2 DEF LiveInit, NudgeInv, ReadSince
<1>6. StatusInv
  BY <1>2 DEF LiveInit, StatusInv, NoEvent, IsUpdate
<1> QED
  BY <1>1, <1>3, <1>4, <1>5, <1>6 DEF LiveIInv

\* The core's invariant does not look at the source's cursor.
LEMMA SourceFrame ==
  ASSUME IInv, NEW c \in Nat, c <= Len(log) + 1,
         cursor' = [cursor EXCEPT ![Source] = c],
         UNCHANGED <<log, hand, since, folded, needsResync, dropped, missed, exposed,
                     raced, task, answeredAt>>
  PROVE  IInv' /\ cursor'[Source] = c
<1>1. cursor'[Router] = cursor[Router] /\ cursor'[Source] = c
  BY DEF IInv, TypeOK, FeedTypeOK
<1>2. TypeOK'
  BY DEF IInv, TypeOK, FeedTypeOK
<1>3. Started' = Started /\ SettledUpTo' = SettledUpTo
  BY <1>1 DEF Started, Subscribed, SettledUpTo
<1>4. HandInv' /\ SettledInv'
  BY <1>1, <1>3 DEF IInv, HandInv, SettledInv
<1>5. RaceInv'
  BY DEF IInv, RaceInv, StaleUnmarkedOnlyByRace
<1> QED
  BY <1>1, <1>2, <1>4, <1>5 DEF IInv

\* A step of the core leaves the source's cursor and the past of the log alone.
LEMMA CoreFrame ==
  ASSUME IInv, [Next]_vars
  PROVE  /\ cursor'[Source] = cursor[Source]
         /\ \A n \in 1 .. Len(log) : log'[n] = log[n]
<1>1. FeedTypeOK /\ log \in Seq(Kinds) /\ Len(log) \in Nat
  BY DEF IInv, TypeOK, FeedTypeOK
<1>2. CASE Publish
  <2>1. PICK kind \in Kinds : log' = Append(log, kind) /\ UNCHANGED cursor
    BY <1>2 DEF Publish, Receive
  <2> QED
    BY <1>1, <2>1
<1>3. CASE Start
  BY <1>1, <1>3 DEF Start, Subscribe, FeedTypeOK
<1>4. CASE RouterTake
  BY <1>1, <1>4 DEF RouterTake, Advance, FeedTypeOK
<1>5. CASE ~Publish /\ ~Start /\ ~RouterTake
  BY <1>5 DEF Next, vars, RouterFold, RouterLag, ResyncCall, ResyncAnswered, ResyncFailed,
              ResyncMark
<1> QED
  BY <1>2, <1>3, <1>4, <1>5

\* The core's steps.
LEMMA CoreStepInv ==
  ASSUME LiveIInv, [Next]_vars, UNCHANGED uiVars
  PROVE  LiveIInv'
<1>1. /\ UNCHANGED <<sourceHand, queue, todo, open, shown, status, sourceSince, delivered, stamp>>
      /\ IInv'
  BY StepInv DEF LiveIInv, uiVars
<1>2. /\ cursor'[Source] = cursor[Source]
      /\ \A n \in 1 .. Len(log) : log'[n] = log[n]
  BY CoreFrame DEF LiveIInv
<1>3. /\ cursor[Source] \in Nat /\ cursor[Source] <= Len(log) + 1 /\ Len(log) \in Nat
      /\ sourceHand \in Event /\ sourceSince \in Nat
      /\ sourceSince = 0 <=> cursor[Source] = 0
      /\ delivered \subseteq Nat
  BY DEF LiveIInv, LiveTypeOK, IInv, TypeOK, FeedTypeOK, SourceInv
<1>4. \A n \in delivered : log'[n] = log[n]
  BY <1>2, <1>3 DEF LiveIInv, StatusInv
<1>5. LiveTypeOK'
  BY <1>1 DEF LiveIInv, LiveTypeOK, IInv
<1>6. SourceInv'
  BY <1>1, <1>2, <1>4 DEF LiveIInv, SourceInv, IsUpdate
<1>7. SignalFor(sourceHand)' = SignalFor(sourceHand) \/ sourceHand = NoEvent
  BY <1>1, <1>3, <1>4 DEF SignalFor, LiveIInv, SourceInv, IsLagged, IsUpdate
<1>8. NudgeInv'
  <2>1. ASSUME NEW p \in Panes
        PROVE  (Pending(p) => Pending(p)') /\ (ReadSince(p) => ReadSince(p)')
    <3>1. Pending(p) => Pending(p)'
      BY <1>1, <1>7 DEF Pending
    <3>2. \A n \in sourceSince .. (cursor[Source] - 1) : n \in 1 .. Len(log)
      BY <1>3
    <3> QED
      BY <1>1, <1>2, <3>1, <3>2 DEF ReadSince
  <2> QED
    BY <1>1, <2>1 DEF LiveIInv, NudgeInv
<1>9. StatusInv'
  BY <1>1, <1>2, <1>4 DEF LiveIInv, StatusInv, Queued, IsUpdate
<1> QED
  BY <1>1, <1>5, <1>6, <1>8, <1>9 DEF LiveIInv

\* The source subscribes: it has nothing to answer for yet.
LEMMA StartSourceInv ==
  ASSUME LiveIInv, StartSource
  PROVE  LiveIInv'
<1>1. /\ cursor[Source] = 0 /\ cursor' = [cursor EXCEPT ![Source] = Len(log) + 1]
      /\ sourceSince' = Len(log) + 1
      /\ UNCHANGED <<log, hand, since, folded, needsResync, dropped, missed, exposed,
                     raced, task, answeredAt>>
      /\ UNCHANGED <<sourceHand, queue, todo, open, shown, status, delivered, stamp>>
  BY DEF StartSource, Subscribe, Subscribed, accountVars, taskVars
<1>2. Len(log) \in Nat /\ Len(log) + 1 \in Nat /\ IInv
  BY DEF LiveIInv, IInv, TypeOK, FeedTypeOK
<1>3. IInv' /\ cursor'[Source] = Len(log) + 1
  <2> DEFINE c == Len(log) + 1
  <2>1. c \in Nat /\ c <= Len(log) + 1 /\ cursor' = [cursor EXCEPT ![Source] = c]
    BY <1>1, <1>2
  <2> HIDE DEF c
  <2>2. IInv' /\ cursor'[Source] = c
    BY <1>1, <1>2, <2>1, SourceFrame
  <2> QED
    BY <2>2 DEF c
<1>4. LiveTypeOK'
  BY <1>1, <1>2, <1>3 DEF LiveIInv, LiveTypeOK, IInv
<1>5. sourceHand = NoEvent /\ delivered = {}
  <2>1. sourceHand \in Event /\ delivered \subseteq Nat
    BY DEF LiveIInv, LiveTypeOK
  <2> QED
    BY <1>1, <2>1 DEF LiveIInv, SourceInv, StatusInv, Event
<1>6. SourceInv'
  BY <1>1, <1>2, <1>3, <1>5 DEF SourceInv, NoEvent, IsUpdate
<1>7. NudgeInv'
  BY <1>1, <1>2, <1>3 DEF NudgeInv, ReadSince
<1>8. StatusInv'
  BY <1>1, <1>3, <1>5 DEF LiveIInv, StatusInv, Queued, IsUpdate, NoEvent
<1> QED
  BY <1>3, <1>4, <1>6, <1>7, <1>8 DEF LiveIInv

\* The source takes an event: the panes it names have a signal on its way.
LEMMA SourceTakeInv ==
  ASSUME LiveIInv, SourceTake
  PROVE  LiveIInv'
<1> DEFINE e == NextEvent(Source)
           quiet == IsUpdate(e) /\ SignalOf(log[e.first]) = "none"
<1>1. /\ sourceHand = NoEvent /\ Readable(Source)
      /\ cursor' = [cursor EXCEPT ![Source] = NextCursor(Source)]
      /\ sourceHand' = IF quiet THEN NoEvent ELSE e
      /\ delivered' = IF IsUpdate(e) THEN delivered \cup {e.first} ELSE delivered
      /\ UNCHANGED <<log, hand, since, folded, needsResync, dropped, missed, exposed,
                     raced, task, answeredAt>>
      /\ UNCHANGED <<queue, todo, open, shown, status, sourceSince, stamp>>
  BY DEF SourceTake, Advance, accountVars, taskVars
<1>2. /\ FeedTypeOK /\ cursor[Source] \in Nat /\ cursor[Source] <= Len(log) /\ Len(log) \in Nat
      /\ IInv
  BY <1>1 DEF LiveIInv, IInv, TypeOK, FeedTypeOK, Readable
<1>3. /\ e \in Event /\ e.first = cursor[Source] /\ cursor[Source] # 0
      /\ NextCursor(Source) = e.first + (IF e.skipped = 0 THEN 1 ELSE e.skipped)
      /\ NextCursor(Source) \in Nat /\ NextCursor(Source) <= Len(log) + 1
  BY <1>1, <1>2, NextEventFacts
<1> HIDE DEF e
<1>4. IInv' /\ cursor'[Source] = NextCursor(Source)
  BY <1>1, <1>2, <1>3, SourceFrame
<1>5. e.first \in Nat /\ e.skipped \in Nat /\ e # NoEvent
  BY <1>3 DEF Event, NoEvent
<1>6. LiveTypeOK'
  BY <1>1, <1>3, <1>4, <1>5 DEF LiveIInv, LiveTypeOK, IInv, NoEvent, Event
<1>7. SourceInv'
  BY <1>1, <1>3, <1>4, <1>5 DEF LiveIInv, LiveTypeOK, SourceInv, NoEvent, IsUpdate
<1>8. NudgeInv'
  <2> SUFFICES ASSUME NEW p \in Panes
               PROVE  Pending(p)' \/ (p = "conversation" /\ ~open') \/ ReadSince(p)'
    BY DEF NudgeInv
  <2>1. CASE Pending(p)
    BY <1>1, <2>1 DEF Pending
  <2>2. CASE p = "conversation" /\ ~open
    BY <1>1, <2>2
  <2>3. CASE ReadSince(p) /\ IsUpdate(e) /\ ~Wants(p, SignalOf(log[e.first]))
    BY <1>1, <1>2, <1>3, <1>4, <1>5, <2>3 DEF ReadSince, IsUpdate, LiveIInv, LiveTypeOK
  <2>4. CASE IsUpdate(e) /\ Wants(p, SignalOf(log[e.first]))
    <3>1. ~quiet
      BY <2>4, WantsFacts
    <3>2. sourceHand' = e
      BY <1>1, <3>1
    <3>3. SignalFor(sourceHand)'.signal = SignalOf(log[e.first])
      BY <1>1, <2>4, <3>2 DEF SignalFor, IsUpdate, IsLagged
    <3> QED
      BY <1>5, <2>4, <3>2, <3>3 DEF Pending
  <2>5. CASE ~IsUpdate(e)
    <3>1. IsLagged(e) /\ sourceHand' = e
      BY <1>1, <1>3, <2>5 DEF IsUpdate, IsLagged
    <3>2. SignalFor(sourceHand)'.signal = "Lagged"
      BY <3>1 DEF SignalFor, IsLagged
    <3> QED
      BY <1>5, <3>1, <3>2, WantsFacts DEF Pending
  <2> QED
    BY <2>1, <2>2, <2>3, <2>4, <2>5 DEF LiveIInv, NudgeInv
<1>9. StatusInv'
  <2>1. SignalOf(log[e.first]) = "none" => log[e.first] # "Connection"
    BY DEF SignalOf
  <2>2. \A n \in delivered : n \in Nat /\ n < e.first /\ n # 0
    BY <1>3 DEF LiveIInv, LiveTypeOK, StatusInv
  <2>3. status \in Nat /\ status < e.first
    BY <1>3, <1>5, <2>2 DEF LiveIInv, LiveTypeOK, StatusInv
  <2>4. \A n \in delivered' : n < cursor'[Source] /\ n # 0
    BY <1>1, <1>3, <1>4, <1>5, <2>2
  <2>5. ASSUME NEW n \in delivered', log'[n] = "Connection"
        PROVE  n <= status' \/ Queued(n)' \/ (IsUpdate(sourceHand') /\ n = sourceHand'.first)
    <3>1. CASE n \in delivered
      BY <1>1, <2>5, <3>1 DEF LiveIInv, StatusInv, Queued, IsUpdate, NoEvent
    <3>2. CASE n \notin delivered
      BY <1>1, <2>1, <2>5, <3>2
    <3> QED
      BY <3>1, <3>2
  <2>6. \A i \in 1 .. Len(queue') : queue'[i].signal = "Connection" =>
          /\ queue'[i].n \in delivered'
          /\ log'[queue'[i].n] = "Connection"
          /\ status' < queue'[i].n
          /\ IsUpdate(sourceHand') => queue'[i].n < sourceHand'.first
    BY <1>1, <2>2 DEF LiveIInv, StatusInv, IsUpdate, NoEvent
  <2>7. IsUpdate(sourceHand') => status' < sourceHand'.first
    BY <1>1, <2>3 DEF IsUpdate, NoEvent
  <2> QED
    BY <1>1, <2>4, <2>5, <2>6, <2>7 DEF LiveIInv, StatusInv
<1> QED
  BY <1>4, <1>6, <1>7, <1>8, <1>9 DEF LiveIInv

\* The signal moves from the source's hand to the end of the channel.
LEMMA SourceSendInv ==
  ASSUME LiveIInv, SourceSend
  PROVE  LiveIInv'
<1> DEFINE s == SignalFor(sourceHand)
<1>1. /\ sourceHand # NoEvent /\ Len(queue) < ChannelDepth
      /\ queue' = Append(queue, s) /\ sourceHand' = NoEvent
      /\ UNCHANGED <<todo, open, shown, status, sourceSince, delivered, stamp>>
      /\ UNCHANGED vars
  BY DEF SourceSend
<1>2. UNCHANGED <<log, cursor>> /\ IInv' /\ TypeOK'
  BY <1>1, StepInv DEF LiveIInv, vars, IInv
<1>3. sourceHand \in Event /\ sourceHand.first # 0 /\ queue \in Seq(Signal)
  BY <1>1 DEF LiveIInv, LiveTypeOK, SourceInv
<1>4. s \in Signal
  <2>1. CASE IsLagged(sourceHand)
    BY <2>1 DEF SignalFor, Signal, Signals
  <2>2. CASE ~IsLagged(sourceHand)
    <3>1. IsUpdate(sourceHand) /\ s = [signal |-> SignalOf(log[sourceHand.first]),
                                       n |-> sourceHand.first]
      BY <1>3, <2>2 DEF SignalFor, IsLagged, IsUpdate
    <3>2. SignalOf(log[sourceHand.first]) # "none"
      BY <3>1 DEF LiveIInv, SourceInv
    <3>3. SignalOf(log[sourceHand.first]) \in Signals
      BY <3>2 DEF SignalOf, Signals
    <3> QED
      BY <1>3, <3>1, <3>3 DEF Signal, Event
  <2> QED
    BY <2>1, <2>2
<1>5. s.signal = "Connection" =>
        /\ IsUpdate(sourceHand) /\ s.n = sourceHand.first
        /\ log[sourceHand.first] = "Connection"
  <2>1. CASE IsLagged(sourceHand)
    BY <2>1 DEF SignalFor
  <2>2. CASE ~IsLagged(sourceHand)
    <3>1. IsUpdate(sourceHand) /\ s = [signal |-> SignalOf(log[sourceHand.first]),
                                       n |-> sourceHand.first]
      BY <1>3, <2>2 DEF SignalFor, IsLagged, IsUpdate
    <3> QED
      BY <3>1 DEF SignalOf
  <2> QED
    BY <2>1, <2>2
<1>6. IsUpdate(sourceHand) => s = [signal |-> SignalOf(log[sourceHand.first]),
                                   n |-> sourceHand.first]
  BY DEF SignalFor, IsUpdate, IsLagged
<1>7. s.signal = SignalFor(sourceHand).signal
  OBVIOUS
<1> HIDE DEF s
<1>8. /\ Len(queue) \in Nat /\ Len(queue') = Len(queue) + 1 /\ queue'[Len(queue')] = s
      /\ \A i \in 1 .. Len(queue) : queue'[i] = queue[i] /\ i \in 1 .. Len(queue')
      /\ \A i \in 1 .. Len(queue') : i \in 1 .. Len(queue) \/ i = Len(queue')
      /\ Len(queue') \in 1 .. Len(queue')
      /\ queue' \in Seq(Signal) /\ Len(queue') <= ChannelDepth
  BY <1>1, <1>3, <1>4
<1>9. LiveTypeOK'
  BY <1>1, <1>2, <1>8 DEF LiveIInv, LiveTypeOK, NoEvent, Event
<1>10. SourceInv'
  BY <1>1, <1>2 DEF LiveIInv, SourceInv, NoEvent, IsUpdate
<1>11. NudgeInv'
  <2>1. ASSUME NEW p \in Panes PROVE Pending(p) => Pending(p)'
    BY <1>1, <1>7, <1>8 DEF Pending
  <2>2. ASSUME NEW p \in Panes PROVE ReadSince(p) => ReadSince(p)'
    BY <1>1, <1>2 DEF ReadSince
  <2> QED
    BY <1>1, <2>1, <2>2 DEF LiveIInv, NudgeInv
<1>12. StatusInv'
  <2>1. ~IsUpdate(sourceHand')
    BY <1>1 DEF IsUpdate, NoEvent
  <2>2. ASSUME NEW n \in delivered', log'[n] = "Connection"
        PROVE  n <= status' \/ Queued(n)'
    <3>1. CASE n <= status
      BY <1>1, <3>1
    <3>2. CASE Queued(n)
      BY <1>8, <3>2 DEF Queued
    <3>3. CASE IsUpdate(sourceHand) /\ n = sourceHand.first
      <4>1. s.signal = "Connection" /\ s.n = n
        BY <1>2, <1>6, <2>2, <3>3 DEF SignalOf
      <4> QED
        BY <1>8, <4>1 DEF Queued
    <3> QED
      BY <1>1, <1>2, <2>2, <3>1, <3>2, <3>3 DEF LiveIInv, StatusInv
  <2>3. ASSUME NEW i \in 1 .. Len(queue'), queue'[i].signal = "Connection"
        PROVE  /\ queue'[i].n \in delivered'
               /\ log'[queue'[i].n] = "Connection"
               /\ status' < queue'[i].n
    <3>1. CASE i \in 1 .. Len(queue)
      BY <1>1, <1>2, <1>8, <2>3, <3>1 DEF LiveIInv, StatusInv
    <3>2. CASE i = Len(queue')
      BY <1>1, <1>2, <1>5, <1>8, <2>3, <3>2 DEF LiveIInv, StatusInv, SourceInv
    <3> QED
      BY <1>8, <3>1, <3>2
  <2>4. ASSUME NEW i \in 1 .. Len(queue'), NEW j \in 1 .. Len(queue'), i < j,
               queue'[i].signal = "Connection", queue'[j].signal = "Connection"
        PROVE  queue'[i].n < queue'[j].n
    <3>1. i \in 1 .. Len(queue)
      BY <1>8, <2>4
    <3>2. CASE j \in 1 .. Len(queue)
      BY <1>8, <2>4, <3>1, <3>2 DEF LiveIInv, StatusInv
    <3>3. CASE j = Len(queue')
      <4>1. IsUpdate(sourceHand) /\ queue'[j].n = sourceHand.first
        BY <1>5, <1>8, <2>4, <3>3
      <4> QED
        BY <1>8, <2>4, <3>1, <4>1 DEF LiveIInv, StatusInv
    <3> QED
      BY <1>8, <3>2, <3>3
  <2> QED
    BY <1>1, <1>2, <2>1, <2>2, <2>3, <2>4 DEF LiveIInv, StatusInv
<1> QED
  BY <1>2, <1>9, <1>10, <1>11, <1>12 DEF LiveIInv

\* The loop takes the oldest signal and will read the panes it names.
LEMMA LoopTakeInv ==
  ASSUME LiveIInv, LoopTake
  PROVE  LiveIInv'
<1> DEFINE s == Head(queue)
<1>1. /\ todo = << >> /\ queue # << >> /\ queue' = Tail(queue)
      /\ todo' = PanesFor(s.signal)
      /\ status' = IF s.signal = "Connection" THEN s.n ELSE status
      /\ UNCHANGED <<sourceHand, open, shown, sourceSince, delivered, stamp>>
      /\ UNCHANGED vars
  BY DEF LoopTake
<1>2. UNCHANGED <<log, cursor>> /\ IInv' /\ TypeOK'
  BY <1>1, StepInv DEF LiveIInv, vars, IInv
<1>3. queue \in Seq(Signal)
  BY DEF LiveIInv, LiveTypeOK
<1>4. /\ s = queue[1] /\ s \in Signal /\ queue' \in Seq(Signal)
      /\ Len(queue) \in Nat /\ Len(queue) # 0 /\ Len(queue') = Len(queue) - 1
      /\ \A i \in 1 .. Len(queue') : queue'[i] = queue[i + 1] /\ i + 1 \in 1 .. Len(queue)
      /\ \A i \in 1 .. Len(queue) : i # 1 => i - 1 \in 1 .. Len(queue')
      /\ \A i \in 1 .. Len(queue) : i # 1 => queue[i] = queue'[i - 1]
  BY <1>1, <1>3, TailFacts
<1> HIDE DEF s
<1>5. 1 \in 1 .. Len(queue)
  BY <1>4
<1>6. s.n \in Nat
  BY <1>4 DEF Signal
<1>7. LiveTypeOK'
  BY <1>1, <1>2, <1>4, <1>6, PanesForReads DEF LiveIInv, LiveTypeOK
<1>8. SourceInv'
  BY <1>1, <1>2 DEF LiveIInv, SourceInv
<1>9. NudgeInv'
  <2> SUFFICES ASSUME NEW p \in Panes, ~(p = "conversation" /\ ~open')
               PROVE  Pending(p)' \/ ReadSince(p)'
    BY DEF NudgeInv
  <2>1. p = "conversation" => open
    BY <1>1
  <2>2. CASE ReadSince(p)
    BY <1>1, <1>2, <2>2 DEF ReadSince
  <2>3. CASE In(todo, p)
    BY <1>1, <2>3 DEF In
  <2>4. CASE \E i \in 1 .. Len(queue) : Wants(p, queue[i].signal)
    <3>1. PICK i \in 1 .. Len(queue) : Wants(p, queue[i].signal)
      BY <2>4
    <3>2. CASE i = 1
      BY <1>1, <1>4, <2>1, <3>1, <3>2, PanesForReads DEF Pending
    <3>3. CASE i # 1
      BY <1>4, <3>1, <3>3 DEF Pending
    <3> QED
      BY <3>2, <3>3
  <2>5. CASE sourceHand # NoEvent /\ Wants(p, SignalFor(sourceHand).signal)
    BY <1>1, <1>2, <2>5 DEF Pending, SignalFor
  <2> QED
    BY <2>1, <2>2, <2>3, <2>4, <2>5 DEF LiveIInv, NudgeInv, Pending
<1>10. StatusInv'
  <2>1. status \in Nat /\ status' \in Nat /\ status <= status'
    BY <1>1, <1>4, <1>5, <1>6 DEF LiveIInv, LiveTypeOK, StatusInv
  <2>2. ASSUME NEW n \in delivered', log'[n] = "Connection"
        PROVE  n <= status' \/ Queued(n)' \/ (IsUpdate(sourceHand') /\ n = sourceHand'.first)
    <3>1. n \in Nat
      BY <1>1 DEF LiveIInv, LiveTypeOK
    <3>2. CASE n <= status
      BY <2>1, <3>1, <3>2
    <3>3. CASE Queued(n)
      <4>1. PICK i \in 1 .. Len(queue) : queue[i].signal = "Connection" /\ queue[i].n = n
        BY <3>3 DEF Queued
      <4>2. CASE i = 1
        BY <1>1, <1>4, <3>1, <4>1, <4>2
      <4>3. CASE i # 1
        BY <1>4, <4>1, <4>3 DEF Queued
      <4> QED
        BY <4>2, <4>3
    <3> QED
      BY <1>1, <1>2, <2>2, <3>2, <3>3 DEF LiveIInv, StatusInv
  <2>3. status' # 0 => status' \in delivered' /\ log'[status'] = "Connection"
    BY <1>1, <1>2, <1>4, <1>5 DEF LiveIInv, StatusInv
  <2>4. IsUpdate(sourceHand') => status' < sourceHand'.first
    BY <1>1, <1>4, <1>5 DEF LiveIInv, StatusInv
  <2>5. ASSUME NEW i \in 1 .. Len(queue'), queue'[i].signal = "Connection"
        PROVE  /\ queue'[i].n \in delivered'
               /\ log'[queue'[i].n] = "Connection"
               /\ status' < queue'[i].n
               /\ IsUpdate(sourceHand') => queue'[i].n < sourceHand'.first
    <3>1. i + 1 \in 1 .. Len(queue) /\ queue'[i] = queue[i + 1] /\ 1 < i + 1
      BY <1>4
    <3>2. s.signal = "Connection" => s.n < queue[i + 1].n
      BY <1>4, <1>5, <2>5, <3>1 DEF LiveIInv, StatusInv
    <3> QED
      BY <1>1, <1>2, <2>5, <3>1, <3>2 DEF LiveIInv, StatusInv
  <2>6. ASSUME NEW i \in 1 .. Len(queue'), NEW j \in 1 .. Len(queue'), i < j,
               queue'[i].signal = "Connection", queue'[j].signal = "Connection"
        PROVE  queue'[i].n < queue'[j].n
    <3>1. /\ i + 1 \in 1 .. Len(queue) /\ queue'[i] = queue[i + 1]
          /\ j + 1 \in 1 .. Len(queue) /\ queue'[j] = queue[j + 1]
          /\ i + 1 < j + 1
      BY <1>4, <2>6
    <3> QED
      BY <2>6, <3>1 DEF LiveIInv, StatusInv
  <2> QED
    BY <1>1, <1>2, <2>2, <2>3, <2>4, <2>5, <2>6 DEF LiveIInv, StatusInv
<1> QED
  BY <1>2, <1>7, <1>8, <1>9, <1>10 DEF LiveIInv

\* Reading a pane answers for every update sent so far.
LEMMA ProjectReads ==
  ASSUME LiveIInv, NEW p \in Panes, Project(p), UNCHANGED <<vars, sourceSince>>
  PROVE  /\ ReadSince(p)' /\ \A q \in Panes : ReadSince(q) => ReadSince(q)'
         /\ stamp' \in [Panes -> Nat] /\ shown' \in [Panes -> SUBSET Nat]
<1>1. /\ UNCHANGED <<log, cursor>> /\ Len(log) \in Nat /\ cursor[Source] <= Len(log) + 1
      /\ cursor[Source] \in Nat /\ sourceSince \in Nat
      /\ stamp \in [Panes -> Nat] /\ shown \in [Panes -> SUBSET Nat]
      /\ folded \subseteq Nat
  BY DEF vars, LiveIInv, LiveTypeOK, IInv, TypeOK, FeedTypeOK
<1>2. stamp' = [stamp EXCEPT ![p] = Len(log)] /\ shown' = [shown EXCEPT ![p] = Snapshot(p)]
  BY DEF Project
<1>3. Snapshot(p) \subseteq Nat
  BY <1>1 DEF Snapshot
<1>4. stamp'[p] = Len(log) /\ stamp' \in [Panes -> Nat]
  BY <1>1, <1>2
<1>5. \A q \in Panes : q # p => stamp'[q] = stamp[q]
  BY <1>1, <1>2
<1>6. ReadSince(p)'
  BY <1>1, <1>4 DEF ReadSince
<1>7. \A q \in Panes : ReadSince(q) => ReadSince(q)'
  BY <1>1, <1>5, <1>6 DEF ReadSince
<1> QED
  BY <1>1, <1>2, <1>3, <1>4, <1>6, <1>7

\* The steps of the loop that touch no connection signal.
LEMMA StatusFrame ==
  ASSUME StatusInv, UNCHANGED <<log, cursor, sourceHand, queue, status, delivered>>
  PROVE  StatusInv'
BY DEF StatusInv, Queued

\* The loop reads the next pane of the signal in hand.
LEMMA LoopProjectInv ==
  ASSUME LiveIInv, LoopProject
  PROVE  LiveIInv'
<1>1. /\ todo # << >> /\ Project(Head(todo)) /\ todo' = Tail(todo)
      /\ UNCHANGED <<sourceHand, queue, open, status, sourceSince, delivered>>
      /\ UNCHANGED vars
  BY DEF LoopProject
<1>2. UNCHANGED <<log, cursor>> /\ IInv' /\ TypeOK'
  BY <1>1, StepInv DEF LiveIInv, vars, IInv
<1>3. todo \in Seq(Panes)
  BY DEF LiveIInv, LiveTypeOK
<1>4. PICK p \in Panes :
        /\ p = todo[1] /\ Project(p) /\ todo' \in Seq(Panes)
        /\ \A i \in 1 .. Len(todo) : i # 1 => i - 1 \in 1 .. Len(todo') /\ todo[i] = todo'[i - 1]
  BY <1>1, <1>3, TailFacts
<1>5. /\ ReadSince(p)' /\ \A q \in Panes : ReadSince(q) => ReadSince(q)'
      /\ stamp' \in [Panes -> Nat] /\ shown' \in [Panes -> SUBSET Nat]
  BY <1>1, <1>4, ProjectReads
<1>6. LiveTypeOK'
  BY <1>1, <1>2, <1>4, <1>5 DEF LiveIInv, LiveTypeOK
<1>7. SourceInv'
  BY <1>1, <1>2 DEF LiveIInv, SourceInv
<1>8. ASSUME NEW q \in Panes, q # p, Pending(q) PROVE Pending(q)'
  <2>1. CASE In(todo, q)
    <3>1. In(todo', q)
      BY <1>4, <1>8, <2>1 DEF In
    <3> QED
      BY <3>1 DEF Pending, In
  <2>2. CASE ~In(todo, q)
    BY <1>1, <1>2, <1>8, <2>2 DEF Pending, SignalFor
  <2> QED
    BY <2>1, <2>2
<1>9. NudgeInv'
  BY <1>1, <1>5, <1>8 DEF LiveIInv, NudgeInv
<1>10. StatusInv'
  BY <1>1, <1>2, StatusFrame DEF LiveIInv
<1> QED
  BY <1>2, <1>6, <1>7, <1>9, <1>10 DEF LiveIInv

\* A chat that opens is read at once.
LEMMA OpenChatInv ==
  ASSUME LiveIInv, OpenChat
  PROVE  LiveIInv'
<1>1. /\ open' = TRUE /\ Project("conversation")
      /\ UNCHANGED <<sourceHand, queue, todo, status, sourceSince, delivered>>
      /\ UNCHANGED vars
  BY DEF OpenChat
<1>2. UNCHANGED <<log, cursor>> /\ IInv' /\ TypeOK'
  BY <1>1, StepInv DEF LiveIInv, vars, IInv
<1>3. "conversation" \in Panes
  BY DEF Panes
<1>4. /\ ReadSince("conversation")' /\ \A q \in Panes : ReadSince(q) => ReadSince(q)'
      /\ stamp' \in [Panes -> Nat] /\ shown' \in [Panes -> SUBSET Nat]
  BY <1>1, <1>3, ProjectReads
<1>5. LiveTypeOK'
  BY <1>1, <1>2, <1>4 DEF LiveIInv, LiveTypeOK
<1>6. SourceInv'
  BY <1>1, <1>2 DEF LiveIInv, SourceInv
<1>7. \A q \in Panes : Pending(q) => Pending(q)'
  BY <1>1, <1>2 DEF Pending, SignalFor
<1>8. NudgeInv'
  BY <1>4, <1>7 DEF LiveIInv, NudgeInv
<1>9. StatusInv'
  BY <1>1, <1>2, StatusFrame DEF LiveIInv
<1> QED
  BY <1>2, <1>5, <1>6, <1>8, <1>9 DEF LiveIInv

\* A closed conversation need not be read.
LEMMA CloseChatInv ==
  ASSUME LiveIInv, CloseChat
  PROVE  LiveIInv'
<1>1. /\ open' = FALSE
      /\ UNCHANGED <<sourceHand, queue, todo, shown, status, sourceSince, delivered, stamp>>
      /\ UNCHANGED vars
  BY DEF CloseChat
<1>2. UNCHANGED <<log, cursor>> /\ IInv' /\ TypeOK'
  BY <1>1, StepInv DEF LiveIInv, vars, IInv
<1>3. LiveTypeOK'
  BY <1>1, <1>2 DEF LiveIInv, LiveTypeOK
<1>4. SourceInv'
  BY <1>1, <1>2 DEF LiveIInv, SourceInv
<1>5. \A q \in Panes : (Pending(q) => Pending(q)') /\ (ReadSince(q) => ReadSince(q)')
  BY <1>1, <1>2 DEF Pending, SignalFor, ReadSince
<1>6. NudgeInv'
  BY <1>1, <1>5 DEF LiveIInv, NudgeInv
<1>7. StatusInv'
  BY <1>1, <1>2, StatusFrame DEF LiveIInv
<1> QED
  BY <1>2, <1>3, <1>4, <1>6, <1>7 DEF LiveIInv

\* One case per action.
LEMMA LiveStepInv == LiveIInv /\ [LiveNext]_liveVars => LiveIInv'
<1> SUFFICES ASSUME LiveIInv, [LiveNext]_liveVars PROVE LiveIInv'
  OBVIOUS
<1>1. CASE UNCHANGED liveVars
  BY <1>1, CoreStepInv DEF liveVars
<1>2. CASE CoreStep
  BY <1>2, CoreStepInv DEF CoreStep
<1> QED
  BY <1>1, <1>2, StartSourceInv, SourceTakeInv, SourceSendInv, LoopTakeInv, LoopProjectInv,
     OpenChatInv, CloseChatInv DEF LiveNext

\* The core, the source's hand, the signals on their way and what the panes have read
\* stay as the inductive invariant has them (spawn_core_source, the core arm of the loop).
THEOREM LiveInductive == LiveSpec => []LiveIInv
BY LiveInitInv, LiveStepInv, PTL DEF LiveSpec

-----------------------------------------------------------------------------
\* At rest nothing is pending, so every pane has been read since.
LEMMA RestNudged == LiveIInv => NudgeReachesPanes
<1> SUFFICES ASSUME LiveIInv, AtRest,
                    NEW n \in sourceSince .. Len(log),
                    NEW i \in 1 .. Len(PanesOf(SignalOf(log[n]))),
                    PanesOf(SignalOf(log[n]))[i] = "conversation" =>
                      open /\ SignalOf(log[n]) # "File"
             PROVE  stamp[PanesOf(SignalOf(log[n]))[i]] >= n
  BY DEF NudgeReachesPanes
<1> DEFINE p == PanesOf(SignalOf(log[n]))[i]
<1>1. p \in Panes /\ Wants(p, SignalOf(log[n]))
  BY PanesOfSet DEF Wants, In
<1>2. cursor[Source] \in Nat /\ cursor[Source] = Len(log) + 1 /\ Len(log) \in Nat
  BY DEF LiveIInv, IInv, TypeOK, FeedTypeOK, SourceInv, AtRest, Readable, Subscribed
<1>3. ~Pending(p)
  BY DEF AtRest, Pending, In
<1>4. ReadSince(p)
  BY <1>1, <1>3 DEF LiveIInv, NudgeInv
<1>5. n \in sourceSince .. (cursor[Source] - 1)
  BY <1>2
<1> QED
  BY <1>1, <1>4, <1>5 DEF ReadSince

\* When nothing is left to do, every update the source could see made the loop read the
\* panes it names, if need be through a gap, and the bar shows the last connection
\* update taken: for every depth of the two channels.
THEOREM RestIsCurrentHolds == LiveSpec => []RestIsCurrent
<1>1. LiveIInv => StatusFollowsSource
  BY DEF LiveIInv, StatusInv, StatusFollowsSource, AtRest, Queued, IsUpdate, NoEvent
<1>2. LiveIInv => RestIsCurrent
  BY <1>1, RestNudged DEF LiveIInv, RestIsCurrent
<1> QED
  BY <1>2, LiveInductive, PTL

=============================================================================
