---------------------------- MODULE CoreSession ----------------------------
(***************************************************************************)
(* The core of a signed-in session (router.rs, client.rs): Client::start   *)
(* subscribes the one router task, which folds every update into the       *)
(* shared account state and records every gap the channel reports; and     *)
(* Client::resync, which re-queries the Main chat list and then takes the  *)
(* stale mark back, on as many tasks as there were requests.               *)
(*                                                                         *)
(* The folded state is abstracted to the set of updates folded into it.    *)
(* What an update does to the stores is the subject of ChatList and        *)
(* MessageHistory.                                                         *)
(***************************************************************************)
EXTENDS Feed, FiniteSets

CONSTANTS
  Router,        \* the router's subscription
  Resyncs,       \* the tasks that may run Client::resync
  MaxDropped     \* where the dropped counter saturates: u64::MAX

ASSUME RouterAssumption == Router \in Subscribers
ASSUME MaxDroppedAssumption == MaxDropped \in Nat \ {0}

VARIABLES
  hand,          \* the event the router has taken and not yet folded
  folded,        \* the updates folded into the account state
  needsResync,   \* AccountState::needs_resync
  dropped,       \* AccountState::dropped_updates
  task,          \* task[t]: where the resync of task t is
  \* Ghosts: they restrict nothing.
  since,         \* the first update the router could see; 0 before it starts
  missed,        \* the updates the channel dropped before the router read them
  exposed,       \* the missed updates no finished resync has answered for
  answeredAt,    \* answeredAt[t]: the last update when TDLib's answer was complete
  raced          \* a gap was recorded between a resync's answer and its mark

accountVars == <<folded, needsResync, dropped, missed, exposed, raced>>
taskVars == <<task, answeredAt>>
vars == <<log, cursor, hand, folded, needsResync, dropped, task, since, missed,
          exposed, answeredAt, raced>>

TaskState == {"idle", "loading", "answered"}

TypeOK ==
  /\ FeedTypeOK
  /\ hand \in Event
  /\ folded \in SUBSET Nat
  /\ needsResync \in BOOLEAN
  /\ dropped \in 0 .. MaxDropped
  /\ task \in [Resyncs -> TaskState]
  /\ since \in Nat
  /\ missed \in SUBSET Nat
  /\ exposed \in SUBSET Nat
  /\ answeredAt \in [Resyncs -> Nat]
  /\ raced \in BOOLEAN

Init ==
  /\ FeedInit
  /\ hand = NoEvent
  /\ folded = {}
  /\ needsResync = FALSE
  /\ dropped = 0
  /\ task = [t \in Resyncs |-> "idle"]
  /\ since = 0
  /\ missed = {}
  /\ exposed = {}
  /\ answeredAt = [t \in Resyncs |-> 0]
  /\ raced = FALSE

Started == Subscribed(Router)

-----------------------------------------------------------------------------
\* The receive thread pumps one update.
Publish ==
  /\ \E kind \in Kinds : Receive(kind)
  /\ UNCHANGED <<hand, since>> /\ UNCHANGED accountVars /\ UNCHANGED taskVars

\* Client::start: subscribe, then spawn the router.
Start ==
  /\ Subscribe(Router)
  /\ since' = Len(log) + 1
  /\ UNCHANGED hand /\ UNCHANGED accountVars /\ UNCHANGED taskVars

\* Router::run awaits the next event ...
RouterTake ==
  /\ hand = NoEvent
  /\ Advance(Router)
  /\ hand' = NextEvent(Router)
  /\ UNCHANGED since /\ UNCHANGED accountVars /\ UNCHANGED taskVars

\* ... and folds it, under the lock: an update into its store,
RouterFold ==
  /\ IsUpdate(hand)
  /\ folded' = folded \cup {hand.first}
  /\ hand' = NoEvent
  /\ UNCHANGED <<log, cursor, since, needsResync, dropped, missed, exposed, raced>>
  /\ UNCHANGED taskVars

\* Mutant: a counter that wraps instead of saturating.
WrappingAdd(a, b) == (a + b) % (MaxDropped + 1)

\* Mutant: an addition without a limit.
UnboundedAdd(a, b) == a + b

\* AccountState::dropped_updates.saturating_add(skipped)
SaturatingAdd(a, b) == IF a + b > MaxDropped THEN MaxDropped ELSE a + b

\* Mutant: the gap is swallowed.
RouterLagSilent ==
  /\ IsLagged(hand)
  /\ hand' = NoEvent
  /\ UNCHANGED <<log, cursor, since>> /\ UNCHANGED accountVars /\ UNCHANGED taskVars

\* Mutant: the router's loop ends at the first gap.
RouterLagEndsRun == IsLagged(hand) /\ UNCHANGED vars

\* Mutant: the gap is counted but the snapshot is not marked stale.
RouterLagUnmarked ==
  /\ IsLagged(hand)
  /\ dropped' = SaturatingAdd(dropped, hand.skipped)
  /\ missed' = missed \cup Covers(hand)
  /\ exposed' = exposed \cup Covers(hand)
  /\ hand' = NoEvent
  /\ UNCHANGED <<log, cursor, since, folded, needsResync, raced>> /\ UNCHANGED taskVars

\* a gap into the stale mark and the drop counter (resync_after_lag).
RouterLag ==
  /\ IsLagged(hand)
  /\ needsResync' = TRUE
  /\ dropped' = SaturatingAdd(dropped, hand.skipped)
  /\ missed' = missed \cup Covers(hand)
  /\ exposed' = exposed \cup Covers(hand)
  /\ raced' = (raced \/ \E t \in Resyncs : task[t] = "answered")
  /\ hand' = NoEvent
  /\ UNCHANGED <<log, cursor, since, folded>> /\ UNCHANGED taskVars

\* Client::resync is called: load_main_list starts asking for pages.  It may be
\* called at any time, and while another call is still loading.
ResyncCall(t) ==
  /\ Started
  /\ task[t] = "idle"
  /\ task' = [task EXCEPT ![t] = "loading"]
  /\ UNCHANGED <<log, cursor, hand, since, answeredAt>> /\ UNCHANGED accountVars

\* TDLib reports the list exhausted (404), which ends load_list.  Pages before it
\* only make the task ask again.  Every update sent so far is in what TDLib
\* re-emits, the most a resync can recover.
ResyncAnswered(t) ==
  /\ task[t] = "loading"
  /\ task' = [task EXCEPT ![t] = "answered"]
  /\ answeredAt' = [answeredAt EXCEPT ![t] = Len(log)]
  /\ UNCHANGED <<log, cursor, hand, since>> /\ UNCHANGED accountVars

\* Mutant: the load's error is dropped and the mark taken back all the same.
ResyncFailedMarks(t) ==
  /\ task[t] = "loading"
  /\ task' = [task EXCEPT ![t] = "idle"]
  /\ needsResync' = FALSE
  /\ UNCHANGED <<log, cursor, hand, since, answeredAt, folded, dropped, missed, exposed, raced>>

\* A page fails for another reason: the error is returned before the mark.
ResyncFailed(t) ==
  /\ task[t] = "loading"
  /\ task' = [task EXCEPT ![t] = "idle"]
  /\ UNCHANGED <<log, cursor, hand, since, answeredAt>> /\ UNCHANGED accountVars

\* Mutant: the diagnostic counter is reset along with the mark.
ResyncMarkResets(t) ==
  /\ task[t] = "answered"
  /\ task' = [task EXCEPT ![t] = "idle"]
  /\ needsResync' = FALSE
  /\ dropped' = 0
  /\ exposed' = {n \in exposed : n > answeredAt[t]}
  /\ UNCHANGED <<log, cursor, hand, since, folded, missed, raced, answeredAt>>

\* mark_resynced, under the lock.
ResyncMark(t) ==
  /\ task[t] = "answered"
  /\ task' = [task EXCEPT ![t] = "idle"]
  /\ needsResync' = FALSE
  /\ exposed' = {n \in exposed : n > answeredAt[t]}
  /\ UNCHANGED <<log, cursor, hand, since, folded, dropped, missed, raced, answeredAt>>

RouterStep == RouterTake \/ RouterFold \/ RouterLag

ResyncStep(t) == ResyncCall(t) \/ ResyncAnswered(t) \/ ResyncFailed(t) \/ ResyncMark(t)

Next ==
  \/ Publish
  \/ Start
  \/ RouterTake
  \/ RouterFold
  \/ RouterLag
  \/ \E t \in Resyncs : \/ ResyncCall(t)
                        \/ ResyncAnswered(t)
                        \/ ResyncFailed(t)
                        \/ ResyncMark(t)

Spec == Init /\ [][Next]_vars

\* The router is a task of its own that the runtime keeps scheduling, and a
\* resync whose answer came always goes on to its mark.  Nothing makes TDLib
\* send an update or a user ask for a resync.
FairSpec ==
  /\ Spec
  /\ WF_vars(RouterStep)
  /\ \A t \in Resyncs : WF_vars(ResyncMark(t)) /\ WF_vars(ResyncAnswered(t) \/ ResyncFailed(t))

-----------------------------------------------------------------------------
\* Everything the router has taken from the channel is in exactly one place:
\* folded, recorded as missed, or still in its hand.  An update folded twice,
\* skipped without a record, or recorded as missed though it was folded breaks it.
Accounted ==
  /\ folded \cap missed = {}
  /\ Covers(hand) \cap (folded \cup missed) = {}
  /\ folded \cup missed \cup Covers(hand) =
       IF Started THEN since .. (cursor[Router] - 1) ELSE {}

\* dropped_updates is the number of updates ever missed, up to where it saturates,
\* whatever resyncs ran in between.
DroppedCountsMissed ==
  dropped = IF Cardinality(missed) > MaxDropped THEN MaxDropped ELSE Cardinality(missed)

\* The only way to an unmarked gap is a gap recorded after a resync had its answer
\* and before that resync took the mark back.
StaleUnmarkedOnlyByRace == (exposed # {} /\ ~needsResync) => raced

\* The mark is taken back only by a resync whose list load succeeded, and the drop
\* counter survives it.
MarkClearedOnlyByAnswer ==
  [][needsResync /\ ~needsResync' =>
       /\ \E t \in Resyncs : task[t] = "answered" /\ task'[t] = "idle"
       /\ dropped' = dropped]_vars

\* The last update the account state has settled, folded or recorded as missed.
SettledUpTo ==
  IF ~Started THEN 0
  ELSE IF hand = NoEvent THEN cursor[Router] - 1 ELSE hand.first - 1

Journal == INSTANCE UpdateJournal WITH
  sent <- Len(log), open <- Started, upTo <- SettledUpTo,
  applied <- folded, gone <- missed, stale <- needsResync

\* The session keeps the promise of UpdateJournal: updates are settled once, in
\* order, and a loss marks the account stale in the step that records it.
JournalKept == Journal!JournalSpec

\* Every update sent after the facade started ends up folded or counted.
EveryUpdateSettles ==
  \A n \in 1 .. MaxUpdates :
    (since # 0 /\ since <= n /\ n <= Len(log)) ~> (n \in folded \cup missed)

=============================================================================
