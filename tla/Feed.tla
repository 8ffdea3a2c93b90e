------------------------------- MODULE Feed -------------------------------
(***************************************************************************)
(* The bridge's update feed (bridge.rs): one receive thread sends every    *)
(* TDLib update into a broadcast channel of Capacity slots, and each       *)
(* subscriber reads it through a cursor of its own.  A subscriber that     *)
(* falls more than Capacity behind is told how many updates it lost and    *)
(* jumps to the oldest one still retained; a subscription starts after the *)
(* last update sent and nothing older is replayed to it.                   *)
(*                                                                         *)
(* An update is abstracted to its kind; its number is its place in log.    *)
(***************************************************************************)
EXTENDS Naturals, Sequences

CONSTANTS
  Subscribers,   \* the tasks that subscribe: the router, the UI source, ...
  Kinds,         \* the update kinds told apart
  Capacity,      \* UPDATE_BUFFER
  MaxUpdates     \* bound: how many updates TDLib sends

ASSUME CapacityAssumption == Capacity \in Nat \ {0}
ASSUME MaxUpdatesAssumption == MaxUpdates \in Nat

VARIABLES
  log,           \* every update sent into the channel, oldest first
  cursor         \* cursor[s]: the next update s will read; 0 before it subscribes

feedVars == <<log, cursor>>

\* What a subscription yields: one update, or the loss of `skipped` updates
\* from number `first` on.  A first of 0 is no event.
Event == [first : Nat, skipped : Nat]
NoEvent == [first |-> 0, skipped |-> 0]
Update(n) == [first |-> n, skipped |-> 0]
Lagged(n, k) == [first |-> n, skipped |-> k]

IsUpdate(e) == e.first # 0 /\ e.skipped = 0
IsLagged(e) == e.first # 0 /\ e.skipped # 0

\* The numbers of the updates an event stands for.
Covers(e) ==
  IF e.first = 0 THEN {}
  ELSE e.first .. (e.first + (IF e.skipped = 0 THEN 0 ELSE e.skipped - 1))

FeedTypeOK ==
  /\ log \in Seq(Kinds)
  /\ Len(log) <= MaxUpdates
  /\ cursor \in [Subscribers -> Nat]
  /\ \A s \in Subscribers : cursor[s] <= Len(log) + 1

FeedInit ==
  /\ log = << >>
  /\ cursor = [s \in Subscribers |-> 0]

-----------------------------------------------------------------------------
\* The oldest update the channel still retains.
Oldest == IF Len(log) > Capacity THEN Len(log) - Capacity + 1 ELSE 1

Subscribed(s) == cursor[s] # 0

\* There is something for s to read.
Readable(s) == Subscribed(s) /\ cursor[s] <= Len(log)

\* What s reads next, and where that leaves its cursor.
NextEvent(s) ==
  IF cursor[s] < Oldest THEN Lagged(cursor[s], Oldest - cursor[s])
  ELSE Update(cursor[s])

NextCursor(s) == IF cursor[s] < Oldest THEN Oldest ELSE cursor[s] + 1

\* receive() returned an update of this client: send it, whoever listens.
Receive(kind) ==
  /\ Len(log) < MaxUpdates
  /\ log' = Append(log, kind)
  /\ UNCHANGED cursor

\* updates() and router_events(): a subscription from here on.
Subscribe(s) ==
  /\ ~Subscribed(s)
  /\ cursor' = [cursor EXCEPT ![s] = Len(log) + 1]
  /\ UNCHANGED log

\* A subscriber takes its next event.
Advance(s) ==
  /\ Readable(s)
  /\ cursor' = [cursor EXCEPT ![s] = NextCursor(s)]
  /\ UNCHANGED log

=============================================================================
