--------------------------- MODULE UpdateJournal ---------------------------
(***************************************************************************)
(* What the core promises of the update stream (router.rs:8-20 and         *)
(* client.rs:195-207), with no channel, no task and no event in between:   *)
(* from the moment the session is opened, the updates are settled one by   *)
(* one in the order they were sent; a run of them may be lost, but then    *)
(* the account is marked stale in the same step.                           *)
(***************************************************************************)
EXTENDS Naturals

VARIABLES
  sent,          \* how many updates TDLib has sent
  open,          \* whether the session is open
  upTo,          \* the last update settled
  applied,       \* the updates applied to the account
  gone,          \* the updates lost
  stale          \* whether the account is marked stale

journalVars == <<sent, open, upTo, applied, gone, stale>>

JournalInit ==
  /\ sent = 0 /\ open = FALSE /\ upTo = 0
  /\ applied = {} /\ gone = {} /\ stale = FALSE

Send ==
  /\ sent' = sent + 1
  /\ UNCHANGED <<open, upTo, applied, gone, stale>>

Open ==
  /\ ~open
  /\ open' = TRUE
  /\ upTo' = sent
  /\ UNCHANGED <<sent, applied, gone, stale>>

Apply ==
  /\ open
  /\ upTo < sent
  /\ upTo' = upTo + 1
  /\ applied' = applied \cup {upTo + 1}
  /\ UNCHANGED <<sent, open, gone, stale>>

Lose ==
  /\ open
  /\ \E last \in (upTo + 1) .. sent :
       /\ upTo' = last
       /\ gone' = gone \cup ((upTo + 1) .. last)
  /\ stale' = TRUE
  /\ UNCHANGED <<sent, open, applied>>

Recover ==
  /\ open
  /\ stale' = FALSE
  /\ UNCHANGED <<sent, open, upTo, applied, gone>>

JournalNext == Send \/ Open \/ Apply \/ Lose \/ Recover

JournalSpec == JournalInit /\ [][JournalNext]_journalVars

=============================================================================
