-------------------------- MODULE LifecycleProofs --------------------------
(***************************************************************************)
(* Proofs about Lifecycle, for any number of starts, policies, capacity of *)
(* the login's channel and number of polls.  The inductive invariant is    *)
(* cut along what it is about: the stores of the key, the settings, the    *)
(* queue of authorization updates with the screen, the fields of the form, *)
(* and what the last process left behind.                                  *)
(***************************************************************************)
EXTENDS Lifecycle, TLAPS

USE MaxStartsAssumption, PoliciesAssumption, CapacityAssumption, WaitPollsAssumption

\* Where a key is being resolved.
Resolving == {"credentials", "onboard", "configOpen", "session", "keyOpen", "params"}

\* A start makes at most one key, stored where it came from before it is offered; the
\* key of the database is in the store that was reachable when the database was made.
KeyInv ==
  /\ StartTypeOK /\ pc \in Pcs
  /\ pc \in Resolving \ {"keyOpen", "params"} => minted < starts
  /\ pc = "keyOpen" => keyfile = Cut /\ held \in Keys /\ ~keyringUp
  /\ pc = "params" => held \in Keys /\ held = IF keyringUp THEN keyring ELSE keyfile
  /\ dbKey # NoKey => dbKey = IF bornUp THEN keyring ELSE keyfile

\* In the run, a file whose write is done says what is applied, and so does the write
\* under way, unless somebody else had a hand in it.
Loaded == [policy |-> LoadStorage, graphics |-> LoadInterface]
SettingsInv ==
  /\ SettingsTypeOK
  /\ pc \in {"run", "logOut"} /\ ~drifted =>
       IF writing = Idle THEN applied = Loaded ELSE writing = Good(applied)

\* The last authorization state in the queue is the one TDLib is in.
LastIs(queue, state) ==
  \E k \in 1 .. Len(queue) : queue[k] = state /\ \A j \in (k + 1) .. Len(queue) : queue[j] = "other"

\* The login loop has the present state, or has it still to read, or the queue lost it.
QueueInv ==
  /\ auth \in AuthStates \cup {"none"}
  /\ pc \in StartPcs => auth = "none"
  /\ pc \in Pcs \ StartPcs => auth \in AuthStates
  /\ unread \in Seq(AuthStates \cup {"other"}) /\ Len(unread) <= Capacity
  /\ ~Subscribed => unread = << >>
  /\ behind \in BOOLEAN /\ (behind => Skips(unread))
  /\ reply \in AuthStates \cup {NoReply}
  /\ pc # "prime" => reply = NoReply
  /\ Subscribed /\ ~behind =>
       IF ~Skips(unread) THEN LastIs(unread, auth)
       ELSE IF pc = "prime" THEN reply \in {NoReply, auth}
       ELSE view.screen = FromTdlib(auth)

FormInv ==
  /\ view \in [screen : Screens, input : Texts, first : Texts,
               field : {"First", "Last", "Accept"}, accepted : BOOLEAN,
               error : Screens \cup {""}]
  /\ asked.screen \in Screens \cup {""} /\ asked.text \in Texts
  /\ NothingCarriesOver

\* A logout half done is under way in TDLib, or was left by a process that died or gave up.
EndInv ==
  /\ account \in {"none", "in", "clearing"} /\ polls \in 0 .. WaitPolls
  /\ ended \in {"new", "closed", "gaveUp", "failed", "died"} /\ {midWrite, stranded} \subseteq BOOLEAN
  /\ account = "clearing" => stranded \/ auth = "LoggingOut"
  /\ pc = "off" /\ ended = "closed" => ~midWrite

IInv == KeyInv /\ SettingsInv /\ QueueInv /\ FormInv /\ EndInv

-----------------------------------------------------------------------------
(* The stores of the key.                                                  *)

\* A start that goes on: everything but minting and storing the key.
LEMMA StartStepKey ==
  ASSUME KeyInv, StartStep
  PROVE  KeyInv'
<1> USE DEF KeyInv, StartTypeOK, Pcs, StartPcs, Resolving, Keys, NoKey, Cut, Goes, Fails
<1>1. CASE Launch
  BY <1>1 DEF Launch
<1>2. ASSUME NEW env \in {"none", "half", "both"}, ResolveCredentials(env)
      PROVE  KeyInv'
  BY <1>2 DEF ResolveCredentials
<1>3. ASSUME NEW ok \in BOOLEAN, Onboard(ok)
      PROVE  KeyInv'
  BY <1>3 DEF Onboard
<1>4. ASSUME NEW ok \in BOOLEAN, PersistConfig(ok)
      PROVE  KeyInv'
  BY <1>4 DEF PersistConfig
<1>5. ASSUME NEW ok \in BOOLEAN, KeyFromRing(ok)
      PROVE  KeyInv'
  BY <1>5 DEF KeyFromRing
<1>6. ASSUME NEW ok \in BOOLEAN, WriteKey(ok)
      PROVE  KeyInv'
  BY <1>6 DEF WriteKey
<1>7. ASSUME NEW ok \in BOOLEAN, SetParameters(ok)
      PROVE  KeyInv'
  BY <1>7 DEF SetParameters
<1>8. CASE KeyFromFile
  BY <1>8 DEF KeyFromFile
<1>9. CASE KeyringChanges
  BY <1>9 DEF KeyringChanges
<1>10. CASE RemoveCutKey
  BY <1>10 DEF RemoveCutKey
<1> QED
  BY <1>1, <1>2, <1>3, <1>4, <1>5, <1>6, <1>7, <1>8, <1>9, <1>10 DEF StartStep

\* What the rest of the program does to the stores: nothing, but that TDLib destroys the
\* database in a logout, and that the process ends.
StoresLeftAlone ==
  /\ UNCHANGED <<starts, config, keyring, keyringUp, keyfile, minted, bornUp>>
  /\ held' \in {held, NoKey} /\ dbKey' \in {dbKey, NoKey}
  /\ pc' \in Pcs \ Resolving \/ UNCHANGED <<pc, held>>

LEMMA StoresLeftAloneKey ==
  ASSUME KeyInv, StoresLeftAlone
  PROVE  KeyInv'
BY DEF KeyInv, StoresLeftAlone, StartTypeOK, Resolving, startVars, Keys, NoKey, Cut

LEMMA OthersLeaveStores ==
  ASSUME KeyInv, Next, ~StartUp
  PROVE  StoresLeftAlone
<1> USE DEF StoresLeftAlone, startVars, Pcs, StartPcs, Resolving, Goes, Fails, NoKey
<1>1. CASE Noise
  BY <1>1 DEF Noise
<1>2. CASE TdlibMoves
  BY <1>2 DEF TdlibMoves, Becomes, KeyInv
<1>3. CASE LoginStep
  <2>1. pc' = pc \/ pc' \in Pcs \ Resolving
    BY <1>3 DEF LoginStep, SubscribeLogin, TerminalFails, AnswerPrime, Prime, TakeUpdate, TypeInput,
                EditRegister, SubmitField, SubmitRegister, Rejected, QuitLogin, Show, loginVars
  <2> QED
    BY <1>3, <2>1 DEF LoginStep
<1>4. CASE Accepted
  BY <1>4 DEF Accepted, Becomes
<1>5. CASE RunStep
  BY <1>5 DEF RunStep, RunStart, RunLoad, RunSettings, RunWrite
<1>6. CASE UserEditsFile
  BY <1>6 DEF UserEditsFile
<1>7. CASE QuitRun \/ LogOut
  BY <1>7 DEF QuitRun, LogOut
<1>8. CASE LogOutAnswered \/ LogOutWait \/ Close
  BY <1>8 DEF LogOutAnswered, LogOutWait, Close, Becomes
<1>9. CASE CloseWait \/ Dies
  BY <1>9 DEF CloseWait, Dies, Ends
<1> QED
  BY <1>1, <1>2, <1>3, <1>4, <1>5, <1>6, <1>7, <1>8, <1>9 DEF Next

LEMMA KeyStep ==
  ASSUME KeyInv, [Next]_vars
  PROVE  KeyInv'
<1>1. CASE StartUp
  BY <1>1, StartStepKey DEF StartUp
<1>2. CASE Next /\ ~StartUp
  BY <1>2, OthersLeaveStores, StoresLeftAloneKey
<1>3. CASE UNCHANGED vars
  BY <1>3 DEF vars, startVars, KeyInv, StartTypeOK
<1> QED
  BY <1>1, <1>2, <1>3

-----------------------------------------------------------------------------
(* The settings.                                                           *)

\* A start, the login and the shutdown leave the settings alone; only the run and its
\* refused logout are in the run afterwards.
LEMMA SettingsLeftAlone ==
  ASSUME KeyInv, Next, ~RunStep, ~UserEditsFile, ~SettingsEnd
  PROVE  /\ UNCHANGED settingsVars
         /\ pc' \in {"run", "logOut"} => pc \in {"run", "logOut"}
<1> USE DEF Goes, Fails
<1>1. CASE StartUp
  <2>1. pc' \in StartPcs \cup {"subscribe"}
    BY <1>1 DEF StartUp, StartStep, Launch, ResolveCredentials, Onboard, PersistConfig, KeyFromRing,
                WriteKey, SetParameters, KeyFromFile, KeyringChanges, RemoveCutKey, StartPcs
  <2> QED
    BY <1>1, <2>1 DEF StartUp, StartPcs
<1>2. CASE Noise \/ TdlibMoves \/ Accepted
  BY <1>2 DEF Noise, TdlibMoves, Accepted, startVars
<1>3. CASE LoginStep
  BY <1>3 DEF LoginStep, SubscribeLogin, TerminalFails, AnswerPrime, Prime, TakeUpdate, TypeInput,
              EditRegister, SubmitField, SubmitRegister, Rejected, QuitLogin, Show
<1>4. CASE QuitRun \/ LogOut \/ LogOutAnswered \/ LogOutWait \/ Close
  BY <1>4 DEF QuitRun, LogOut, LogOutAnswered, LogOutWait, Close
<1>5. CASE CloseWait
  BY <1>5 DEF CloseWait, Ends, startVars
<1>6. CASE Dies
  BY <1>6 DEF Dies, Ends
<1> QED
  BY <1>1, <1>2, <1>3, <1>4, <1>5, <1>6 DEF Next

\* A save that opens the file, with the write to follow.
LEMMA OpenedFacts ==
  ASSUME NEW c \in Contents, OpenTruncated(c)
  PROVE  /\ file' \in [kind : {"absent", "empty", "good", "typo"}, says : Contents]
         /\ writing' \in {Idle} \cup {Good(d) : d \in Contents}
         /\ writing' = Good(c) /\ writing' # Idle
BY DEF OpenTruncated, Empty, Good, Idle, Default, Contents

\* What is loaded, and the defaults, are contents.
LEMMA LoadedFacts ==
  ASSUME SettingsInv
  PROVE  Default \in Contents /\ LoadStorage \in Policies /\ LoadInterface \in BOOLEAN
BY DEF SettingsInv, SettingsTypeOK, Contents, LoadStorage, LoadInterface, Default

LEMMA SettingsStep ==
  ASSUME KeyInv, SettingsInv, [Next]_vars
  PROVE  SettingsInv'
<1> USE DEF SettingsInv, SettingsTypeOK, Contents, Good, Idle, Default
<1>1. CASE RunStep
  <2>1. CASE RunStart
    <3>1. CASE EnsureDefaultFile
      <4>1. OpenTruncated(Default) /\ UNCHANGED <<applied, drifted>> /\ pc' = "load"
        BY <2>1, <3>1 DEF RunStart, Goes, EnsureDefaultFile
      <4> QED
        BY <4>1, OpenedFacts, LoadedFacts
    <3>2. CASE UNCHANGED settingsVars
      BY <2>1, <3>2 DEF RunStart, Goes, settingsVars
    <3> QED
      BY <2>1, <3>1, <3>2 DEF RunStart
  <2>2. CASE RunLoad
    BY <2>2 DEF RunLoad, Goes, LoadSettings, Loaded, LoadStorage, LoadInterface
  <2>3. CASE RunSettings
    <3>1. ASSUME NEW policy \in Policies, SavePolicy(policy), pc = "run", UNCHANGED pc
          PROVE  SettingsInv'
      <4>1. applied' = [applied EXCEPT !.policy = policy] /\ writing = Idle /\ applied' \in Contents
        BY <3>1 DEF SavePolicy
      <4>2. CASE OpenTruncated([policy |-> policy, graphics |-> LoadInterface]) /\ UNCHANGED drifted
        <5>1. [policy |-> policy, graphics |-> LoadInterface] \in Contents
          BY LoadedFacts
        <5>2. ~drifted => applied' = [policy |-> policy, graphics |-> LoadInterface]
          BY <3>1, <4>1 DEF Loaded
        <5> QED
          BY <3>1, <4>1, <4>2, <5>1, <5>2, OpenedFacts
      <4>3. CASE drifted' = TRUE /\ UNCHANGED <<file, writing>>
        BY <4>1, <4>3
      <4> QED
        BY <3>1, <4>2, <4>3 DEF SavePolicy
    <3>2. ASSUME NEW on \in BOOLEAN, SaveGraphics(on), pc = "run", UNCHANGED pc
          PROVE  SettingsInv'
      <4>1. applied' = [applied EXCEPT !.graphics = on] /\ writing = Idle /\ applied' \in Contents
        BY <3>2 DEF SaveGraphics
      <4>2. CASE OpenTruncated([policy |-> LoadStorage, graphics |-> on]) /\ UNCHANGED drifted
        <5>1. [policy |-> LoadStorage, graphics |-> on] \in Contents
          BY LoadedFacts
        <5>2. ~drifted => applied' = [policy |-> LoadStorage, graphics |-> on]
          BY <3>2, <4>1 DEF Loaded
        <5> QED
          BY <3>2, <4>1, <4>2, <5>1, <5>2, OpenedFacts
      <4>3. CASE drifted' = TRUE /\ UNCHANGED <<file, writing>>
        BY <4>1, <4>3
      <4> QED
        BY <3>2, <4>2, <4>3 DEF SaveGraphics
    <3> QED
      BY <2>3, <3>1, <3>2 DEF RunSettings
  <2>4. CASE RunWrite
    <3>1. CASE FinishWrite
      <4>1. file' = writing /\ writing' = Idle /\ writing # Idle /\ UNCHANGED <<applied, drifted, pc>>
        BY <2>4, <3>1 DEF RunWrite, FinishWrite
      <4>2. PICK c \in Contents : writing = Good(c)
        BY <4>1
      <4>3. file'.kind = "good" /\ file'.says = c
        BY <4>1, <4>2
      <4>4. Loaded' = c
        BY <4>3 DEF Loaded, LoadStorage, LoadInterface
      <4>5. pc \in {"run", "logOut"} /\ ~drifted => applied = c
        BY <4>1, <4>2
      <4> QED
        BY <4>1, <4>2, <4>4, <4>5
    <3>2. CASE WriteFails
      BY <2>4, <3>2 DEF RunWrite, WriteFails
    <3> QED
      BY <2>4, <3>1, <3>2 DEF RunWrite
  <2> QED
    BY <1>1, <2>1, <2>2, <2>3, <2>4 DEF RunStep
<1>2. CASE UserEditsFile
  BY <1>2 DEF UserEditsFile, HandEdit, Edits, Typo, startVars
<1>3. CASE SettingsEnd /\ Next
  <2>1. file' = file /\ applied' = Default /\ writing' = Idle /\ drifted' = TRUE
    BY <1>3 DEF SettingsEnd
  <2> QED
    BY <2>1
<1>4. CASE Next /\ ~RunStep /\ ~UserEditsFile /\ ~SettingsEnd
  BY <1>4, SettingsLeftAlone DEF settingsVars, Loaded, LoadStorage, LoadInterface
<1>5. CASE UNCHANGED vars
  BY <1>5 DEF vars, startVars, settingsVars, Loaded, LoadStorage, LoadInterface
<1> QED
  BY <1>1, <1>2, <1>3, <1>4, <1>5

\* A write that begins carries over the section it does not own.
LEMMA OtherSectionStep ==
  ASSUME KeyInv, [Next]_vars, writing = Idle, writing' # Idle, file.kind = "good"
  PROVE  \/ writing'.says.graphics = file.says.graphics
         \/ writing'.says.policy = file.says.policy
<1>1. CASE RunStep
  BY <1>1 DEF RunStep, RunStart, RunLoad, RunSettings, RunWrite, EnsureDefaultFile, LoadSettings,
              SavePolicy, SaveGraphics, FinishWrite, WriteFails, OpenTruncated, Good, LoadStorage,
              LoadInterface, settingsVars
<1>2. CASE UserEditsFile \/ SettingsEnd \/ UNCHANGED vars
  BY <1>2 DEF UserEditsFile, HandEdit, SettingsEnd, vars, settingsVars
<1>3. CASE Next /\ ~RunStep /\ ~UserEditsFile /\ ~SettingsEnd
  BY <1>3, SettingsLeftAlone DEF settingsVars
<1> QED
  BY <1>1, <1>2, <1>3

-----------------------------------------------------------------------------
(* The queue of the login loop.                                            *)

Updates == AuthStates \cup {"other"}

\* What the channel holds after an update: no more than its capacity, the update last.
LEMMA SentFacts ==
  ASSUME unread \in Seq(Updates), Len(unread) <= Capacity, Subscribed, NEW u \in Updates
  PROVE  /\ Sent(u) \in Seq(Updates) /\ Len(Sent(u)) \in 1 .. Capacity
         /\ Sent(u)[Len(Sent(u))] = u
         /\ \E d \in {0, 1} :
              /\ Len(Sent(u)) = Len(unread) + 1 - d
              /\ \A i \in 1 .. (Len(unread) - d) : Sent(u)[i] = unread[i + d]
<1> DEFINE kept == IF Len(unread) = Capacity THEN Tail(unread) ELSE unread
<1>1. kept \in Seq(Updates) /\ Len(kept) \in 0 .. (Capacity - 1)
  OBVIOUS
<1>2. Sent(u) = Append(kept, u)
  BY DEF Sent
<1>3. CASE Len(unread) = Capacity
  <2>1. Len(kept) = Len(unread) - 1 /\ \A i \in 1 .. (Len(unread) - 1) : kept[i] = unread[i + 1]
    BY <1>3
  <2>2. Len(Sent(u)) = Len(unread) /\ \A i \in 1 .. (Len(unread) - 1) : Sent(u)[i] = kept[i]
    BY <1>1, <1>2, <2>1
  <2>3. Sent(u) \in Seq(Updates) /\ Len(Sent(u)) \in 1 .. Capacity /\ Sent(u)[Len(Sent(u))] = u
    BY <1>1, <1>2
  <2>4. Len(Sent(u)) = Len(unread) + 1 - 1
    BY <2>2
  <2> HIDE DEF kept
  <2>5. \A i \in 1 .. (Len(unread) - 1) : Sent(u)[i] = unread[i + 1]
    BY <2>1, <2>2
  <2> QED
    BY <2>3, <2>4, <2>5
<1>4. CASE Len(unread) # Capacity
  BY <1>1, <1>2, <1>4
<1> QED
  BY <1>3, <1>4

\* An authorization update is the last one of the queue it enters.
LEMMA SentState ==
  ASSUME unread \in Seq(Updates), Len(unread) <= Capacity, Subscribed, NEW state \in AuthStates
  PROVE  LastIs(Sent(state), state) /\ ~Skips(Sent(state))
<1>1. state # "other" /\ state \in Updates
  BY DEF AuthStates, Waiting, Updates
<1>2. Len(Sent(state)) \in 1 .. Capacity /\ Sent(state)[Len(Sent(state))] = state
  BY <1>1, SentFacts
<1>3. \A j \in (Len(Sent(state)) + 1) .. Len(Sent(state)) : Sent(state)[j] = "other"
  BY <1>2
<1> QED
  BY <1>1, <1>2, <1>3 DEF LastIs, Skips

\* Another update hides no state but one it pushes out.
LEMMA SentOther ==
  ASSUME unread \in Seq(Updates), Len(unread) <= Capacity, Subscribed, NEW state \in AuthStates
  PROVE  /\ Skips(unread) => Skips(Sent("other"))
         /\ LastIs(unread, state) /\ ~Skips(Sent("other")) => LastIs(Sent("other"), state)
<1> DEFINE q == Sent("other")
<1>1. "other" \in Updates
  BY DEF Updates
<1>2. q \in Seq(Updates) /\ Len(q) \in 1 .. Capacity /\ q[Len(q)] = "other"
  BY <1>1, SentFacts
<1>3. PICK d \in {0, 1} :
        /\ Len(q) = Len(unread) + 1 - d
        /\ \A i \in 1 .. (Len(unread) - d) : q[i] = unread[i + d]
  BY <1>1, SentFacts
<1> HIDE DEF q
<1>4. Len(unread) \in Nat
  OBVIOUS
<1>5. \A i \in 1 .. Len(q) : i = Len(q) \/ (i + d \in 1 .. Len(unread) /\ q[i] = unread[i + d])
  BY <1>2, <1>3, <1>4
<1>6. Skips(unread) => Skips(q)
  BY <1>2, <1>5 DEF Skips
<1>7. ASSUME LastIs(unread, state), ~Skips(q)
      PROVE  LastIs(q, state)
  <2>1. PICK k \in 1 .. Len(unread) :
          unread[k] = state /\ \A j \in (k + 1) .. Len(unread) : unread[j] = "other"
    BY <1>7 DEF LastIs
  <2>2. k - d >= 1
    <3>1. SUFFICES ASSUME k = d
                   PROVE  Skips(q)
      BY <1>7, <2>1
    <3>2. \A i \in 1 .. Len(q) : q[i] = "other"
      BY <1>2, <1>5, <2>1, <3>1
    <3> QED
      BY <3>2 DEF Skips
  <2>3. k - d \in 1 .. Len(q) /\ q[k - d] = state
    BY <1>3, <1>4, <2>1, <2>2
  <2>4. \A j \in (k - d + 1) .. Len(q) : q[j] = "other"
    <3>1. TAKE j \in (k - d + 1) .. Len(q)
    <3>2. CASE j = Len(q)
      BY <1>2, <3>2
    <3>3. CASE j # Len(q)
      <4>1. j \in 1 .. Len(q)
        BY <1>2, <2>2
      <4>2. j + d \in 1 .. Len(unread) /\ q[j] = unread[j + d]
        BY <1>5, <3>3, <4>1
      <4>3. j + d \in (k + 1) .. Len(unread)
        BY <1>4, <4>1, <4>2
      <4> QED
        BY <2>1, <4>2, <4>3
    <3> QED
      BY <3>2, <3>3
  <2> QED
    BY <2>3, <2>4 DEF LastIs
<1> QED
  BY <1>6, <1>7 DEF q

\* Taking the first update: either it is no state, or the state read is the last one, or
\* the last one is still to come.
LEMMA TakenFacts ==
  ASSUME unread \in Seq(Updates), unread # << >>, NEW state \in AuthStates
  PROVE  /\ Tail(unread) \in Seq(Updates) /\ Len(Tail(unread)) < Len(unread)
         /\ Head(unread) \in Updates
         /\ Head(unread) = "other" => (Skips(Tail(unread)) <=> Skips(unread))
         /\ LastIs(unread, state) =>
              IF Skips(Tail(unread)) THEN Head(unread) \in {state, "other"}
              ELSE LastIs(Tail(unread), state)
<1> DEFINE q == Tail(unread)
<1>1. q \in Seq(Updates) /\ Len(q) = Len(unread) - 1 /\ Head(unread) = unread[1]
  OBVIOUS
<1>2. \A i \in 1 .. Len(q) : q[i] = unread[i + 1]
  OBVIOUS
<1>3. Len(unread) \in Nat \ {0} /\ unread[1] \in Updates
  OBVIOUS
<1> HIDE DEF q
<1>4. \A i \in 1 .. Len(unread) : i = 1 \/ (i - 1 \in 1 .. Len(q) /\ unread[i] = q[i - 1])
  BY <1>1, <1>2, <1>3
<1>5. unread[1] = "other" => (Skips(q) <=> Skips(unread))
  <2>1. Skips(unread) => Skips(q)
    BY <1>1, <1>2, <1>3 DEF Skips
  <2>2. unread[1] = "other" /\ Skips(q) => Skips(unread)
    BY <1>4 DEF Skips
  <2> QED
    BY <2>1, <2>2
<1>6. ASSUME LastIs(unread, state)
      PROVE  IF Skips(q) THEN unread[1] \in {state, "other"} ELSE LastIs(q, state)
  <2>1. PICK k \in 1 .. Len(unread) :
          unread[k] = state /\ \A j \in (k + 1) .. Len(unread) : unread[j] = "other"
    BY <1>6 DEF LastIs
  <2>2. state # "other"
    BY DEF AuthStates, Waiting
  <2>3. CASE k = 1
    BY <1>1, <1>2, <1>3, <2>1, <2>3 DEF Skips
  <2>4. CASE k # 1
    <3>1. k - 1 \in 1 .. Len(q) /\ q[k - 1] = state
      BY <1>1, <1>3, <1>4, <2>1, <2>4
    <3>2. \A j \in (k - 1 + 1) .. Len(q) : q[j] = "other"
      BY <1>1, <1>2, <1>3, <2>1
    <3> QED
      BY <2>2, <3>1, <3>2 DEF LastIs, Skips
  <2> QED
    BY <2>3, <2>4
<1> QED
  BY <1>1, <1>3, <1>5, <1>6 DEF q

\* TDLib in a new state: the login loop, if it listens, has that state still to read.
LEMMA BecomesQueue ==
  ASSUME KeyInv, QueueInv, NEW state \in AuthStates, Becomes(state),
         pc' \in Pcs \ StartPcs, pc' \in {"prime", "screen", "submit"} <=> Subscribed,
         reply' = reply, pc' = pc \/ pc # "prime"
  PROVE  QueueInv'
<1>1. auth' = state /\ unread' = Sent(state) /\ behind' = FALSE
  BY DEF Becomes
<1>2. CASE Subscribed
  <2>1. unread \in Seq(Updates) /\ Len(unread) <= Capacity /\ state \in Updates
    BY DEF QueueInv, Updates
  <2>2. unread' \in Seq(Updates) /\ Len(unread') <= Capacity
    BY <1>1, <1>2, <2>1, SentFacts
  <2>3. LastIs(unread', auth') /\ ~Skips(unread')
    BY <1>1, <1>2, <2>1, SentState
  <2>4. Subscribed'
    BY <1>2 DEF Subscribed
  <2> QED
    BY <1>1, <1>2, <2>2, <2>3, <2>4 DEF QueueInv, Updates, Subscribed
<1>3. CASE ~Subscribed
  <2>1. unread' = << >> /\ ~Subscribed'
    BY <1>1, <1>3 DEF Sent, Subscribed
  <2> QED
    BY <1>1, <1>3, <2>1 DEF QueueInv, Subscribed
<1> QED
  BY <1>2, <1>3

\* While no login loop listens, there is nothing to read and nothing is missed.
LEMMA DeafQueue ==
  ASSUME QueueInv, ~Subscribed', unread' = << >>, reply' = NoReply, behind' \in BOOLEAN,
         auth' \in AuthStates \cup {"none"},
         pc' \in StartPcs => auth' = "none", pc' \in Pcs \ StartPcs => auth' \in AuthStates
  PROVE  QueueInv'
<1>1. Skips(unread')
  BY DEF Skips
<1> QED
  BY <1>1 DEF QueueInv, Subscribed

\* The steps of the login loop itself.
LEMMA LoginQueue ==
  ASSUME KeyInv, QueueInv, FormInv, LoginStep
  PROVE  QueueInv'
<1> USE DEF Goes, Pcs, StartPcs
<1>0. UNCHANGED <<auth>> /\ unread \in Seq(Updates) /\ pc \in Pcs
  BY DEF LoginStep, SubscribeLogin, TerminalFails, AnswerPrime, Prime, TakeUpdate, TypeInput, EditRegister,
         SubmitField, SubmitRegister, Rejected, QuitLogin, loginVars, QueueInv, Updates, KeyInv
<1>1. CASE SubscribeLogin
  <2>1. unread = << >> /\ reply = NoReply /\ pc' = "prime" /\ auth \in AuthStates
    BY <1>1 DEF SubscribeLogin, Subscribed, QueueInv
  <2>2. Skips(unread)
    BY <2>1 DEF Skips
  <2> QED
    BY <1>1, <2>1, <2>2 DEF SubscribeLogin, Subscribed, QueueInv
<1>2. CASE TerminalFails
  BY <1>2 DEF TerminalFails, loginVars, Subscribed, QueueInv
<1>3. CASE AnswerPrime
  BY <1>3 DEF AnswerPrime, Subscribed, QueueInv
<1>4. CASE Prime
  <2>1. UNCHANGED <<auth, behind>> /\ reply' = NoReply /\ view'.screen = FromTdlib(reply)
    BY <1>4 DEF Prime, Show, FreshView
  <2>2. CASE Terminal(FromTdlib(reply))
    <3>1. pc' \in {"ready", "close"} /\ unread' = << >>
      BY <1>4, <2>2 DEF Prime, Show, Terminal
    <3> QED
      BY <1>4, <2>1, <3>1, DeafQueue DEF Subscribed, QueueInv, Prime
  <2>3. CASE ~Terminal(FromTdlib(reply))
    <3>1. pc' = "screen" /\ unread' = unread
      BY <1>4, <2>3 DEF Prime, Show, Terminal
    <3> QED
      BY <1>4, <2>1, <3>1 DEF Prime, Subscribed, QueueInv
  <2> QED
    BY <2>2, <2>3
<1>5. CASE TakeUpdate
  <2>1. /\ pc = "screen" /\ unread # << >> /\ UNCHANGED <<auth, reply, behind>>
        /\ Subscribed /\ reply = NoReply /\ auth \in AuthStates
    BY <1>5 DEF TakeUpdate, QueueInv, Subscribed
  <2>2. /\ Tail(unread) \in Seq(Updates) /\ Len(Tail(unread)) <= Capacity
        /\ Head(unread) \in Updates
        /\ Head(unread) = "other" => (Skips(Tail(unread)) <=> Skips(unread))
        /\ LastIs(unread, auth) =>
             IF Skips(Tail(unread)) THEN Head(unread) \in {auth, "other"} ELSE LastIs(Tail(unread), auth)
    BY <1>0, <2>1, TakenFacts DEF QueueInv
  <2>3. behind => Skips(Tail(unread))
    BY <1>0, <2>1 DEF QueueInv, Skips
  <2>4. CASE Head(unread) = "other"
    <3>1. unread' = Tail(unread) /\ UNCHANGED <<pc, view>>
      BY <1>5, <2>4 DEF TakeUpdate
    <3> QED
      BY <2>1, <2>2, <2>3, <2>4, <3>1 DEF QueueInv, Subscribed, Updates
  <2>5. CASE Head(unread) # "other"
    <3>1. Head(unread) \in AuthStates /\ ~Skips(unread) /\ ~behind
      <4>1. Head(unread) \in AuthStates
        BY <2>2, <2>5 DEF Updates
      <4>2. 1 \in 1 .. Len(unread) /\ unread[1] # "other"
        BY <1>0, <2>1, <2>5
      <4>3. ~Skips(unread)
        BY <4>2 DEF Skips
      <4>4. ~behind
        BY <4>3 DEF QueueInv
      <4> QED
        BY <4>1, <4>3, <4>4
    <3>2. Show(Head(unread)) /\ view'.screen = FromTdlib(Head(unread))
      <4>1. Show(Head(unread))
        BY <1>5, <2>5 DEF TakeUpdate
      <4> QED
        BY <4>1 DEF Show, FreshView
    <3>3. CASE Terminal(FromTdlib(Head(unread)))
      <4>1. pc' \in {"ready", "close"} /\ unread' = << >>
        BY <1>5, <2>5, <3>2, <3>3 DEF TakeUpdate, Show, Terminal
      <4> QED
        BY <2>1, <4>1, DeafQueue DEF Subscribed, QueueInv
    <3>4. CASE ~Terminal(FromTdlib(Head(unread)))
      <4>1. pc' = "screen" /\ unread' = Tail(unread)
        BY <1>5, <2>5, <3>2, <3>4 DEF TakeUpdate, Show, Terminal
      <4>2. LastIs(unread, auth)
        BY <2>1, <3>1 DEF QueueInv
      <4> QED
        BY <2>1, <2>2, <2>3, <2>5, <3>1, <3>2, <4>1, <4>2 DEF QueueInv, Subscribed, Updates
    <3> QED
      BY <3>3, <3>4
  <2> QED
    BY <2>4, <2>5
<1>6. CASE TypeInput \/ EditRegister
  <2>1. UNCHANGED <<pc, auth, unread, reply, behind>> /\ view'.screen = view.screen
    <3>1. CASE TypeInput
      BY <3>1 DEF TypeInput, FormInv
    <3>2. CASE EditRegister
      BY <3>2 DEF EditRegister, FormInv
    <3> QED
      BY <1>6, <3>1, <3>2
  <2> QED
    BY <2>1 DEF QueueInv, Subscribed
<1>7. CASE SubmitField \/ SubmitRegister \/ Rejected
  <2>1. /\ UNCHANGED <<auth, unread, reply, behind>> /\ view'.screen = view.screen
        /\ pc \in {"screen", "submit"} /\ pc' \in {"screen", "submit"}
    <3>1. CASE SubmitField
      BY <3>1 DEF SubmitField, FormInv
    <3>2. CASE SubmitRegister
      BY <3>2 DEF SubmitRegister, FormInv
    <3>3. CASE Rejected
      BY <3>3 DEF Rejected, FormInv
    <3> QED
      BY <1>7, <3>1, <3>2, <3>3
  <2> QED
    BY <2>1 DEF QueueInv, Subscribed
<1>8. CASE QuitLogin
  BY <1>8, DeafQueue DEF QuitLogin, QueueInv, Subscribed
<1> QED
  BY <1>1, <1>2, <1>3, <1>4, <1>5, <1>6, <1>7, <1>8 DEF LoginStep

LEMMA QueueStep ==
  ASSUME KeyInv, QueueInv, FormInv, [Next]_vars
  PROVE  QueueInv'
<1> USE DEF Goes
<1>0. pc \in Pcs /\ pc' \in Pcs
  BY KeyStep DEF KeyInv
<1>1. CASE StartUp
  <2>1. pc \in StartPcs /\ pc' \in StartPcs \cup {"subscribe"}
    BY <1>1 DEF StartUp, StartStep, Launch, ResolveCredentials, Onboard, PersistConfig, KeyFromRing,
                WriteKey, SetParameters, KeyFromFile, KeyringChanges, RemoveCutKey, StartPcs, Fails
  <2>2. /\ UNCHANGED <<unread, reply, behind>>
        /\ auth' = IF pc' = "subscribe" THEN "WaitTdlibParameters" ELSE "none"
    BY <1>1 DEF StartUp
  <2>3. unread = << >> /\ reply = NoReply /\ ~Subscribed'
    BY <2>1 DEF QueueInv, Subscribed, StartPcs
  <2> QED
    BY <2>1, <2>2, <2>3, DeafQueue DEF QueueInv, AuthStates, StartPcs
<1>2. CASE Noise
  <2>1. /\ Subscribed /\ unread' = Sent("other") /\ UNCHANGED <<pc, auth, view, reply>>
        /\ behind' = (behind \/ (~Skips(unread) /\ Skips(unread')))
    BY <1>2 DEF Noise, startVars
  <2>2. unread \in Seq(Updates) /\ Len(unread) <= Capacity /\ "other" \in Updates /\ auth \in AuthStates
    BY <2>1 DEF QueueInv, Updates, Subscribed, Pcs, StartPcs
  <2>3. unread' \in Seq(Updates) /\ Len(unread') <= Capacity
    BY <2>1, <2>2, SentFacts
  <2>4. /\ Skips(unread) => Skips(unread')
        /\ LastIs(unread, auth) /\ ~Skips(unread') => LastIs(unread', auth)
    BY <2>1, <2>2, SentOther
  <2> QED
    BY <2>1, <2>2, <2>3, <2>4 DEF QueueInv, Updates, Subscribed
<1>3. CASE TdlibMoves
  <2>1. PICK state \in MovesTo(auth) : Becomes(state)
    BY <1>3 DEF TdlibMoves
  <2>2. state \in AuthStates
    BY <1>3, <2>1 DEF TdlibMoves, MovesTo, AuthStates, Waiting
  <2>3. pc \in Pcs \ StartPcs /\ pc' = pc /\ reply' = reply
    BY <1>0, <1>3 DEF TdlibMoves, QueueInv, AuthStates, Waiting
  <2> QED
    BY <2>1, <2>2, <2>3, BecomesQueue DEF Subscribed
<1>4. CASE Accepted
  <2>1. PICK state \in AcceptedTo(asked.request) : Becomes(state)
    BY <1>4 DEF Accepted
  <2>2. asked.request \in {"Phone", "RequestQr", "Code", "Password", "Email", "EmailCode", "Register"}
    BY <1>4 DEF Accepted, RequestsOf
  <2>3. state \in AuthStates
    BY <2>1, <2>2 DEF AcceptedTo, AuthStates, Waiting
  <2>4. pc = "submit" /\ pc' = "screen" /\ reply' = reply
    BY <1>4 DEF Accepted
  <2> QED
    BY <2>1, <2>3, <2>4, BecomesQueue DEF Subscribed, Pcs, StartPcs
<1>5. CASE LoginStep
  BY <1>5, LoginQueue
<1>6. CASE RunStep \/ UserEditsFile \/ QuitRun \/ LogOut \/ LogOutWait
  <2>1. /\ UNCHANGED <<auth, unread, reply, behind>>
        /\ pc \in {"ready", "load", "run", "logOut", "logOutWait"}
        /\ pc' \in {"load", "run", "logOut", "logOutWait", "close"}
    BY <1>6 DEF RunStep, RunStart, RunLoad, RunSettings, RunWrite, UserEditsFile, QuitRun, LogOut,
                LogOutWait, loginVars, startVars
  <2> QED
    BY <2>1, DeafQueue DEF QueueInv, Subscribed, Pcs, StartPcs
<1>7. CASE LogOutAnswered \/ Close
  <2>1. /\ pc \in {"logOut", "close"} /\ pc' \in {"run", "logOutWait", "closeWait"} /\ reply' = reply
        /\ \/ Becomes("LoggingOut") \/ Becomes("Closing")
           \/ UNCHANGED <<auth, unread, behind>>
    BY <1>7 DEF LogOutAnswered, Close
  <2>2. CASE Becomes("LoggingOut") \/ Becomes("Closing")
    BY <2>1, <2>2, BecomesQueue DEF Subscribed, Pcs, StartPcs, AuthStates
  <2>3. CASE UNCHANGED <<auth, unread, behind>>
    BY <2>1, <2>3, DeafQueue DEF QueueInv, Subscribed, Pcs, StartPcs
  <2> QED
    BY <2>1, <2>2, <2>3
<1>8. CASE CloseWait \/ Dies
  <2>1. ASSUME NEW how, Ends(how)
        PROVE  QueueInv'
    BY <2>1, DeafQueue DEF Ends, Fails, Subscribed, StartPcs
  <2>2. CASE CloseWait /\ UNCHANGED <<pc, auth, unread, reply, behind>>
    BY <2>2, DeafQueue DEF CloseWait, QueueInv, Subscribed, Pcs, StartPcs
  <2> QED
    BY <1>8, <2>1, <2>2 DEF CloseWait, Dies, startVars
<1>9. CASE UNCHANGED vars
  BY <1>9 DEF vars, startVars, loginVars, QueueInv, Subscribed
<1> QED
  BY <1>1, <1>2, <1>3, <1>4, <1>5, <1>6, <1>7, <1>8, <1>9 DEF Next

-----------------------------------------------------------------------------
(* The fields of the login screens.                                        *)

LEMMA AskedTyped ==
  NoRequest.screen \in Screens \cup {""} /\ NoRequest.text \in Texts
BY DEF NoRequest, Texts

\* A screen just shown has empty fields.
LEMMA FreshForm ==
  ASSUME FormInv, NEW screen \in Screens, view' = FreshView(screen), pc' # "submit",
         asked' \in {asked, NoRequest}
  PROVE  FormInv'
<1>1. asked'.screen \in Screens \cup {""} /\ asked'.text \in Texts
  BY AskedTyped DEF FormInv
<1>2. view' \in [screen : Screens, input : Texts, first : Texts, field : {"First", "Last", "Accept"},
                 accepted : BOOLEAN, error : Screens \cup {""}]
  BY DEF FreshView, Texts
<1>3. view'.input = "" /\ view'.first = "" /\ view'.error = ""
  BY DEF FreshView
<1> QED
  BY <1>1, <1>2, <1>3 DEF FormInv, NothingCarriesOver

\* Nothing is typed and no request is made.
LEMMA FormLeftAlone ==
  ASSUME FormInv, UNCHANGED view, asked' \in {asked, NoRequest},
         pc' # "submit" \/ (pc = "submit" /\ UNCHANGED asked)
  PROVE  FormInv'
<1>1. asked'.screen \in Screens \cup {""} /\ asked'.text \in Texts
  BY AskedTyped DEF FormInv
<1> QED
  BY <1>1 DEF FormInv, NothingCarriesOver

LEMMA ShownScreens ==
  ASSUME NEW state \in AuthStates
  PROVE  FromTdlib(state) \in Screens
BY DEF FromTdlib, AuthStates, Screens, Waiting

LEMMA LoginForm ==
  ASSUME KeyInv, QueueInv, FormInv, LoginStep
  PROVE  FormInv'
<1> USE DEF Goes
<1>1. CASE SubscribeLogin
  BY <1>1, FreshForm DEF SubscribeLogin, Screens
<1>2. CASE TerminalFails \/ AnswerPrime \/ QuitLogin
  BY <1>2, FormLeftAlone DEF TerminalFails, AnswerPrime, QuitLogin, loginVars
<1>3. CASE Prime
  <2>1. reply \in AuthStates /\ Show(reply) /\ asked' = asked
    BY <1>3 DEF Prime, QueueInv
  <2> QED
    BY <2>1, ShownScreens, FreshForm DEF Show
<1>4. CASE TakeUpdate
  <2>1. asked' = asked /\ pc = "screen" /\ unread \in Seq(Updates) /\ unread # << >>
    BY <1>4 DEF TakeUpdate, QueueInv, Updates
  <2>2. CASE Head(unread) = "other"
    BY <1>4, <2>1, <2>2, FormLeftAlone DEF TakeUpdate
  <2>3. CASE Head(unread) # "other"
    <3>1. Head(unread) \in AuthStates
      <4>1. Head(unread) \in Updates
        BY <2>1
      <4> QED
        BY <2>3, <4>1 DEF Updates
    <3>2. Show(Head(unread))
      BY <1>4, <2>3 DEF TakeUpdate
    <3> QED
      BY <2>1, <3>1, <3>2, ShownScreens, FreshForm DEF Show
  <2> QED
    BY <2>2, <2>3
<1>5. CASE TypeInput
  BY <1>5 DEF TypeInput, Edited, FormInv, NothingCarriesOver, Texts
<1>6. CASE EditRegister
  <2> USE DEF FormInv, NothingCarriesOver, Texts
  <2>1. CASE view' = [view EXCEPT !.field = NextField[@]]
    <3>1. NextField[view.field] \in {"First", "Last", "Accept"}
      <4>1. view.field \in {"First", "Last", "Accept"}
        OBVIOUS
      <4>2. NextField["First"] = "Last" /\ NextField["Last"] = "Accept" /\ NextField["Accept"] = "First"
        BY DEF NextField
      <4> QED
        BY <4>1, <4>2
    <3> QED
      BY <1>6, <2>1, <3>1 DEF EditRegister
  <2>2. CASE view' = [view EXCEPT !.accepted = ~@]
    BY <1>6, <2>2 DEF EditRegister
  <2>3. CASE \E text \in Edited(view.first) : view' = [view EXCEPT !.first = text]
    BY <1>6, <2>3 DEF EditRegister, Edited
  <2> QED
    BY <1>6, <2>1, <2>2, <2>3 DEF EditRegister
<1>7. CASE SubmitField
  <2>1. PICK request \in RequestsOf(view.screen) \ {"Register"} :
          \/ /\ request # "RequestQr" /\ Filled(view.input)
             /\ asked' = [request |-> request, screen |-> view.screen, text |-> view.input]
             /\ view' = [view EXCEPT !.input = "", !.error = ""]
          \/ /\ request = "RequestQr"
             /\ asked' = [request |-> request, screen |-> view.screen, text |-> ""]
             /\ view' = [view EXCEPT !.error = ""]
    BY <1>7 DEF SubmitField
  <2> QED
    <3>1. view.input \in {"", "blank", view.screen} /\ view.screen \in Screens
      BY DEF FormInv, NothingCarriesOver
    <3>2. asked'.screen = view.screen /\ asked'.text \in {"", view.screen}
      <4>1. CASE request # "RequestQr"
        <5>1. asked' = [request |-> request, screen |-> view.screen, text |-> view.input]
          BY <2>1, <4>1
        <5>2. view.input = view.screen
          BY <2>1, <3>1, <4>1 DEF Filled
        <5> QED
          BY <5>1, <5>2
      <4>2. CASE request = "RequestQr"
        <5>1. asked' = [request |-> request, screen |-> view.screen, text |-> ""]
          BY <2>1, <4>2
        <5> QED
          BY <5>1
      <4> QED
        BY <4>1, <4>2
    <3>3. /\ view' \in [screen : Screens, input : Texts, first : Texts, field : {"First", "Last", "Accept"},
                         accepted : BOOLEAN, error : Screens \cup {""}]
          /\ view'.screen = view.screen /\ view'.input \in {"", view.input}
          /\ view'.first = view.first /\ view'.error = ""
      BY <2>1 DEF FormInv, Texts
    <3> QED
      BY <3>1, <3>2, <3>3 DEF FormInv, NothingCarriesOver, Texts
<1>8. CASE SubmitRegister
  BY <1>8 DEF SubmitRegister, FormInv, NothingCarriesOver, Texts, Filled
<1>9. CASE Rejected
  BY <1>9 DEF Rejected, FormInv, NothingCarriesOver, Texts, NoRequest
<1> QED
  BY <1>1, <1>2, <1>3, <1>4, <1>5, <1>6, <1>7, <1>8, <1>9 DEF LoginStep

LEMMA FormStep ==
  ASSUME KeyInv, QueueInv, FormInv, [Next]_vars
  PROVE  FormInv'
<1> USE DEF Goes, Fails
<1>1. CASE StartUp
  <2>1. UNCHANGED <<view, asked>> /\ pc' # "submit"
    BY <1>1 DEF StartUp, StartStep, Launch, ResolveCredentials, Onboard, PersistConfig, KeyFromRing,
                WriteKey, SetParameters, KeyFromFile, KeyringChanges, RemoveCutKey
  <2> QED
    BY <2>1, FormLeftAlone
<1>2. CASE Noise \/ TdlibMoves
  BY <1>2, FormLeftAlone DEF Noise, TdlibMoves, startVars
<1>3. CASE LoginStep
  BY <1>3, LoginForm
<1>4. CASE Accepted
  BY <1>4, FormLeftAlone DEF Accepted
<1>5. CASE RunStep \/ UserEditsFile \/ QuitRun \/ LogOut
  BY <1>5, FormLeftAlone DEF RunStep, RunStart, RunLoad, RunSettings, RunWrite, UserEditsFile, QuitRun,
                             LogOut, loginVars, startVars
<1>6. CASE LogOutAnswered \/ LogOutWait \/ Close
  BY <1>6, FormLeftAlone DEF LogOutAnswered, LogOutWait, Close
<1>7. CASE CloseWait \/ Dies
  <2>1. ASSUME NEW how, Ends(how)
        PROVE  FormInv'
    BY <2>1, FreshForm DEF Ends, Screens
  <2>2. CASE CloseWait /\ UNCHANGED <<pc, view, asked>>
    BY <2>2, FormLeftAlone DEF CloseWait
  <2> QED
    BY <1>7, <2>1, <2>2 DEF CloseWait, Dies, startVars
<1>8. CASE UNCHANGED vars
  BY <1>8, FormLeftAlone DEF vars, startVars, loginVars
<1> QED
  BY <1>1, <1>2, <1>3, <1>4, <1>5, <1>6, <1>7, <1>8 DEF Next

-----------------------------------------------------------------------------
(* What a process leaves behind.                                           *)

\* The session in the database after a change of TDLib's state.
LEMMA BecomesEnd ==
  ASSUME EndInv, NEW state \in AuthStates, Becomes(state),
         auth = "LoggingOut" => state \in {"LoggingOut", "Closed"},
         polls' \in 0 .. WaitPolls, UNCHANGED <<ended, midWrite, stranded>>, pc' = "off" => pc = "off"
  PROVE  EndInv'
BY DEF EndInv, Becomes

LEMMA EndStep ==
  ASSUME KeyInv, QueueInv, EndInv, [Next]_vars
  PROVE  EndInv'
<1> USE DEF Goes
<1>0. pc \in Pcs
  BY DEF KeyInv
<1>1. CASE StartUp
  <2>1. pc \in StartPcs
    BY <1>1 DEF StartUp, StartStep, Launch, ResolveCredentials, Onboard, PersistConfig, KeyFromRing,
                WriteKey, SetParameters, KeyFromFile, KeyringChanges, RemoveCutKey, StartPcs
  <2>2. auth = "none"
    BY <2>1 DEF QueueInv
  <2> QED
    BY <1>1, <2>2 DEF StartUp, EndInv
<1>2. CASE Noise
  BY <1>2 DEF Noise, EndInv, startVars
<1>3. CASE TdlibMoves
  <2>1. PICK state \in MovesTo(auth) : Becomes(state)
    BY <1>3 DEF TdlibMoves
  <2>2. state \in AuthStates /\ (auth = "LoggingOut" => state = "Closed")
    BY <1>3, <2>1 DEF TdlibMoves, MovesTo, AuthStates, Waiting
  <2> QED
    BY <1>3, <2>1, <2>2, BecomesEnd DEF TdlibMoves, EndInv
<1>4. CASE Accepted
  <2>1. PICK state \in AcceptedTo(asked.request) : Becomes(state)
    BY <1>4 DEF Accepted
  <2>2. asked.request \in {"Phone", "RequestQr", "Code", "Password", "Email", "EmailCode", "Register"}
        /\ auth # "LoggingOut"
    BY <1>4 DEF Accepted, RequestsOf
  <2>3. state \in AuthStates
    BY <2>1, <2>2 DEF AcceptedTo, AuthStates, Waiting
  <2> QED
    BY <1>4, <2>1, <2>2, <2>3, BecomesEnd DEF Accepted, EndInv
<1>5. CASE LoginStep
  <2>1. UNCHANGED <<auth, account, polls, ended, midWrite, stranded>> /\ pc' # "off"
    BY <1>5 DEF LoginStep, SubscribeLogin, TerminalFails, AnswerPrime, Prime, TakeUpdate, TypeInput,
                EditRegister, SubmitField, SubmitRegister, Rejected, QuitLogin, Show, loginVars
  <2> QED
    BY <2>1 DEF EndInv
<1>6. CASE RunStep \/ UserEditsFile \/ QuitRun \/ LogOut
  <2>1. UNCHANGED <<auth, account, polls, ended, midWrite, stranded>> /\ pc' # "off"
    BY <1>6 DEF RunStep, RunStart, RunLoad, RunSettings, RunWrite, UserEditsFile, QuitRun, LogOut,
                loginVars, startVars
  <2> QED
    BY <2>1 DEF EndInv
<1>7. CASE LogOutAnswered
  <2>1. CASE auth = "Ready" /\ Becomes("LoggingOut") /\ polls' = WaitPolls
    BY <1>7, <2>1, BecomesEnd DEF LogOutAnswered, AuthStates
  <2>2. CASE UNCHANGED <<auth, account, polls>>
    BY <1>7, <2>2 DEF LogOutAnswered, EndInv
  <2> QED
    BY <1>7, <2>1, <2>2 DEF LogOutAnswered
<1>8. CASE LogOutWait
  BY <1>8 DEF LogOutWait, EndInv, PollsOut
<1>9. CASE Close
  <2>1. CASE auth \notin {"LoggingOut", "Closing", "Closed"} /\ Becomes("Closing")
    BY <1>9, <2>1, BecomesEnd DEF Close, AuthStates
  <2>2. CASE UNCHANGED <<auth, account>>
    BY <1>9, <2>2 DEF Close, EndInv
  <2> QED
    BY <1>9, <2>1, <2>2 DEF Close
<1>10. ASSUME NEW how \in {"gaveUp", "closed", "died"}, Ends(how), how = "closed" => auth = "Closed"
       PROVE  EndInv'
  <2>1. /\ ended' = how /\ account' = account /\ auth' = "none" /\ polls' = 0
        /\ midWrite' = (auth # "Closed")
        /\ stranded' = (account = "clearing" /\ (stranded \/ how # "closed"))
    BY <1>10 DEF Ends
  <2>2. {midWrite', stranded'} \subseteq BOOLEAN
    BY <2>1
  <2>3. how = "closed" => ~midWrite'
    BY <1>10, <2>1
  <2>4. account = "clearing" => stranded'
    <3>1. account = "clearing" => stranded \/ how # "closed"
      BY <1>10 DEF EndInv
    <3> QED
      BY <2>1, <3>1
  <2> QED
    BY <2>1, <2>2, <2>3, <2>4 DEF EndInv
<1>11. CASE CloseWait
  <2>1. CASE PollsOut /\ Ends(IF polls = 0 /\ auth # "Closed" THEN "gaveUp" ELSE "closed")
    BY <1>10, <2>1 DEF PollsOut
  <2>2. CASE ~PollsOut /\ polls' = polls - 1
    BY <1>11, <2>2 DEF CloseWait, EndInv, PollsOut, startVars
  <2> QED
    BY <1>11, <2>1, <2>2 DEF CloseWait
<1>12. CASE Dies
  BY <1>10, <1>12 DEF Dies
<1>13. CASE UNCHANGED vars
  BY <1>13 DEF vars, startVars, loginVars, EndInv
<1> QED
  BY <1>1, <1>2, <1>3, <1>4, <1>5, <1>6, <1>7, <1>8, <1>9, <1>11, <1>12, <1>13 DEF Next

-----------------------------------------------------------------------------
(* What holds of every run.                                                *)

LEMMA InitIInv == Init => IInv
<1> SUFFICES ASSUME Init
             PROVE  IInv
  OBVIOUS
<1>1. KeyInv
  <2>1. /\ pc = "off" /\ starts = 0 /\ config = "absent" /\ keyring = NoKey /\ keyfile = NoKey
        /\ keyringUp \in BOOLEAN /\ minted = 0 /\ held = NoKey /\ dbKey = NoKey /\ bornUp = FALSE
    BY DEF Init, StartInit
  <2>2. StartTypeOK
    <3>1. bornUp \in BOOLEAN /\ keyringUp \in BOOLEAN
      BY <2>1
    <3>2. starts \in 0 .. MaxStarts /\ minted \in 0 .. starts
      BY <2>1
    <3> QED
      BY <2>1, <3>1, <3>2 DEF StartTypeOK
  <2> QED
    BY <2>1, <2>2 DEF KeyInv, Pcs, StartPcs, Resolving
<1>2. SettingsInv
  BY DEF Init, StartInit, SettingsInit, SettingsInv, SettingsTypeOK, Absent, Default, Contents, Idle
<1>3. QueueInv
  <2>1. pc = "off" /\ auth = "none" /\ unread = << >> /\ reply = NoReply /\ behind = FALSE
    BY DEF Init, StartInit
  <2>2. unread \in Seq(AuthStates \cup {"other"}) /\ Len(unread) <= Capacity
    BY <2>1
  <2> QED
    BY <2>1, <2>2 DEF QueueInv, StartPcs, Subscribed
<1>4. FormInv
  <2>1. view = FreshView("WaitTdlibParameters") /\ asked = NoRequest /\ pc = "off"
    BY DEF Init, StartInit
  <2> QED
    BY <2>1, AskedTyped DEF FormInv, FreshView, NothingCarriesOver, Screens, Texts
<1>5. EndInv
  <2>1. account = "none" /\ polls = 0 /\ ended = "new" /\ midWrite = FALSE /\ stranded = FALSE
    BY DEF Init
  <2>2. {midWrite, stranded} \subseteq BOOLEAN
    BY <2>1
  <2> QED
    BY <2>1, <2>2 DEF EndInv
<1> QED
  BY <1>1, <1>2, <1>3, <1>4, <1>5 DEF IInv

\* The inductive invariant holds of every run of the program.
THEOREM LifecycleInductive == Spec => []IInv
<1>1. IInv /\ [Next]_vars => IInv'
  BY KeyStep, SettingsStep, QueueStep, FormStep, EndStep DEF IInv
<1> QED
  BY InitIInv, <1>1, PTL DEF Spec

LEMMA InvariantParts ==
  ASSUME IInv
  PROVE  KeyKept /\ RunAppliesFile /\ ScreenFollows /\ CleanExitIsWhole
<1> USE DEF IInv
<1>1. KeyKept
  <2>1. TypeOK
    <3>1. polls \in 0 .. WaitPolls /\ account \in {"none", "in", "clearing"}
      BY DEF EndInv
    <3> QED
      BY <3>1 DEF TypeOK, KeyInv, SettingsInv, QueueInv, FormInv, EndInv
  <2>2. DatabaseKeyKept /\ KeyFitsWhileReachable
    BY DEF KeyInv, DatabaseKeyKept, KeyFitsWhileReachable
  <2> QED
    BY <2>1, <2>2 DEF KeyKept
<1>2. RunAppliesFile
  BY DEF SettingsInv, RunAppliesFile, AppliedIsSaved, Loaded
<1>3. ScreenFollows
  BY DEF QueueInv, FormInv, ScreenFollows, Subscribed
<1>4. CleanExitIsWhole
  BY DEF QueueInv, EndInv, CleanExitIsWhole, StartPcs
<1> QED
  BY <1>1, <1>2, <1>3, <1>4

\* Whichever stores of keys are reachable and wherever a start dies, the database's key is
\* never lost; the settings file loses neither section to a save, and the run goes by it.
THEOREM FilesKeptHolds == Spec => FilesKept
<1>1. IInv => KeyKept /\ RunAppliesFile
  BY InvariantParts
<1>2. IInv /\ [Next]_vars =>
        [writing = Idle /\ writing' # Idle /\ file.kind = "good" =>
           \/ writing'.says.graphics = file.says.graphics
           \/ writing'.says.policy = file.says.policy]_settingsVars
  BY OtherSectionStep DEF IInv
<1> QED
  BY LifecycleInductive, <1>1, <1>2, PTL DEF Spec, FilesKept, SettingsKept, OtherSectionKept

\* With nothing left to read the login screen is TDLib's, unless the queue lost the last
\* change; nothing typed on one screen is on the next, for a queue of any capacity.
THEOREM ScreenFollowsHolds == Spec => []ScreenFollows
BY LifecycleInductive, InvariantParts, PTL

\* Only a process that died or gave up waiting leaves a logout half done, and only one whose
\* shutdown was not seen to the end leaves the database unflushed.
THEOREM CleanExitIsWholeHolds == Spec => []CleanExitIsWhole
BY LifecycleInductive, InvariantParts, PTL

=============================================================================
