----------------------------- MODULE Lifecycle -----------------------------
(***************************************************************************)
(* The life of the program around the run loop: start (Startup), the login *)
(* screens (login.rs), the run with its settings (SettingsFile), logout    *)
(* and the clean close (auth.rs, run_app and drive_logout in lib.rs), and  *)
(* the next start.  TDLib's authorization state moves by answers to        *)
(* requests, by itself, and from another device; each move is an update in *)
(* the feed.  The login loop subscribes to that feed, asks once for the    *)
(* state, and then follows the updates; its stream skips what it lost.     *)
(***************************************************************************)
EXTENDS Startup, SettingsFile, Sequences

CONSTANTS
  Capacity,   \* UPDATE_BUFFER
  WaitPolls   \* WAIT_CLOSED_POLLS

ASSUME CapacityAssumption == Capacity \in Nat \ {0}
ASSUME WaitPollsAssumption == WaitPolls \in Nat \ {0}

VARIABLES
  auth,       \* TDLib's authorization state; "none" without a client
  account,    \* the session in the database: "none", "in", or "clearing"
  unread,     \* the updates the login loop's subscription has for it
  view,       \* the LoginView
  asked,      \* the request the login loop awaits: what it is, for which screen
  reply,      \* TDLib's answer to the authorization_state of the start
  polls,      \* the polls for Closed that are left
  \* Ghosts.
  behind,     \* the last authorization update was skipped by the login's stream
  ended,      \* how the last process ended: "new", "closed", "gaveUp", "failed", "died"
  midWrite,   \* the last process left TDLib's database before it was closed
  stranded    \* a process died or gave up waiting while a logout was under way

loginVars == <<auth, account, unread, view, asked, reply, polls, behind, ended,
              midWrite, stranded>>
vars == <<startVars, settingsVars, loginVars>>

-----------------------------------------------------------------------------
(* TDLib's authorization states, and AuthState, their projection.          *)

Waiting ==
  {"WaitPhoneNumber", "WaitCode", "WaitPassword", "WaitOtherDeviceConfirmation",
   "WaitRegistration", "WaitEmailAddress", "WaitEmailCode", "WaitPremiumPurchase"}
AuthStates ==
  Waiting \cup {"WaitTdlibParameters", "Ready", "LoggingOut", "Closing", "Closed"}
Screens == Waiting \cup {"WaitTdlibParameters", "Ready", "Closed"}

\* AuthState::from_tdlib.
FromTdlib(state) == IF state \in {"LoggingOut", "Closing"} THEN "Closed" ELSE state

\* terminal_end.
Terminal(screen) == screen \in {"Ready", "Closed"}

\* submit_answer: the requests a screen can make.
RequestsOf(screen) ==
  CASE screen = "WaitPhoneNumber" -> {"Phone", "RequestQr"}
    [] screen = "WaitCode" -> {"Code"}
    [] screen = "WaitPassword" -> {"Password"}
    [] screen = "WaitEmailAddress" -> {"Email"}
    [] screen = "WaitEmailCode" -> {"EmailCode"}
    [] screen = "WaitRegistration" -> {"Register"}
    [] OTHER -> {}

\* Where TDLib goes when it accepts a request.
AcceptedTo(request) ==
  CASE request = "Phone" -> {"WaitCode", "WaitEmailAddress", "WaitPremiumPurchase"}
    [] request = "RequestQr" -> {"WaitOtherDeviceConfirmation"}
    [] request = "Email" -> {"WaitEmailCode"}
    [] request = "EmailCode" -> {"WaitCode"}
    [] request = "Code" -> {"WaitRegistration", "WaitPassword", "Ready"}
    [] request \in {"Register", "Password"} -> {"Ready"}

\* Where TDLib goes by itself: after its parameters by the session it finds, when
\* the other device confirms, when the session is revoked elsewhere, and to the
\* end of a logout or a close.
MovesTo(state) ==
  CASE state = "WaitTdlibParameters" ->
         {CASE account = "in" -> "Ready"
            [] account = "clearing" -> "LoggingOut"
            [] OTHER -> "WaitPhoneNumber"}
    [] state = "WaitOtherDeviceConfirmation" ->
         {"WaitOtherDeviceConfirmation", "WaitPassword", "Ready"}
    [] state = "Ready" -> {"LoggingOut"}
    [] state \in {"LoggingOut", "Closing"} -> {"Closed"}
    [] OTHER -> {}

-----------------------------------------------------------------------------
(* The view.  What is in a field is named after the screen it was typed    *)
(* on; "blank" is text of spaces only.                                     *)

FreshView(screen) ==
  [screen |-> screen, input |-> "", first |-> "", field |-> "First",
   accepted |-> FALSE, error |-> ""]

Texts == Screens \cup {"", "blank"}
NoRequest == [request |-> "", screen |-> "", text |-> ""]
NoReply == "none"

Pcs == StartPcs \cup
  {"subscribe", "prime", "screen", "submit", "ready", "load", "run",
   "logOut", "logOutWait", "close", "closeWait"}

TypeOK ==
  /\ StartTypeOK /\ SettingsTypeOK
  /\ pc \in Pcs
  /\ auth \in AuthStates \cup {"none"}
  /\ account \in {"none", "in", "clearing"}
  /\ unread \in Seq(AuthStates \cup {"other"}) /\ Len(unread) <= Capacity
  /\ view \in [screen : Screens, input : Texts, first : Texts,
               field : {"First", "Last", "Accept"}, accepted : BOOLEAN,
               error : Screens \cup {""}]
  /\ asked.screen \in Screens \cup {""} /\ asked.text \in Texts
  /\ reply \in AuthStates \cup {NoReply}
  /\ polls \in 0 .. WaitPolls
  /\ behind \in BOOLEAN
  /\ ended \in {"new", "closed", "gaveUp", "failed", "died"} /\ {midWrite, stranded} \subseteq BOOLEAN

Init ==
  /\ StartInit /\ SettingsInit
  /\ auth = "none" /\ account = "none"
  /\ unread = << >> /\ view = FreshView("WaitTdlibParameters")
  /\ asked = NoRequest /\ reply = NoReply /\ polls = 0
  /\ behind = FALSE /\ ended = "new" /\ midWrite = FALSE /\ stranded = FALSE

-----------------------------------------------------------------------------
(* TDLib.                                                                  *)

\* Mutant: the subscription is made after the question about the state.
SubscribedLate == pc \in {"screen", "submit"}

\* The login loop has its subscription from before its first question until
\* run_login returns.
Subscribed == pc \in {"prime", "screen", "submit"}

\* Mutant: the channel forgets nothing.
SentUnbounded(update) == IF ~Subscribed THEN << >> ELSE Append(unread, update)

\* Receive thread and channel: a full channel forgets its oldest update.
Sent(update) ==
  IF ~Subscribed THEN << >>
  ELSE Append(IF Len(unread) = Capacity THEN Tail(unread) ELSE unread, update)

\* The update that brought the present state is not among those to be read.
Skips(queue) ==
  \A i \in 1 .. Len(queue) : queue[i] = "other"

Noise ==
  /\ Subscribed
  /\ unread' = Sent("other")
  /\ behind' = (behind \/ (~Skips(unread) /\ Skips(unread')))
  /\ UNCHANGED <<startVars, settingsVars, auth, account, view, asked, reply, polls, ended, midWrite, stranded>>

\* TDLib is in a new state: the session in the database follows, and a logout that
\* is complete has destroyed the database.
Becomes(state) ==
  /\ auth' = state
  /\ unread' = Sent(state)
  /\ account' = CASE state = "Ready" -> "in"
                  [] state = "LoggingOut" -> "clearing"
                  [] state = "Closed" /\ auth = "LoggingOut" -> "none"
                  [] OTHER -> account
  /\ dbKey' = IF state = "Closed" /\ auth = "LoggingOut" THEN NoKey ELSE dbKey
  /\ behind' = FALSE

TdlibMoves ==
  /\ auth \in AuthStates
  /\ \E state \in MovesTo(auth) : Becomes(state)
  /\ UNCHANGED <<pc, starts, config, keyring, keyringUp, keyfile, minted, held, bornUp,
                 settingsVars, view, asked, reply, polls, ended, midWrite, stranded>>

-----------------------------------------------------------------------------
(* The login loop.                                                         *)

\* Bridge::new is in SetParameters' step of Startup; run_login subscribes first.
\* The terminal may refuse to be initialized: then straight to the shutdown.
SubscribeLogin ==
  /\ pc = "subscribe"
  /\ Goes("prime")
  /\ view' = FreshView("WaitTdlibParameters")
  /\ UNCHANGED <<auth, account, unread, asked, reply, polls, behind, ended, midWrite, stranded>>

TerminalFails ==
  /\ pc = "subscribe"
  /\ Goes("close")
  /\ UNCHANGED loginVars

\* authorization_state of the start: TDLib answers with its state of that moment.
AnswerPrime ==
  /\ pc = "prime" /\ reply = NoReply
  /\ reply' = auth /\ behind' = FALSE
  /\ UNCHANGED <<pc, auth, account, unread, view, asked, polls, ended, midWrite, stranded>>

\* Mutant: the fields are left as they are.
ShowOverFields(state) ==
  /\ view' = [view EXCEPT !.screen = FromTdlib(state)]
  /\ Goes(CASE FromTdlib(state) = "Ready" -> "ready"
            [] FromTdlib(state) = "Closed" -> "close"
            [] OTHER -> "screen")

\* What set_state and terminal_end do with a state: show its screen with empty
\* fields, or leave the loop, which drops the subscription.
Show(state) ==
  /\ view' = FreshView(FromTdlib(state))
  /\ Goes(CASE FromTdlib(state) = "Ready" -> "ready"
            [] FromTdlib(state) = "Closed" -> "close"
            [] OTHER -> "screen")

\* Mutant: a state that is terminal from the start is shown and waited on.
PrimeOntoScreen ==
  /\ pc = "prime" /\ reply # NoReply
  /\ view' = FreshView(FromTdlib(reply)) /\ Goes("screen")
  /\ reply' = NoReply
  /\ UNCHANGED <<auth, account, unread, asked, polls, behind, ended, midWrite, stranded>>

Prime ==
  /\ pc = "prime" /\ reply # NoReply
  /\ Show(reply)
  /\ reply' = NoReply
  /\ unread' = IF Terminal(FromTdlib(reply)) THEN << >> ELSE unread
  /\ UNCHANGED <<auth, account, asked, polls, behind, ended, midWrite, stranded>>

\* The update arm of the loop: an authorization update swaps the screen.
TakeUpdate ==
  /\ pc = "screen" /\ unread # << >>
  /\ LET update == Head(unread) IN
       IF update = "other"
       THEN unread' = Tail(unread) /\ UNCHANGED <<pc, view>>
       ELSE /\ Show(update)
            /\ unread' = IF Terminal(FromTdlib(update)) THEN << >> ELSE Tail(unread)
  /\ UNCHANGED <<auth, account, asked, reply, polls, behind, ended, midWrite, stranded>>

\* edit_field: whatever is left in the field, or typed into it.
Edited(old) == {old, "", "blank", view.screen}
Filled(text) == text \notin {"", "blank"}

TypeInput ==
  /\ pc = "screen" /\ RequestsOf(view.screen) # {} /\ view.screen # "WaitRegistration"
  /\ \E text \in Edited(view.input) : view' = [view EXCEPT !.input = text]
  /\ UNCHANGED <<pc, auth, account, unread, asked, reply, polls, behind, ended, midWrite, stranded>>

\* on_register_key: Tab, Space on the checkbox, and text in the first name (the
\* last name is optional and decides nothing).
NextField == [First |-> "Last", Last |-> "Accept", Accept |-> "First"]
EditRegister ==
  /\ pc = "screen" /\ view.screen = "WaitRegistration"
  /\ \/ view' = [view EXCEPT !.field = NextField[@]]
     \/ view.field = "Accept" /\ view' = [view EXCEPT !.accepted = ~@]
     \/ /\ view.field = "First"
        /\ \E text \in Edited(view.first) : view' = [view EXCEPT !.first = text]
  /\ UNCHANGED <<pc, auth, account, unread, asked, reply, polls, behind, ended, midWrite, stranded>>

\* edit_single and on_phone_key: Enter takes the text out of a field that is not
\* blank; Tab on the phone screen asks for a QR code.
SubmitField ==
  /\ pc = "screen"
  /\ \E request \in RequestsOf(view.screen) \ {"Register"} :
       \/ /\ request # "RequestQr" /\ Filled(view.input)
          /\ asked' = [request |-> request, screen |-> view.screen, text |-> view.input]
          /\ view' = [view EXCEPT !.input = "", !.error = ""]
       \/ /\ request = "RequestQr"
          /\ asked' = [request |-> request, screen |-> view.screen, text |-> ""]
          /\ view' = [view EXCEPT !.error = ""]
  /\ Goes("submit")
  /\ UNCHANGED <<auth, account, unread, reply, polls, behind, ended, midWrite, stranded>>

SubmitRegister ==
  /\ pc = "screen" /\ view.screen = "WaitRegistration"
  /\ view.accepted /\ Filled(view.first)
  /\ asked' = [request |-> "Register", screen |-> view.screen, text |-> view.first]
  /\ view' = [view EXCEPT !.first = "", !.error = ""]
  /\ Goes("submit")
  /\ UNCHANGED <<auth, account, unread, reply, polls, behind, ended, midWrite, stranded>>

\* The awaited request: TDLib takes it only in the state it is for, and may reject
\* it there.  A rejection is shown under the field; no update comes with it.
Accepted ==
  /\ pc = "submit" /\ asked.request \in RequestsOf(auth)
  /\ \E state \in AcceptedTo(asked.request) : Becomes(state)
  /\ asked' = NoRequest /\ Goes("screen")
  /\ UNCHANGED <<starts, config, keyring, keyringUp, keyfile, minted, held, bornUp,
                 settingsVars, view, reply, polls, ended, midWrite, stranded>>

Rejected ==
  /\ pc = "submit"
  /\ view' = [view EXCEPT !.error = asked.screen]
  /\ asked' = NoRequest /\ Goes("screen")
  /\ UNCHANGED <<auth, account, unread, reply, polls, behind, ended, midWrite, stranded>>

\* Ctrl-C, a closed stdin, or a draw that fails.
QuitLogin ==
  /\ pc = "screen"
  /\ Goes("close") /\ unread' = << >>
  /\ UNCHANGED <<auth, account, view, asked, reply, polls, behind, ended, midWrite, stranded>>

LoginStep ==
  /\ \/ SubscribeLogin \/ TerminalFails \/ AnswerPrime \/ Prime \/ TakeUpdate
     \/ TypeInput \/ EditRegister \/ SubmitField \/ SubmitRegister
     \/ Rejected \/ QuitLogin
  /\ UNCHANGED <<starts, config, keyring, keyringUp, keyfile, minted, held, dbKey, bornUp,
                 settingsVars>>

-----------------------------------------------------------------------------
(* The run, its settings and its end.                                      *)

RunStart ==
  /\ pc = "ready" /\ Goes("load")
  /\ EnsureDefaultFile \/ UNCHANGED settingsVars

RunLoad == pc = "load" /\ LoadSettings /\ Goes("run")

RunSettings ==
  /\ pc = "run" /\ UNCHANGED pc
  /\ \/ \E policy \in Policies : SavePolicy(policy)
     \/ \E on \in BOOLEAN : SaveGraphics(on)

RunWrite == pc \in {"load", "run"} /\ UNCHANGED pc /\ (FinishWrite \/ WriteFails)

RunStep ==
  /\ RunStart \/ RunLoad \/ RunSettings \/ RunWrite
  /\ UNCHANGED <<starts, config, keyring, keyringUp, keyfile, minted, held, dbKey, bornUp,
                 loginVars>>

\* The user edits the file beside the program (an edit between two runs has the
\* same effect on the next one).
UserEditsFile ==
  /\ pc = "run"
  /\ \E f \in Edits : HandEdit(f)
  /\ UNCHANGED <<startVars, loginVars>>

\* should_quit, or the terminal fails: the loop returns and shutdown begins.
QuitRun ==
  /\ pc = "run" /\ writing = Idle
  /\ Goes("close")
  /\ UNCHANGED <<starts, config, keyring, keyringUp, keyfile, minted, held, dbKey, bornUp,
                 settingsVars, loginVars>>

\* drive_logout: the loop awaits log_out, which TDLib acknowledges or refuses.
LogOut ==
  /\ pc = "run" /\ writing = Idle
  /\ Goes("logOut")
  /\ UNCHANGED <<starts, config, keyring, keyringUp, keyfile, minted, held, dbKey, bornUp,
                 settingsVars, loginVars>>

LogOutAnswered ==
  /\ pc = "logOut"
  /\ \/ /\ auth = "Ready" /\ Becomes("LoggingOut")
        /\ Goes("logOutWait") /\ polls' = WaitPolls
     \/ Goes("run") /\ UNCHANGED <<auth, account, unread, dbKey, behind, polls>>
  /\ UNCHANGED <<starts, config, keyring, keyringUp, keyfile, minted, held, bornUp,
                 settingsVars, view, asked, reply, ended, midWrite, stranded>>

\* Mutant: the request's acknowledgement is taken for its end.
PollsOutAtOnce == TRUE

\* wait_until_closed, one poll: Closed, or no client to ask, ends the wait.
PollsOut == polls = 0 \/ auth = "Closed"

\* Mutant: the wait has no bound.
LogOutWaitUnbounded ==
  /\ pc = "logOutWait" /\ auth = "Closed"
  /\ Goes("close")
  /\ UNCHANGED <<starts, config, keyring, keyringUp, keyfile, minted, held, dbKey, bornUp,
                 settingsVars, auth, account, unread, view, asked, reply, polls, behind,
                 ended, midWrite, stranded>>

LogOutWait ==
  /\ pc = "logOutWait"
  /\ \/ PollsOut /\ Goes("close") /\ UNCHANGED polls
     \/ ~PollsOut /\ polls' = polls - 1 /\ UNCHANGED pc
  /\ UNCHANGED <<starts, config, keyring, keyringUp, keyfile, minted, held, dbKey, bornUp,
                 settingsVars, auth, account, unread, view, asked, reply, behind, ended, midWrite, stranded>>

\* shutdown: close, whose answer is ignored, then the same wait.
Close ==
  /\ pc = "close"
  /\ Goes("closeWait") /\ polls' = WaitPolls
  /\ \/ auth \notin {"LoggingOut", "Closing", "Closed"} /\ Becomes("Closing")
     \/ UNCHANGED <<auth, account, unread, dbKey, behind>>
  /\ UNCHANGED <<starts, config, keyring, keyringUp, keyfile, minted, held, bornUp,
                 settingsVars, view, asked, reply, ended, midWrite, stranded>>

\* The process is gone, and TDLib and all that was in memory with it.
Ends(how) ==
  /\ Fails /\ SettingsEnd
  /\ ended' = how /\ midWrite' = (auth # "Closed")
  /\ stranded' = (account = "clearing" /\ (stranded \/ how # "closed"))
  /\ auth' = "none" /\ unread' = << >> /\ view' = FreshView("WaitTdlibParameters")
  /\ asked' = NoRequest /\ reply' = NoReply /\ polls' = 0 /\ behind' = FALSE
  /\ UNCHANGED <<starts, config, keyring, keyringUp, keyfile, minted, dbKey, bornUp, account>>

CloseWait ==
  /\ pc = "closeWait"
  /\ \/ PollsOut /\ Ends(IF polls = 0 /\ auth # "Closed" THEN "gaveUp" ELSE "closed")
     \/ /\ ~PollsOut /\ polls' = polls - 1
        /\ UNCHANGED <<startVars, settingsVars, auth, account, unread, view, asked, reply,
                       behind, ended, midWrite, stranded>>

\* Killed, or the machine went down, anywhere.
Dies == pc # "off" /\ Ends("died")

\* A step of Startup; a client exists from its end on.
StartUp ==
  /\ StartStep
  /\ auth' = CASE pc' = "subscribe" -> "WaitTdlibParameters" [] OTHER -> "none"
  /\ ended' = CASE pc # "off" /\ pc' = "off" -> "failed"
                [] pc = "off" /\ pc' # "off" -> "new"
                [] OTHER -> ended
  /\ midWrite' = (midWrite /\ pc' = "off")
  /\ UNCHANGED <<settingsVars, account, unread, view, asked, reply, polls, behind, stranded>>

Next ==
  \/ StartUp
  \/ Noise \/ TdlibMoves
  \/ LoginStep \/ Accepted
  \/ RunStep \/ UserEditsFile \/ QuitRun
  \/ LogOut \/ LogOutAnswered \/ LogOutWait
  \/ Close \/ CloseWait
  \/ Dies

Spec == Init /\ [][Next]_vars

\* The process runs on: its own steps and the answers it awaits.  select! takes a
\* ready arm at random, so the update arm is taken some time if it is ready again
\* and again.  Nothing makes TDLib finish a logout or a close, or the user type.
Unasked ==
  \/ StartUp /\ pc # "off"
  \/ LoginStep /\ pc \in {"subscribe", "prime", "submit"}
  \/ Accepted
  \/ RunStep /\ (pc \in {"ready", "load"} \/ writing # Idle)
  \/ LogOutAnswered \/ LogOutWait \/ Close \/ CloseWait

FairSpec ==
  /\ Spec
  /\ WF_vars(Unasked)
  /\ SF_vars(LoginStep /\ pc = "screen" /\ TakeUpdate)

-----------------------------------------------------------------------------
\* Whatever start dies in between and whichever store of keys is reachable, the key
\* of an existing database is kept, and offered when it can be; and all that the
\* process holds in memory and on disk is well typed.
KeyKept ==
  /\ TypeOK
  /\ DatabaseKeyKept
  /\ KeyFitsWhileReachable

\* What is in a field was typed on the screen that is shown, a rejection shown is
\* of this screen's request, and a request on its way carries text typed on its own
\* screen: no secret of one screen gets into the next.
NothingCarriesOver ==
  /\ view.input \in {"", "blank", view.screen}
  /\ view.first \in {"", "blank", view.screen}
  /\ view.error \in {"", view.screen}
  /\ pc = "submit" => asked.screen = view.screen /\ asked.text \in {"", asked.screen}

\* With nothing left to read the login screen is the projection of TDLib's state,
\* unless the last change was among what the lagging stream skipped: the
\* subscription and the question at the start leave no gap between them.  Nothing
\* typed or refused on one screen is there on the next.
ScreenFollows ==
  /\ pc = "screen" /\ Skips(unread) /\ ~behind => view.screen = FromTdlib(auth)
  /\ NothingCarriesOver

\* A process whose shutdown was not given up has left the database flushed, and a
\* logout is left half done only by a process that died or gave up waiting for it,
\* whichever way it came to the shutdown.
CleanExitIsWhole ==
  pc = "off" =>
    /\ ended = "closed" => ~midWrite
    /\ account = "clearing" => stranded

\* The settings in effect are those of the file while the loop waits.
RunAppliesFile == pc = "run" => AppliedIsSaved

\* The settings file is shared without loss: a save of one section carries over the
\* other as it was in the file, and what is saved is what the loop goes by.
SettingsKept == OtherSectionKept /\ []RunAppliesFile

\* What is on disk is kept: the key of the database, and each section of the settings.
FilesKept == []KeyKept /\ SettingsKept

\* A logout and the shutdown come to an end although TDLib may never close: the
\* program exits, or is back in the run after a refused logout.
ExitEnds ==
  pc \in {"logOut", "logOutWait", "close", "closeWait"} ~> pc \in {"off", "run"}

\* A login that TDLib has completed ends the login screens, unless the update was
\* skipped or the session is taken away again.
LoginEnds ==
  pc \in {"prime", "screen", "submit"} /\ auth = "Ready"
    ~> pc \notin {"prime", "screen", "submit"} \/ behind \/ auth # "Ready"

\* The program waits for TDLib without end neither at the login nor at the exit.
WaitsEnd == ExitEnds /\ LoginEnds

=============================================================================
