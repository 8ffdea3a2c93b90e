------------------------------ MODULE Startup ------------------------------
(***************************************************************************)
(* What a start of the program does before the terminal is touched         *)
(* (bootstrap.rs): resolve the API credentials (credentials.rs), resolve   *)
(* the key of TDLib's database from the keyring or, where none is          *)
(* reachable, from a file (session.rs), and hand the key to TDLib.  Files  *)
(* outlive the process, which may die between any two steps; whether a     *)
(* keyring is reachable may change from one start to the next.             *)
(*                                                                         *)
(* A key is its number in the order generated.                             *)
(***************************************************************************)
EXTENDS Naturals

CONSTANTS MaxStarts   \* bound: how many times the program is started

ASSUME MaxStartsAssumption == MaxStarts \in Nat \ {0}

VARIABLES
  pc,          \* where the process is; "off" when it does not run
  starts,      \* how many times it was started
  config,      \* config.toml: "absent", "cut" (created, not yet written) or "creds"
  keyring,     \* the key in the OS keyring
  keyringUp,   \* whether a keyring is reachable on this machine
  keyfile,     \* the key in the fallback file, or Cut
  minted,      \* how many keys were generated so far
  held,        \* the key this process resolved
  dbKey,       \* the key TDLib's database is encrypted with; NoKey without one
  \* Ghost.
  bornUp       \* whether the keyring was reachable when the database was created

startVars ==
  <<pc, starts, config, keyring, keyringUp, keyfile, minted, held, dbKey, bornUp>>

NoKey == 0
Cut == MaxStarts + 1
Keys == 1 .. MaxStarts

StartPcs == {"off", "credentials", "onboard", "configOpen", "session", "keyOpen", "params"}

StartTypeOK ==
  /\ starts \in 0 .. MaxStarts /\ minted \in 0 .. starts
  /\ config \in {"absent", "cut", "creds"}
  /\ keyring \in Keys \cup {NoKey} /\ keyfile \in Keys \cup {NoKey, Cut}
  /\ held \in Keys \cup {NoKey} /\ dbKey \in Keys \cup {NoKey}
  /\ keyringUp \in BOOLEAN /\ bornUp \in BOOLEAN

StartInit ==
  /\ pc = "off" /\ starts = 0
  /\ config = "absent"
  /\ keyring = NoKey /\ keyfile = NoKey /\ keyringUp \in BOOLEAN
  /\ minted = 0 /\ held = NoKey /\ dbKey = NoKey /\ bornUp = FALSE

-----------------------------------------------------------------------------
\* The steps go on at `at`; a failed one prints its error and ends the process.
Goes(at) == pc' = at
Fails == pc' = "off" /\ held' = NoKey

Launch ==
  /\ pc = "off" /\ starts < MaxStarts
  /\ starts' = starts + 1
  /\ Goes("credentials")
  /\ UNCHANGED <<config, keyring, keyringUp, keyfile, minted, held, dbKey, bornUp>>

\* resolve: the environment wins, then the file, then the user is asked.  A pair
\* half set or malformed is an error; a file that was cut has no [telegram] table.
ResolveCredentials(env) ==
  /\ pc = "credentials"
  /\ \/ env = "both" /\ Goes("session") /\ UNCHANGED held
     \/ env = "half" /\ Fails
     \/ /\ env = "none" /\ UNCHANGED held
        /\ Goes(IF config = "creds" THEN "session" ELSE "onboard")
  /\ UNCHANGED <<starts, config, keyring, keyringUp, keyfile, minted, dbKey, bornUp>>

\* capture, then the open of write_private, which truncates; the user may give up
\* or type what is no api_id.
Onboard(ok) ==
  /\ pc = "onboard"
  /\ \/ ok /\ config' = "cut" /\ Goes("configOpen") /\ UNCHANGED held
     \/ ~ok /\ Fails /\ UNCHANGED config
  /\ UNCHANGED <<starts, keyring, keyringUp, keyfile, minted, dbKey, bornUp>>

\* The write of write_private; a full disk leaves the file cut.
PersistConfig(ok) ==
  /\ pc = "configOpen"
  /\ \/ ok /\ config' = "creds" /\ Goes("session") /\ UNCHANGED held
     \/ ~ok /\ Fails /\ UNCHANGED config
  /\ UNCHANGED <<starts, keyring, keyringUp, keyfile, minted, dbKey, bornUp>>

\* Mutant: the keyring is written without looking for the key it has.
KeyFromRingAnew(ok) ==
  /\ pc = "session" /\ keyringUp
  /\ \/ /\ ok /\ Goes("params")
        /\ minted' = minted + 1 /\ keyring' = minted + 1 /\ held' = minted + 1
     \/ ~ok /\ Fails /\ UNCHANGED <<keyring, minted>>
  /\ UNCHANGED <<starts, config, keyringUp, keyfile, dbKey, bornUp>>

\* resolve_key with a keyring in reach: its key, or a new one stored there.  The
\* fallback file is not looked at.
KeyFromRing(ok) ==
  /\ pc = "session" /\ keyringUp
  /\ \/ /\ keyring # NoKey /\ held' = keyring /\ Goes("params")
        /\ UNCHANGED <<keyring, minted>>
     \/ /\ keyring = NoKey /\ ok
        /\ minted' = minted + 1 /\ keyring' = minted + 1 /\ held' = minted + 1
        /\ Goes("params")
     \/ /\ keyring = NoKey /\ ~ok /\ Fails /\ UNCHANGED <<keyring, minted>>
  /\ UNCHANGED <<starts, config, keyringUp, keyfile, dbKey, bornUp>>

\* resolve_key without one: the file's key, a new one, or an error on a cut file.
KeyFromFile ==
  /\ pc = "session" /\ ~keyringUp
  /\ \/ /\ keyfile \in Keys /\ held' = keyfile /\ Goes("params")
        /\ UNCHANGED <<keyfile, minted>>
     \/ /\ keyfile = NoKey
        /\ minted' = minted + 1 /\ held' = minted + 1
        /\ keyfile' = Cut /\ Goes("keyOpen")
     \/ /\ keyfile = Cut /\ Fails /\ UNCHANGED <<keyfile, minted>>
  /\ UNCHANGED <<starts, config, keyring, keyringUp, dbKey, bornUp>>

\* Mutant: a key that could not be stored is used all the same.
WriteKeyIgnoringErrors(ok) ==
  /\ pc = "keyOpen"
  /\ keyfile' = (IF ok THEN held ELSE keyfile) /\ Goes("params") /\ UNCHANGED held
  /\ UNCHANGED <<starts, config, keyring, keyringUp, minted, dbKey, bornUp>>

\* FileStore::store's write, after the open of the step before.
WriteKey(ok) ==
  /\ pc = "keyOpen"
  /\ \/ ok /\ keyfile' = held /\ Goes("params") /\ UNCHANGED held
     \/ ~ok /\ Fails /\ UNCHANGED keyfile
  /\ UNCHANGED <<starts, config, keyring, keyringUp, minted, dbKey, bornUp>>

\* initialize: silence TDLib's log, then setTdlibParameters.  TDLib creates a
\* database with the key given, or opens the one there is if the key fits; it may
\* also refuse the api_id.
SetParameters(ok) ==
  /\ pc = "params"
  /\ \/ /\ ok /\ dbKey \in {NoKey, held}
        /\ dbKey' = held /\ Goes("subscribe") /\ UNCHANGED held
        /\ bornUp' = IF dbKey = NoKey THEN keyringUp ELSE bornUp
     \/ /\ ~ok \/ dbKey \notin {NoKey, held}
        /\ Fails /\ UNCHANGED <<dbKey, bornUp>>
  /\ UNCHANGED <<starts, config, keyring, keyringUp, keyfile, minted>>

\* Between two starts: the login session gains or loses a keyring, or the user
\* removes a key file reported as malformed.
KeyringChanges ==
  /\ pc = "off"
  /\ keyringUp' = ~keyringUp
  /\ UNCHANGED <<pc, starts, config, keyring, keyfile, minted, held, dbKey, bornUp>>

RemoveCutKey ==
  /\ pc = "off" /\ keyfile = Cut
  /\ keyfile' = NoKey
  /\ UNCHANGED <<pc, starts, config, keyring, keyringUp, minted, held, dbKey, bornUp>>

StartStep ==
  \/ Launch
  \/ \E env \in {"none", "half", "both"} : ResolveCredentials(env)
  \/ \E ok \in BOOLEAN :
       Onboard(ok) \/ PersistConfig(ok) \/ KeyFromRing(ok) \/ WriteKey(ok) \/ SetParameters(ok)
  \/ KeyFromFile
  \/ KeyringChanges
  \/ RemoveCutKey

-----------------------------------------------------------------------------
\* The key of an existing database is in the keyring or in the file, whatever
\* start died in between and whatever store was reachable at which start: no key
\* is used before it is stored, and none is ever written over.
DatabaseKeyKept == dbKey # NoKey => dbKey \in {keyring, keyfile}

\* A start offers TDLib a key that does not fit only when the keyring is reachable
\* and was not when the database was created, or the other way round.
KeyFitsWhileReachable ==
  pc = "params" /\ dbKey # NoKey /\ held # dbKey => keyringUp # bornUp

=============================================================================
