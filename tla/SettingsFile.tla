---------------------------- MODULE SettingsFile ----------------------------
(***************************************************************************)
(* settings.toml (core settings.rs) and the two settings the run loop      *)
(* holds: the retention policy of [storage] and the toggle of [interface]. *)
(* Each save writes the whole file, its own section from memory and the    *)
(* other one as it reads it from the file just before.  A write is an open *)
(* that truncates and then the write itself; the process may die, or the   *)
(* disk be full, in between.  The user may edit the file by hand.          *)
(***************************************************************************)

CONSTANTS
  Policies,       \* the retention policies told apart
  DefaultPolicy   \* everything kept forever

ASSUME PoliciesAssumption == DefaultPolicy \in Policies

VARIABLES
  file,      \* what settings.toml holds, and whether it is well formed
  applied,   \* the settings the running program applies
  writing,   \* contents on their way to a file already truncated
  \* Ghost.
  drifted    \* the file was edited, or a save failed, since the program loaded it

settingsVars == <<file, applied, writing, drifted>>

Contents == [policy : Policies, graphics : BOOLEAN]
Default == [policy |-> DefaultPolicy, graphics |-> TRUE]

\* An empty file is well formed and has neither section; a typo anywhere makes the
\* whole file unreadable, and what the user wrote is still in it.
Absent == [kind |-> "absent", says |-> Default]
Empty == [kind |-> "empty", says |-> Default]
Good(c) == [kind |-> "good", says |-> c]
Typo(c) == [kind |-> "typo", says |-> c]

Idle == [kind |-> "none", says |-> Default]

SettingsTypeOK ==
  /\ file \in [kind : {"absent", "empty", "good", "typo"}, says : Contents]
  /\ applied \in Contents
  /\ writing \in {Idle} \cup {Good(c) : c \in Contents}
  /\ drifted \in BOOLEAN

SettingsInit ==
  /\ file = Absent /\ applied = Default
  /\ writing = Idle /\ drifted = TRUE

\* StorageSettings::load and InterfaceSettings::load: what is missing or cannot
\* be parsed is the default.
LoadStorage == IF file.kind = "good" THEN file.says.policy ELSE Default.policy
LoadInterface == IF file.kind = "good" THEN file.says.graphics ELSE Default.graphics

\* write_settings_file: the open truncates.  Where it fails nothing has changed.
OpenTruncated(contents) ==
  /\ file' = Empty
  /\ writing' = Good(contents)

\* run, before its first frame: write the defaults where there is no file yet ...
EnsureDefaultFile ==
  /\ file.kind = "absent"
  /\ OpenTruncated(Default)
  /\ UNCHANGED <<applied, drifted>>

\* ... and load both sections.
LoadSettings ==
  /\ writing = Idle
  /\ applied' = [policy |-> LoadStorage, graphics |-> LoadInterface]
  /\ drifted' = FALSE
  /\ UNCHANGED <<file, writing>>

\* Mutants: the other section comes from memory; the policy applies from the next
\* start on.
SavePolicyFromMemory(policy) ==
  /\ writing = Idle
  /\ applied' = [applied EXCEPT !.policy = policy]
  /\ OpenTruncated([policy |-> policy, graphics |-> applied.graphics])
  /\ UNCHANGED drifted
SavePolicyForLater(policy) ==
  /\ writing = Idle
  /\ OpenTruncated([policy |-> policy, graphics |-> LoadInterface])
  /\ UNCHANGED <<applied, drifted>>

\* drive_settings: the policy confirmed in the editor applies at once, and is saved
\* with the toggle the file has.
SavePolicy(policy) ==
  /\ writing = Idle
  /\ applied' = [applied EXCEPT !.policy = policy]
  /\ \/ /\ OpenTruncated([policy |-> policy, graphics |-> LoadInterface])
        /\ UNCHANGED drifted
     \/ drifted' = TRUE /\ UNCHANGED <<file, writing>>

\* drive_graphics_setting: the same for the toggle.
SaveGraphics(on) ==
  /\ writing = Idle
  /\ applied' = [applied EXCEPT !.graphics = on]
  /\ \/ /\ OpenTruncated([policy |-> LoadStorage, graphics |-> on])
        /\ UNCHANGED drifted
     \/ drifted' = TRUE /\ UNCHANGED <<file, writing>>

\* The write after the open; a full disk leaves the file empty.
FinishWrite ==
  /\ writing # Idle
  /\ file' = writing /\ writing' = Idle
  /\ UNCHANGED <<applied, drifted>>

WriteFails ==
  /\ writing # Idle
  /\ writing' = Idle /\ drifted' = TRUE
  /\ UNCHANGED <<file, applied>>

\* The process ends, or dies: what was to be written is lost with it.
SettingsEnd ==
  /\ applied' = Default /\ writing' = Idle /\ drifted' = TRUE
  /\ UNCHANGED file

HandEdit(f) ==
  /\ writing = Idle /\ f # file
  /\ file' = f /\ drifted' = TRUE
  /\ UNCHANGED <<applied, writing>>

Edits == {Good(c) : c \in Contents} \cup {Typo(c) : c \in Contents}

-----------------------------------------------------------------------------
\* While nobody edits the file and no save fails, the file says what the program
\* applies, between writes: each save rewrites the section it does not own.
AppliedIsSaved ==
  writing = Idle /\ ~drifted /\ file.kind # "absent" =>
    applied = [policy |-> LoadStorage, graphics |-> LoadInterface]

\* A save that goes through keeps the section it does not own as the file had it,
\* if the file could be parsed when the save began.
OtherSectionKept ==
  [][writing = Idle /\ writing' # Idle /\ file.kind = "good" =>
       \/ writing'.says.graphics = file.says.graphics
       \/ writing'.says.policy = file.says.policy]_settingsVars

=============================================================================
