--------------------------- MODULE MCComposerText ---------------------------
(***************************************************************************)
(* Model checking ComposerText: every text of a few characters, and what   *)
(* is left of a longer one as the user deletes from it.                    *)
(***************************************************************************)
EXTENDS ComposerText

\* Two lines, the first of two words, of which the second is too long for most panes.
MCOwnTexts == {<<"letter", "space", "letter", "wide", "letter", "mark", "newline", "letter">>}
=============================================================================
