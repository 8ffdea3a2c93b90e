----------------------------- MODULE MCFinder -----------------------------
(***************************************************************************)
(* Model checking Finder: a secret chat in the list and a channel in the   *)
(* archive, with a message each.                                           *)
(***************************************************************************)
EXTENDS Finder

CONSTANTS private, channel, ann, q1, q2   \* model values

MCKindOf == [c \in Chats |-> IF c = private THEN "secret" ELSE "group"]
MCPeer == [c \in Chats |-> IF c = private THEN ann ELSE NoUser]

Near == [chat |-> private, id |-> 1]
Away == [chat |-> channel, id |-> 1]
MCMessages == {Near, Away}
MCRecent == {Near}
MCQueries == [search |-> {q1, q2}, contacts |-> {q1}]
MCMatches == [q \in {q1, q2} |-> IF q = q1 THEN {Near, Away} ELSE {Near}]
MCContacts == [q \in {q1} |-> {ann}]

=============================================================================
