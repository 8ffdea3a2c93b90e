---------------------------- MODULE MCTransfers ----------------------------
(***************************************************************************)
(* Model checking Transfers: a channel with a photo, whose sender's own    *)
(* photo cannot be decoded, and a private chat with a voice note and a     *)
(* forward of it.                                                          *)
(***************************************************************************)
EXTENDS Transfers

CONSTANTS c1, c2, f1, f2, u1   \* model values

TwoCategories == {"private", "channels"}
MCCategoryOf == [c \in Chats |-> IF c = c1 THEN "channels" ELSE "private"]

\* Everything expires; or the channels are kept, and the cache is capped.
TwoPolicies == {[kept |-> {}, capped |-> FALSE], [kept |-> {"channels"}, capped |-> TRUE]}

Photo == [chat |-> c1, id |-> 1, file |-> f1, sender |-> u1, still |-> "file"]
Voice == [chat |-> c2, id |-> 2, file |-> f2, sender |-> c2, still |-> "none"]
Forward == [Voice EXCEPT !.id = 3]

PhotoAndVoices == {Photo, Voice, Forward}

=============================================================================
