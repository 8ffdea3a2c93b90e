---------------------------- MODULE MCChatList ----------------------------
(***************************************************************************)
(* Model checking ChatList: two chats, whose ids break ties, in the Main   *)
(* list and an archive.                                                    *)
(***************************************************************************)
EXTENDS ChatList

CONSTANTS main, archive, resync, inbox, pin   \* model values

=============================================================================
