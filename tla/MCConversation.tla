--------------------------- MODULE MCConversation ---------------------------
(***************************************************************************)
(* Model checking Conversation: three messages, of somebody else's a photo *)
(* and an answer to it, and one of ours; a pane of five rows.              *)
(***************************************************************************)
EXTENDS Conversation

MCShape == <<[own |-> FALSE, kind |-> "photo", re |-> 0],
             [own |-> TRUE,  kind |-> "text",  re |-> 0],
             [own |-> FALSE, kind |-> "text",  re |-> 1]>>
=============================================================================
