----------------------------- MODULE MCReducer -----------------------------
(***************************************************************************)
(* Two chats, one with a person and a group; our own text and a photo that  *)
(* replies to it; a search with a hit in an archived chat, a contact search *)
(* with two people; one spelling of three of the settings beside those      *)
(* displayed: no limit at all, which is refused, a cap, and "no".           *)
(***************************************************************************)
EXTENDS Reducer

MCChatRows == <<"alice", "group">>
MCPrivate == {"alice"}
MCMessageIds == {1, 2}
MCOwn == {1}
MCQuotes == <<0, 1>>
MCAnswers == {<<1, 2, 3>>}
MCHomeOf == <<"alice", "alice", "archived">>
MCPeople == {<<"ann", "bob">>}
MCSpellings ==
  [private |-> {Count(0, "d")}, groups |-> {}, channels |-> {},
   cache |-> {Count(4, "k")}, graphics |-> {Word("no")}]
=============================================================================
