--------------------------- MODULE MCChatSessions ---------------------------
(***************************************************************************)
(* The chats of a browser, for TLC: with a user who waits while a chat is  *)
(* being opened and with one who does not, for whom less may wait at once. *)
(***************************************************************************)
EXTENDS ChatSessions

MCMaxTxs == [p \in BOOLEAN |-> IF p THEN 2 ELSE 1]
=============================================================================
