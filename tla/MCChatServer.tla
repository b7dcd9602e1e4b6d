---------------------------- MODULE MCChatServer ------------------------------
(***************************************************************************)
(* ChatServer with a header of two bytes, read two bytes at a time as the  *)
(* program reads its twelve, a limit of one byte, and two sessions for     *)
(* three connections, so that one waits and a session is used again.       *)
(***************************************************************************)
EXTENDS ChatServer

Kind(i, size) == [id |-> i, content_size |-> size]

\* A login, a chat, and a chat over the limit.
MixedKinds == {Kind("REQUEST_LOGIN", 1), Kind("REQUEST_CHAT", 1), Kind("REQUEST_CHAT", 2)}

\* A login and a chat.
AllowedKinds == {Kind("REQUEST_LOGIN", 1), Kind("REQUEST_CHAT", 1)}

===============================================================================
