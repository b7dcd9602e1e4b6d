---------------------------- MODULE MCChatClient ------------------------------
(***************************************************************************)
(* ChatClient with a few lines: one to log in, and enough behind it for a  *)
(* chat to overlap with the write before it and for one more after that.   *)
(***************************************************************************)
EXTENDS ChatClient

===============================================================================
