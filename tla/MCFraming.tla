------------------------------ MODULE MCFraming -------------------------------
(***************************************************************************)
(* Framing with the sizes of the program: a 12-byte header, a limit of 20  *)
(* bytes of chat content, receive buffers of 12 (server) and 10 (client)   *)
(* bytes.                                                                  *)
(***************************************************************************)
EXTENDS Framing

Kind(i, size) == [id |-> i, content_size |-> size]

\* A login and a chat just over the limit.
ServerKinds == {Kind("REQUEST_LOGIN", 3), Kind("REQUEST_CHAT", 21)}

\* What is never refused: a login, a chat exactly at the limit, and a packet the
\* limit does not apply to, as the notices a client receives.
AllowedKinds ==
    {Kind("REQUEST_LOGIN", 3), Kind("REQUEST_CHAT", 20), Kind("NOTICE_CHAT", 24)}

===============================================================================
