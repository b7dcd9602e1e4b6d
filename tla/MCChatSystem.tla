----------------------------- MODULE MCChatSystem -----------------------------
EXTENDS ChatSystem

AllKinds == [id : {"REQUEST_LOGIN", "REQUEST_CHAT"}, content_size : {1}]
OnlyChat == {[id |-> "REQUEST_CHAT", content_size |-> 1]}
===============================================================================
