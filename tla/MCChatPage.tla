----------------------------- MODULE MCChatPage -----------------------------
(* Instances of ChatPage for TLC. *)
EXTENDS ChatPage

AllPages == {"web", "installed", "universal", "bot"}
WebPage == {"web"}
=============================================================================
