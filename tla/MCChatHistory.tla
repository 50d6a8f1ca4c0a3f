----------------------------- MODULE MCChatHistory -----------------------------
(* Model checking ChatHistory.                                                  *)
EXTENDS ChatHistory, TLC
=============================================================================
