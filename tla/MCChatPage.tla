----------------------------- MODULE MCChatPage -----------------------------
EXTENDS ChatPage

CONSTANTS d1, d2

\* What an answer quotes does not matter here.
OneReading == {<<>>}
=============================================================================
