----------------------------- MODULE MCChatPage -----------------------------
EXTENDS ChatPage
CONSTANTS c1, c2
=============================================================================
