------------------------------ MODULE MCChatRoom ------------------------------
EXTENDS ChatRoom

CONSTANTS c1, c2, c3

MCClients == {c1, c2, c3}
MCMaxSent == [c \in MCClients |-> CASE c = c1 -> 2 [] c = c2 -> 1 [] c = c3 -> 0]
=============================================================================
