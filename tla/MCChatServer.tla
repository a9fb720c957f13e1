----------------------------- MODULE MCChatServer -----------------------------
(* Three connections for ChatServer: one client that sends its name, a     *)
(* message in two pieces and another one, and two that only listen.        *)
EXTENDS ChatServer

ThreeClients == {"c1", "c2", "c3"}
OneSpeaks == [c1 |-> <<1, 3, 4>>, c2 |-> << >>, c3 |-> << >>]
=============================================================================
