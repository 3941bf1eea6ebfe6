----------------------------- MODULE MCPollLoop -----------------------------
(* Constants of the TLC runs of PollLoop.                                   *)
EXTENDS PollLoop, TLC

CONSTANTS c1, c2, c3

MCTwoClients   == {c1, c2}
MCThreeClients == {c1, c2, c3}
MCAllMessages  == {"request", "bye", "shutdown"}
MCLiveMessages == {"shutdown", "download"}
MCTwoMessages  == {"request", "bye"}
MCSymmetry     == Permutations(Clients)
=============================================================================
