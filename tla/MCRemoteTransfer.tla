-------------------------- MODULE MCRemoteTransfer --------------------------
(* Instances of RemoteTransfer for TLC. *)
EXTENDS RemoteTransfer, TLC

CONSTANTS c1, c2

MCTwo   == {c1, c2}

\* Two runs on one host at a time, and two on different hosts that have met.
MCPids       == {11, 12}
MCPidChoices == {c1 :> 11 @@ c2 :> 12, c1 :> 11 @@ c2 :> 11}

MCServerPid == {7}
MCFirst     == {c1}
=============================================================================
