---------------------------- MODULE MCServerLife ----------------------------
(* Constants of the TLC run of ServerLife: two processes for the port of    *)
(* server.conf and one, of another user, that was given another.            *)
EXTENDS ServerLife, TLC

CONSTANTS s1, s2, s3, conf, other, c1, u1, u2

MCServers == {s1, s2, s3}
MCClients == {c1}
MCPorts   == {conf, other}
MCPortOf  == s1 :> conf @@ s2 :> conf @@ s3 :> other
MCUserOf  == s1 :> u1 @@ s2 :> u1 @@ s3 :> u2
=============================================================================
