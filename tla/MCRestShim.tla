----------------------------- MODULE MCRestShim -----------------------------
(* Instances of RestShim for TLC. *)
EXTENDS RestShim, TLC

CONSTANTS c1, c2, n1, n2

MCClients == {c1, c2}
MCNames   == {n1, n2}

\* Names of their own, and the fixed name of vps_rest_test.py run twice.
MCNameChoices == {c1 :> n1 @@ c2 :> n2, c1 :> n1 @@ c2 :> n1}
=============================================================================
