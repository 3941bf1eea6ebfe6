---------------------------- MODULE RequestReply ----------------------------
(***************************************************************************)
(* What a session with vps_server promises its client: of the operations   *)
(* it asks for, one after the other, each is executed at most once, is     *)
(* executed only when the whole request was handed over, and the client is *)
(* told the verdict of that very operation or knows that it was not told.  *)
(* A client that does not know asks for nothing more.                      *)
(*                                                                         *)
(* Session implements this specification (see the instance there).         *)
(***************************************************************************)

CONSTANTS
    Ops,            \* the operations a client can ask for
    NoOp            \* nothing was asked for yet

VARIABLES
    asked,          \* the operation the client asked for last
    handed,         \* all of the request was given to the network
    verdict,        \* what the server decided of it
    known           \* what the client knows of that verdict

vars == <<asked, handed, verdict, known>>

Verdicts == {"ok", "refused"}

TypeOK ==
    /\ asked \in Ops \cup {NoOp}
    /\ handed \in BOOLEAN
    /\ verdict \in Verdicts \cup {"pending"}
    /\ known \in Verdicts \cup {"pending", "unknown"}

-----------------------------------------------------------------------------
Init == asked = NoOp /\ handed = FALSE /\ verdict = "pending" /\ known = "pending"

Ask(op) ==
    /\ asked = NoOp \/ known \in Verdicts
    /\ asked' = op
    /\ handed' = FALSE /\ verdict' = "pending" /\ known' = "pending"

Hand ==
    /\ asked # NoOp /\ known = "pending"
    /\ handed' = TRUE
    /\ UNCHANGED <<asked, verdict, known>>

\* Only a whole request is executed; an incomplete one may be refused.
Decide ==
    /\ asked # NoOp /\ verdict = "pending"
    /\ \/ handed /\ verdict' \in Verdicts
       \/ verdict' = "refused"
    /\ UNCHANGED <<asked, handed, known>>

Learn ==
    /\ known = "pending" /\ verdict \in Verdicts
    /\ known' = verdict
    /\ UNCHANGED <<asked, handed, verdict>>

\* The connection breaks, or one of the two programs ends.
GiveUp ==
    /\ asked # NoOp /\ known = "pending"
    /\ known' = "unknown"
    /\ UNCHANGED <<asked, handed, verdict>>

Next == (\E op \in Ops : Ask(op)) \/ Hand \/ Decide \/ Learn \/ GiveUp

Spec == Init /\ [][Next]_vars
=============================================================================
