----------------------------- MODULE JobService -----------------------------
(***************************************************************************)
(* What the video processing server promises of a job, seen by a client:   *)
(* a request that was acknowledged with a task id is executed once, its    *)
(* worker succeeds or fails, the server reports exactly that outcome, and  *)
(* keeps reporting it until it forgets the job.  Only a server that stops  *)
(* may forget a job whose outcome it never reported.                       *)
(*                                                                         *)
(* JobTable implements this specification (see the instance there).        *)
(***************************************************************************)
EXTENDS Naturals

CONSTANT MaxJobs      \* bound on the number of jobs ever accepted

VARIABLES
    job,              \* job[n]: where the n-th accepted job is in its life
    halted            \* the server has stopped

vars == <<job, halted>>

Jobs == 1..MaxJobs

Phases == {"none",    \* not accepted yet
           "working", \* its worker runs
           "ok",      \* its worker has succeeded, nobody knows yet
           "fail",    \* its worker has failed, nobody knows yet
           "done",    \* reported DONE
           "err",     \* reported ERR
           "gone"}    \* forgotten

Outcome(ph) == IF ph = "ok" THEN "done" ELSE "err"

TypeOK == job \in [Jobs -> Phases] /\ halted \in BOOLEAN

-----------------------------------------------------------------------------
Init == job = [n \in Jobs |-> "none"] /\ halted = FALSE

\* Jobs are accepted in the order of their serial numbers. A worker is started
\* before its job is registered, so it may already be over.
Accept(n) ==
    /\ ~halted
    /\ job[n] = "none"
    /\ \A m \in Jobs : m < n => job[m] # "none"
    /\ \E ph \in {"working", "ok", "fail"} : job' = [job EXCEPT ![n] = ph]
    /\ UNCHANGED halted

Finish(n) ==
    /\ job[n] = "working"
    /\ \E ph \in {"ok", "fail"} : job' = [job EXCEPT ![n] = ph]
    /\ UNCHANGED halted

\* One pass of the server reports a set of finished jobs at once.
Report(S) ==
    /\ ~halted
    /\ S # {}
    /\ \A n \in S : job[n] \in {"ok", "fail"}
    /\ job' = [n \in Jobs |-> IF n \in S THEN Outcome(job[n]) ELSE job[n]]
    /\ UNCHANGED halted

Forget(S) ==
    /\ ~halted
    /\ S # {}
    /\ \A n \in S : job[n] \in {"done", "err"}
    /\ job' = [n \in Jobs |-> IF n \in S THEN "gone" ELSE job[n]]
    /\ UNCHANGED halted

Halt ==
    /\ ~halted
    /\ halted' = TRUE
    /\ job' = [n \in Jobs |-> IF job[n] = "none" THEN "none" ELSE "gone"]

Next ==
    \/ \E n \in Jobs : Accept(n) \/ Finish(n)
    \/ \E S \in SUBSET Jobs : Report(S) \/ Forget(S)
    \/ Halt

Spec == Init /\ [][Next]_vars

=============================================================================
