----------------------------- MODULE MCJobTable -----------------------------
(* Constants of the TLC runs of JobTable.                                   *)
EXTENDS JobTable, TLC

CONSTANTS p1, p2, p3, a1, a2

MCPids  == {p1, p2, p3}
MCTwoPids  == {p1, p2}
MCTwoArgvs == {a1, a2}
MCNoArgvs  == {}
MCOps   == {"TRIM", "MERGE"}    \* the three simple operations share one path
MCTrim  == {"TRIM"}
MCMerge == {"MERGE"}

\* Processes and addresses are interchangeable.
MCSymmetry == Permutations(Pids) \cup Permutations(Argvs)
=============================================================================
