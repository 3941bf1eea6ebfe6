-------------------------- MODULE MCMergeDispatch --------------------------
(* Instance: a merge of up to five clips alone, one more than the arrays   *)
(* have, or one of two next to one of a single clip.                       *)
EXTENDS MergeDispatch

CONSTANTS long, short

MCWorkloads ==
    [parallel : {0, 3}, asks : [{long} -> [count : 0..5, transition : BOOLEAN]]]
    \cup
    {[parallel |-> 2, asks |-> [m \in {long, short} |->
                                  IF m = long THEN [count |-> 2, transition |-> t]
                                              ELSE [count |-> 1, transition |-> FALSE]]] :
        t \in BOOLEAN}
=============================================================================
