----------------------------- MODULE MCJobQueue -----------------------------
(* Instances of JobQueue for TLC.                                          *)
EXTENDS JobQueue, TLC

Symmetry == Permutations(Workers)
AllTransient == [j \in Jobs |-> "transient"]
SamePriority == [j \in Jobs |-> 0]
\* One job is fatal and of higher priority, the others are not.
TheFatal == CHOOSE j \in Jobs : TRUE
OneFatal == [j \in Jobs |-> IF j = TheFatal THEN "fatal" ELSE "transient"]
FatalFirst == [j \in Jobs |-> IF j = TheFatal THEN 1 ELSE 0]
=============================================================================
