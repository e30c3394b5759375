---------------------------- MODULE MCWorkTasks ----------------------------
(* Tasks on small instances.                                               *)
EXTENDS WorkTasks, TLC

CONSTANTS tA, tB, tC, s1, s2

\* Room for a report and its acceptance where there is a requester.
MCMaxVersion == [t \in Tasks |-> IF t \in Requested THEN 4 ELSE 3]

\* Interchangeable sessions, and tasks of the same kind.
Symmetry == Permutations(Sessions) \cup Permutations(Tasks \ Requested)
=============================================================================
