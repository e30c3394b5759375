--------------------------- MODULE MCDurableJobs ---------------------------
(* The job transport on a small instance: two turns of one conversation,   *)
(* whose row lock serialises their enqueues, and a key nobody locks.       *)
EXTENDS DurableJobs, TLC

CONSTANTS conv, room, t1, t2, r1, c1, c2, w1, w2

MCOrderOf == t1 :> conv @@ t2 :> conv @@ r1 :> room
=============================================================================
