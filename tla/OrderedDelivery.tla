-------------------------- MODULE OrderedDelivery --------------------------
(***************************************************************************)
(* What the job transport promises its callers and hides from them: a job  *)
(* accepted under an ordering key whose callers exclude each other is      *)
(* handed to a handler only when every job accepted before it under that   *)
(* key is over, any number of times until it is over, and never again.     *)
(***************************************************************************)
EXTENDS Integers

CONSTANTS Jobs,      \* names of jobs, in the order they are numbered
          Keys,      \* ordering keys
          Ordered,   \* the keys whose jobs are delivered in order
          NoKey      \* the key of a job not accepted yet

VARIABLES status,    \* of each job
          key        \* the ordering key it was accepted under

Init ==
    /\ status = [j \in Jobs |-> "unknown"]
    /\ key = [j \in Jobs |-> NoKey]

Accepted(j) == status[j] # "unknown"

\* Acceptance follows the numbering within an ordered key.
Accept(j, k) ==
    /\ ~Accepted(j)
    /\ k \in Ordered => \A i \in Jobs : Accepted(i) /\ key[i] = k => i < j
    /\ status' = [status EXCEPT ![j] = "accepted"]
    /\ key' = [key EXCEPT ![j] = k]

\* The first delivery; later ones change nothing here.
Deliver(j) ==
    /\ status[j] = "accepted"
    /\ key[j] \in Ordered =>
           \A i \in Jobs : i < j /\ Accepted(i) /\ key[i] = key[j] => status[i] = "over"
    /\ status' = [status EXCEPT ![j] = "delivered"]
    /\ UNCHANGED key

End(j) ==
    /\ status[j] = "delivered"
    /\ status' = [status EXCEPT ![j] = "over"]
    /\ UNCHANGED key

Next ==
    \E j \in Jobs :
        \/ \E k \in Keys : Accept(j, k)
        \/ Deliver(j)
        \/ End(j)

Spec == Init /\ [][Next]_<<status, key>>
=============================================================================
