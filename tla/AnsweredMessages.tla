-------------------------- MODULE AnsweredMessages --------------------------
(***************************************************************************)
(* What a conversation promises its user and hides the workers of: every   *)
(* message is accepted once under its key and answered by one turn, in the *)
(* order of the messages.  Turns follow each other one at a time, each     *)
(* takes all that waits, none ends leaving somebody to wait unless it is   *)
(* cancelled, and how a turn ended is never changed.                       *)
(***************************************************************************)
EXTENDS Integers, Sequences

CONSTANTS Keys,    \* keys of the messages the user may send
          Turns    \* the numbers of the turns

VARIABLES message,   \* what was sent, in order: its key and the turn that answers it (0: it waits)
          turn       \* what each turn is, and the turn it repeats (0: none)

vars == <<message, turn>>

Init ==
    /\ message = <<>>
    /\ turn = [t \in Turns |-> [state |-> "none", retryOf |-> 0]]

Active == {t \in Turns : turn[t].state = "active"}

Waiting == {i \in DOMAIN message : message[i].turn = 0}

IsNext(n) == \A t \in Turns : turn[t].state # "none" <=> t < n

\* Everything that waits in m is answered by turn n.
AnsweredBy(m, n) ==
    [i \in DOMAIN m |-> IF m[i].turn = 0 THEN [key |-> m[i].key, turn |-> n] ELSE m[i]]

Sent(k) == \E i \in DOMAIN message : message[i].key = k

With(k) == Append(message, [key |-> k, turn |-> 0])

Begun(repeats) == [state |-> "active", retryOf |-> repeats]

\* A message sent while a turn is active waits ...
Wait(k) ==
    /\ ~Sent(k) /\ Active # {}
    /\ message' = With(k)
    /\ UNCHANGED turn

\* ... and otherwise begins a turn, with all that a cancellation left waiting.
Ask(k, n) ==
    /\ ~Sent(k) /\ Active = {} /\ IsNext(n)
    /\ message' = AnsweredBy(With(k), n)
    /\ turn' = [turn EXCEPT ![n] = Begun(0)]

\* A turn ends for good, when nobody waits for it or the user says so.
End(t, outcome) ==
    /\ t \in Active /\ (Waiting = {} \/ outcome = "cancelled")
    /\ turn' = [turn EXCEPT ![t].state = outcome]
    /\ UNCHANGED message

\* The end of a turn begins the next one, with all that waited.
GoOn(t, outcome, n) ==
    /\ t \in Active /\ Waiting # {} /\ IsNext(n)
    /\ message' = AnsweredBy(message, n)
    /\ turn' = [turn EXCEPT ![t].state = outcome, ![n] = Begun(0)]

\* A turn that brought no answer is repeated, once.
Repeat(t, n) ==
    /\ Active = {} /\ turn[t].state \in {"failed", "cancelled"}
    /\ \A r \in Turns : turn[r].retryOf # t
    /\ IsNext(n)
    /\ turn' = [turn EXCEPT ![n] = Begun(t)]
    /\ UNCHANGED message

Next ==
    \/ \E k \in Keys : Wait(k) \/ \E n \in Turns : Ask(k, n)
    \/ \E t \in Turns :
          \/ \E outcome \in {"completed", "failed", "cancelled"} : End(t, outcome)
          \/ \E outcome \in {"completed", "failed"}, n \in Turns : GoOn(t, outcome, n)
          \/ \E n \in Turns : Repeat(t, n)

Spec == Init /\ [][Next]_vars
=============================================================================
