----------------------------- MODULE RoomBookings -----------------------------
(***************************************************************************)
(* A meeting with a room (bootstrap/application.py: create_meeting,        *)
(* _prepare_action_effect, _resolve_room_creation_attempt,                 *)
(* _compensate_room_creation_attempt, _validate_action_rejection;          *)
(* platform/action_center.py: _confirm).                                   *)
(*                                                                         *)
(* The seat is booked in a system outside, which has neither look-up nor   *)
(* idempotency keys, before the meeting is stored.  A row per key, written *)
(* before the call, is the fence: a request that finds it "pending" calls  *)
(* nobody, and records that the outcome is to be verified.  A meeting is   *)
(* made from a proposal, whose possible final contents have a key each, or *)
(* directly under a key of the caller.  When the transaction of a          *)
(* confirmation is rolled back after the seat was booked, the seat is      *)
(* given back afterwards, outside of any transaction.                      *)
(*                                                                         *)
(* Requests are handled by any process, so the locks that live in one      *)
(* process are left out: what holds does so by the locks of the database.  *)
(***************************************************************************)
EXTENDS Integers, FiniteSets

CONSTANTS Servers,      \* handlers of requests
          Proposed,     \* final contents of the proposal, as keys of its attempts
          Direct,       \* keys of requests that create a meeting directly
          MaxSeats,     \* bound: seats booked outside
          MaxRequests,  \* bound: requests
          MaxFaults     \* bound: crashes and lost answers

Keys == Proposed \cup Direct

ASSUME BookingsAssumption ==
    /\ Servers # {} /\ "nobody" \notin Servers
    /\ Proposed \cap Direct = {}
    /\ MaxSeats \in Nat /\ MaxRequests \in Nat /\ MaxFaults \in Nat

VARIABLES proposal,  \* action_items.state of the proposal
          lock,      \* who holds the row lock of the proposal
          attempt,   \* meeting_room_creation_attempts, by key
          rowLock,   \* who holds the row lock of each attempt
          meeting,   \* the reservation of the meeting made under each key
          server,    \* what each handler is about
          seats,     \* the seats that exist outside
          late,      \* keys whose call may still take effect outside
          made,      \* seats booked so far
          crossed,   \* history: which overlaps of two requests happened
          requests, faults

vars == <<proposal, lock, attempt, rowLock, meeting, server, seats, late, made,
          crossed, requests, faults>>

Nobody == "nobody"

Attempts  == [status : {"none", "pending", "booked", "compensated", "needs_verification", "refused"},
              seat : 0 .. MaxSeats, stored : BOOLEAN]
NoAttempt == [status |-> "none", seat |-> 0, stored |-> FALSE]
Bookings  == [status : {"none", "booked", "needs_verification"}, seat : 0 .. MaxSeats]
NoBooking == [status |-> "none", seat |-> 0]
Doubt     == [status |-> "needs_verification", seat |-> 0]

GivesBack == {"compensating", "cancelling", "cancelled", "uncertain"}
Handlers  == [pc : {"idle", "fencing", "locking", "reclaiming", "calling", "answered",
                    "saving", "rejecting"} \cup GivesBack,
              key : Keys \cup {Nobody}, created : BOOLEAN, booking : Bookings]
NoRequest == [pc |-> "idle", key |-> Nobody, created |-> FALSE, booking |-> NoBooking]

Init ==
    /\ proposal = "pending" /\ lock = Nobody
    /\ attempt = [k \in Keys |-> NoAttempt]
    /\ rowLock = [k \in Keys |-> Nobody]
    /\ meeting = [k \in Keys |-> NoBooking]
    /\ server = [s \in Servers |-> NoRequest]
    /\ seats = {} /\ late = {} /\ made = 0
    /\ crossed = {} /\ requests = 0 /\ faults = 0

-----------------------------------------------------------------------------
(* What the steps share.                                                   *)

\* An attempt without a meeting that may have left a seat outside.
Unresolved(k) ==
    /\ ~attempt[k].stored
    /\ attempt[k].status \in {"pending", "booked", "needs_verification"}

At(s, pc) == server[s].pc = pc
Goes(s, pc) == server' = [server EXCEPT ![s].pc = pc]

\* s goes on, as the one that wrote the fence or not.
GoesAs(s, pc, created) ==
    server' = [server EXCEPT ![s] = [@ EXCEPT !.pc = pc, !.created = created]]

\* The transaction of s ends, and with it the lock of the proposal.
Unlock(s) == lock' = IF lock = s THEN Nobody ELSE lock

\* s is done with its request, or its process died.
Ends(s) == Unlock(s) /\ server' = [server EXCEPT ![s] = NoRequest]

\* s goes on with what it has learned of the attempt.
Learns(s, pc, booking) ==
    server' = [server EXCEPT ![s] = [@ EXCEPT !.pc = pc, !.booking = booking]]

Writes(k, status, seat) ==
    attempt' = [attempt EXCEPT ![k] = [@ EXCEPT !.status = status, !.seat = seat]]

-----------------------------------------------------------------------------
(* Requests.                                                               *)

Starts(s, k, pc) ==
    /\ At(s, "idle") /\ requests < MaxRequests
    /\ requests' = requests + 1
    /\ server' = [server EXCEPT ![s] = [NoRequest EXCEPT !.pc = pc, !.key = k]]

\* confirm locks the proposal, and goes on if no other content was tried before
\* whose outcome is still open.  (Refusals that change nothing are no steps.)
Confirm(s, k) ==
    /\ k \in Proposed
    /\ lock = Nobody /\ proposal = "pending"
    /\ \A other \in Proposed \ {k} : ~Unresolved(other)
    /\ Starts(s, k, "fencing")
    /\ lock' = s
    /\ crossed' = crossed
           \cup (IF \E t \in Servers : server[t].pc \in GivesBack THEN {"compensation"} ELSE {})
           \cup (IF \E t \in Servers : At(t, "rejecting") THEN {"rejection"} ELSE {})
    /\ UNCHANGED <<proposal, attempt, rowLock, meeting, seats, late, made, faults>>

\* A content without a room is confirmed whatever is still open: it returns before
\* that is looked at, reserves nothing and makes its meeting at once.
ConfirmWithoutRoom ==
    /\ lock = Nobody /\ proposal = "pending" /\ requests < MaxRequests
    /\ proposal' = "approved"
    /\ requests' = requests + 1
    /\ UNCHANGED <<lock, attempt, rowLock, meeting, server, seats, late, made, crossed, faults>>

\* create_meeting takes no lock, and looks for a meeting of its key at the end.
Create(s, k) ==
    /\ k \in Direct
    /\ Starts(s, k, "fencing")
    /\ UNCHANGED <<proposal, lock, attempt, rowLock, meeting, seats, late, made, crossed, faults>>

\* reject looks for open outcomes first ...
BeginReject(s) ==
    /\ proposal = "pending"
    /\ \A k \in Proposed : ~Unresolved(k)
    /\ Starts(s, Nobody, "rejecting")
    /\ crossed' = crossed \cup (IF lock # Nobody THEN {"rejection"} ELSE {})
    /\ UNCHANGED <<proposal, lock, attempt, rowLock, meeting, seats, late, made, faults>>

\* ... and waits for the lock of the proposal afterwards.
EndReject(s) ==
    /\ At(s, "rejecting") /\ lock = Nobody
    /\ proposal' = IF proposal = "pending" THEN "rejected" ELSE proposal
    /\ Ends(s)
    /\ UNCHANGED <<attempt, rowLock, meeting, seats, late, made, crossed, requests, faults>>

-----------------------------------------------------------------------------
(* The attempt of a key, in transactions of its own.                       *)

\* The row is written before anything else; the unique key decides who did.
Fence(s) ==
    LET k == server[s].key IN
    /\ At(s, "fencing")
    /\ IF attempt[k].status = "none"
         THEN Writes(k, "pending", 0) /\ GoesAs(s, "locking", TRUE)
         ELSE UNCHANGED attempt /\ GoesAs(s, "locking", FALSE)
    /\ UNCHANGED <<proposal, lock, rowLock, meeting, seats, late, made, crossed, requests, faults>>

\* A statement FOR UPDATE of s gets the row of its attempt.
Reads(s, k) ==
    /\ server[s].pc \in {"locking", "reclaiming"} /\ k = server[s].key
    /\ rowLock[k] = Nobody

RefusedBefore(s, k) ==
    /\ Reads(s, k) /\ attempt[k].status = "refused"
    /\ Ends(s)
    /\ UNCHANGED <<proposal, attempt, rowLock, meeting, seats, late, made, crossed, requests, faults>>

\* The seat was given back, so the call may be made again: first the fence, which
\* releases the row, then the row once more.
Reclaim(s, k) ==
    /\ Reads(s, k) /\ At(s, "locking") /\ attempt[k].status = "compensated"
    /\ Writes(k, "pending", 0)
    /\ GoesAs(s, "reclaiming", TRUE)
    /\ UNCHANGED <<proposal, lock, rowLock, meeting, seats, late, made, crossed, requests, faults>>

Restore(s, k) ==
    /\ Reads(s, k) /\ attempt[k].status \in {"booked", "needs_verification"}
    /\ Learns(s, "saving", [status |-> attempt[k].status, seat |-> attempt[k].seat])
    /\ UNCHANGED <<proposal, lock, attempt, rowLock, meeting, seats, late, made, crossed, requests, faults>>

\* Somebody else made the call or is about to: its outcome is to be verified.
DoubtPending(s, k) ==
    /\ Reads(s, k) /\ attempt[k].status = "pending" /\ ~server[s].created
    /\ Writes(k, "needs_verification", 0) /\ Learns(s, "saving", Doubt)
    /\ UNCHANGED <<proposal, lock, rowLock, meeting, seats, late, made, crossed, requests, faults>>

\* Mutant: whoever finds the row pending makes the call.
CallOfAnyone(s, k) ==
    /\ Reads(s, k) /\ attempt[k].status = "pending"
    /\ rowLock' = [rowLock EXCEPT ![k] = s]
    /\ Goes(s, "calling")
    /\ UNCHANGED <<proposal, lock, attempt, meeting, seats, late, made, crossed, requests, faults>>

\* Only the one that wrote the fence calls, and keeps the row until it knows more.
Call(s, k) ==
    /\ Reads(s, k) /\ server[s].created
    /\ \/ attempt[k].status = "pending"
       \/ attempt[k].status = "compensated" /\ At(s, "reclaiming")
    /\ rowLock' = [rowLock EXCEPT ![k] = s]
    /\ Goes(s, "calling")
    /\ UNCHANGED <<proposal, lock, attempt, meeting, seats, late, made, crossed, requests, faults>>

-----------------------------------------------------------------------------
(* The call, under the lock of the row.                                    *)

Books(k) ==
    /\ made < MaxSeats /\ made' = made + 1
    /\ seats' = seats \cup {[no |-> made + 1, key |-> k]}

\* The chosen room, or another one that is big enough, is booked.
BookSeat(s) ==
    /\ At(s, "calling")
    /\ Books(server[s].key)
    /\ Learns(s, "answered", [status |-> "booked", seat |-> made + 1])
    /\ UNCHANGED <<proposal, lock, attempt, rowLock, meeting, late, crossed, requests, faults>>

Released(k) == rowLock' = [rowLock EXCEPT ![k] = Nobody]

RecordSeat(s) ==
    LET k == server[s].key IN
    /\ At(s, "answered")
    /\ Writes(k, "booked", server[s].booking.seat) /\ Released(k)
    /\ Goes(s, "saving")
    /\ UNCHANGED <<proposal, lock, meeting, seats, late, made, crossed, requests, faults>>

\* No room is free, or the system outside cannot be reached or refuses.
RecordRefusal(s) ==
    LET k == server[s].key IN
    /\ At(s, "calling")
    /\ Writes(k, "refused", attempt[k].seat) /\ Released(k)
    /\ Ends(s)
    /\ UNCHANGED <<proposal, meeting, seats, late, made, crossed, requests, faults>>

\* A call nobody hears of any more may take effect later, or never.
MayBeLate(s, k) ==
    \/ UNCHANGED late
    \/ At(s, "calling") /\ late' = late \cup {k}

LoseAnswer(s) ==
    LET k == server[s].key IN
    /\ server[s].pc \in {"calling", "answered"}
    /\ faults < MaxFaults /\ faults' = faults + 1
    /\ Writes(k, "needs_verification", 0) /\ Released(k)
    /\ Learns(s, "saving", Doubt)
    /\ MayBeLate(s, k)
    /\ UNCHANGED <<proposal, lock, meeting, seats, made, crossed, requests>>

BookLate(k) ==
    /\ k \in late /\ late' = late \ {k}
    /\ Books(k)
    /\ UNCHANGED <<proposal, lock, attempt, rowLock, meeting, server, crossed, requests, faults>>

-----------------------------------------------------------------------------
(* The meeting.                                                            *)

\* The meeting, the reservation s has in hand, the reference of the attempt to its
\* meeting and, for a proposal, its approval are committed together.  A direct
\* request whose key has a meeting answers with that one.
Store(s) ==
    LET k == server[s].key IN
    /\ At(s, "saving") /\ rowLock[k] = Nobody
    /\ IF k \in Direct /\ attempt[k].stored
         THEN UNCHANGED <<attempt, meeting>>
         ELSE /\ attempt' = [attempt EXCEPT ![k].stored = TRUE]
              /\ meeting' = [meeting EXCEPT ![k] = server[s].booking]
    /\ proposal' = IF k \in Proposed THEN "approved" ELSE proposal
    /\ Ends(s)
    /\ UNCHANGED <<rowLock, seats, late, made, crossed, requests, faults>>

\* The rules of the meeting refuse it after all, or the commit fails: the lock of the
\* proposal is gone before the hook that gives a booked seat back has begun.
RollBack(s) ==
    /\ At(s, "saving")
    /\ IF server[s].key \in Proposed /\ server[s].booking.status = "booked"
         THEN Unlock(s) /\ Goes(s, "compensating")
         ELSE Ends(s)
    /\ UNCHANGED <<proposal, attempt, rowLock, meeting, seats, late, made, crossed, requests, faults>>

\* _persist_room_creation_compensation: nothing is written once there is a meeting.
Persists(s, k, status, seat) ==
    /\ rowLock[k] = Nobody
    /\ IF attempt[k].stored THEN UNCHANGED attempt ELSE Writes(k, status, seat)

\* Mutant: the seat is given back before anything is written.
MarkNothing(s) ==
    /\ At(s, "compensating")
    /\ Goes(s, "cancelling")
    /\ UNCHANGED <<proposal, lock, attempt, rowLock, meeting, seats, late, made, crossed, requests, faults>>

\* The doubt is on record before the seat is given back.
MarkDoubt(s) ==
    /\ At(s, "compensating")
    /\ Persists(s, server[s].key, "needs_verification", server[s].booking.seat)
    /\ Goes(s, "cancelling")
    /\ UNCHANGED <<proposal, lock, rowLock, meeting, seats, late, made, crossed, requests, faults>>

HeldSeat(s) == {seat \in seats : seat.no = server[s].booking.seat}

CancelSeat(s) ==
    /\ At(s, "cancelling") /\ HeldSeat(s) # {}
    /\ seats' = seats \ HeldSeat(s)
    /\ Goes(s, "cancelled")
    /\ UNCHANGED <<proposal, lock, attempt, rowLock, meeting, late, made, crossed, requests, faults>>

\* The seat is gone already, the call is refused, or its answer is lost.
CancelFails(s) ==
    /\ At(s, "cancelling")
    /\ seats' \in {seats, seats \ HeldSeat(s)}
    /\ Goes(s, "uncertain")
    /\ UNCHANGED <<proposal, lock, attempt, rowLock, meeting, late, made, crossed, requests, faults>>

\* Mutant: the attempt gets the status of the reservation.
ConcludeAsCancelled(s) ==
    /\ At(s, "cancelled") /\ Persists(s, server[s].key, "cancelled", 0)
    /\ Ends(s)
    /\ UNCHANGED <<proposal, rowLock, meeting, seats, late, made, crossed, requests, faults>>

\* Mutant: a seat nobody knows about counts as given back.
ConcludeAnyway(s) ==
    /\ server[s].pc \in {"cancelled", "uncertain"}
    /\ Persists(s, server[s].key, "compensated", 0)
    /\ Ends(s)
    /\ UNCHANGED <<proposal, rowLock, meeting, seats, late, made, crossed, requests, faults>>

\* Only a seat that was surely given back may be booked anew.
Conclude(s) ==
    /\ \/ At(s, "cancelled") /\ Persists(s, server[s].key, "compensated", 0)
       \/ At(s, "uncertain") /\ Persists(s, server[s].key, "needs_verification", server[s].booking.seat)
    /\ Ends(s)
    /\ UNCHANGED <<proposal, rowLock, meeting, seats, late, made, crossed, requests, faults>>

Crash(s) ==
    /\ ~At(s, "idle")
    /\ faults < MaxFaults /\ faults' = faults + 1
    /\ rowLock' = [k \in Keys |-> IF rowLock[k] = s THEN Nobody ELSE rowLock[k]]
    /\ MayBeLate(s, server[s].key)
    /\ Ends(s)
    /\ UNCHANGED <<proposal, attempt, meeting, seats, made, crossed, requests>>

-----------------------------------------------------------------------------
Attempted(s) ==
    \/ Fence(s)
    \/ \E k \in Keys : \/ RefusedBefore(s, k) \/ Reclaim(s, k) \/ Restore(s, k)
                       \/ DoubtPending(s, k) \/ Call(s, k)
    \/ BookSeat(s) \/ RecordSeat(s) \/ RecordRefusal(s)

\* What a handler does of itself.
Handles(s) ==
    \/ EndReject(s) \/ Attempted(s)
    \/ Store(s) \/ RollBack(s)
    \/ MarkDoubt(s) \/ CancelSeat(s) \/ CancelFails(s) \/ Conclude(s)

Next ==
    \/ \E s \in Servers :
          \/ \E k \in Keys : Confirm(s, k) \/ Create(s, k)
          \/ BeginReject(s)
          \/ Handles(s)
          \/ LoseAnswer(s) \/ Crash(s)
    \/ ConfirmWithoutRoom
    \/ \E k \in Keys : BookLate(k)

Spec == Init /\ [][Next]_vars

-----------------------------------------------------------------------------
(* Properties.                                                             *)

\* The types of the tables, of the handlers and of the system outside.
TypeOK ==
    /\ proposal \in {"pending", "approved", "rejected"}
    /\ lock \in Servers \cup {Nobody}
    /\ attempt \in [Keys -> Attempts]
    /\ rowLock \in [Keys -> Servers \cup {Nobody}]
    /\ meeting \in [Keys -> Bookings]
    /\ server \in [Servers -> Handlers]
    /\ seats \subseteq [no : 1 .. MaxSeats, key : Keys]
    /\ late \subseteq Keys
    /\ made \in 0 .. MaxSeats
    /\ crossed \subseteq {"compensation", "rejection"}
    /\ requests \in 0 .. MaxRequests /\ faults \in 0 .. MaxFaults

\* What exists outside, or may come to exist, on behalf of some keys.
Outside(keys) == {seat \in seats : seat.key \in keys}
Expected(keys) == late \cap keys

\* Whatever is lost, repeated or given back, one seat at most exists or may come
\* to exist for a proposal, whichever of its contents was confirmed, and for a
\* key of a direct request; for a rejected proposal there is none, unless it was
\* rejected while a confirmation was under way.
OneSeatPerProposal ==
    /\ \A k \in Direct : Cardinality(Outside({k})) + Cardinality(Expected({k})) <= 1
    /\ Cardinality(Outside(Proposed)) + Cardinality(Expected(Proposed)) <= 1
    /\ proposal = "rejected" /\ "rejection" \notin crossed =>
           Outside(Proposed) = {} /\ Expected(Proposed) = {}

\* A seat outside is on record: its attempt says that it is booked, may be booked
\* or has to be verified, so neither a crash nor a lost answer leaves a seat
\* that nobody will look for.
NoSeatIsForgotten ==
    \A k \in Keys : Outside({k}) # {} \/ Expected({k}) # {} =>
        attempt[k].status \in {"pending", "booked", "needs_verification"}

\* A meeting that shows a booked room has that seat outside.
SeatsOfMeetings ==
    \A k \in Keys : meeting[k].status = "booked" =>
        \E seat \in seats : seat.no = meeting[k].seat /\ seat.key = k

\* That holds through roll-backs and compensations that fail or are cut short,
\* unless the proposal was confirmed again while a compensation of it was under
\* way.  (Without that exception it fails: a compensation takes the seat of a
\* meeting that was stored in between.)
BookedMeetingHasItsSeat == "compensation" \notin crossed => SeatsOfMeetings

\* The refusal of _validate_action_rejection as a promise.  It fails: a proposal
\* may be rejected while the outcome of a call for it is open.
OpenOutcomeForbidsRejection ==
    proposal = "rejected" => \A k \in Proposed : ~Unresolved(k)
=============================================================================
