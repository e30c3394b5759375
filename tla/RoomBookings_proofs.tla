------------------------ MODULE RoomBookings_proofs ------------------------
(***************************************************************************)
(* What is proved of the booked seats, for every number of handlers,       *)
(* contents of the proposal and direct keys.                               *)
(*                                                                         *)
(* Four facts lean on each other.  A key has one seat or one to come,      *)
(* since only the writer of its fence may call, and only under the lock of *)
(* its row; the ledger never says that there is none while there is one,   *)
(* since whoever holds a booking names its seat and writes a doubt down    *)
(* before giving it back; and a proposal has seats under one key only,     *)
(* since a confirmation holds its lock and looks at the other contents.    *)
(* The fourth is that of the meetings: a seat is given back only for a     *)
(* confirmation that was rolled back before any meeting was stored.        *)
(***************************************************************************)
EXTENDS RoomBookings, TLAPS, FiniteSetTheorems

-----------------------------------------------------------------------------
(* The inductive invariant.                                                *)

Loaded(k) == k \in late \/ \E seat \in seats : seat.key = k

\* The number n, if it still exists outside, is a seat of the key k.
Names(n, k) == n \in 0 .. made /\ \A seat \in seats : seat.no = n => seat.key = k

\* What a handler may have in hand at each point of its request.
Asking == {"fencing", "locking", "reclaiming", "calling"}
RowKnown(row) ==
    /\ row \in Handlers
    /\ row.pc \notin {"idle", "rejecting"} => row.key \in Keys
    /\ row.pc \in Asking \cup {"idle", "rejecting"} => row.booking = NoBooking
    /\ row.pc \in {"answered"} \cup GivesBack => row.booking.status = "booked"
    /\ row.pc \in GivesBack => row.key \in Proposed
    /\ row.pc = "fencing" => ~row.created
    /\ row.pc \in {"reclaiming", "calling", "answered"} => row.created

RequestsAreKnown == \A s \in Servers : RowKnown(server[s])

Typing == TypeOK /\ RequestsAreKnown

\* One seat for a key, or one to come.
OneOfAKey ==
    /\ \A x, y \in seats : x.key = y.key => x = y
    /\ \A x \in seats : x.no \in 0 .. made /\ x.key \notin late

\* What the ledger says of the seats of a key.
LedgerTellsOfSeats ==
    \A k \in Keys :
        /\ attempt[k].status \in {"none", "refused", "compensated"} => ~Loaded(k)
        /\ attempt[k].status = "booked" => Names(attempt[k].seat, k)

\* s is the one that may call for its key, or just did.
Calls(s) == server[s].created /\ server[s].pc \in {"locking", "reclaiming", "calling", "answered"}

CallsUnderTheFence(s) ==
    Calls(s) =>
        /\ attempt[server[s].key].status \in {"pending", "needs_verification"}
        /\ server[s].key \notin late
        /\ server[s].pc # "answered" => ~Loaded(server[s].key)
        /\ server[s].pc \in {"calling", "answered"} =>
              rowLock[server[s].key] = s /\ attempt[server[s].key].status = "pending"
        /\ \A t \in Servers : Calls(t) /\ server[t].key = server[s].key => t = s

Seated(s) == \E seat \in seats : seat.no = server[s].booking.seat

\* A booking in hand names a seat of its key, and as long as there is one, the
\* attempt tells of it; once the doubt was to be marked, it is.
HoldsItsSeat(s) ==
    server[s].booking.status = "booked" =>
        /\ Names(server[s].booking.seat, server[s].key)
        /\ server[s].pc # "answered" /\ Seated(s) =>
              attempt[server[s].key].status \in {"booked", "needs_verification"}
        /\ server[s].pc \in GivesBack \ {"compensating"} /\ Seated(s) /\ ~attempt[server[s].key].stored =>
              attempt[server[s].key].status = "needs_verification"

\* s has given a seat back and not written it down yet.
GaveBack(s) == server[s].pc = "cancelled"

GivesBackOnce(s) ==
    GaveBack(s) =>
        /\ ~Loaded(server[s].key)
        /\ attempt[server[s].key].status \in {"booked", "needs_verification"}
        /\ \A t \in Servers : Calls(t) => server[t].key # server[s].key
        /\ \A t \in Servers : GaveBack(t) /\ server[t].key = server[s].key => t = s

HandlerInv(s) == CallsUnderTheFence(s) /\ HoldsItsSeat(s) /\ GivesBackOnce(s)

KeyInv == OneOfAKey /\ LedgerTellsOfSeats /\ \A s \in Servers : HandlerInv(s)

\* Requests to confirm hold the proposal until they have stored or rolled back.
Confirming(s) ==
    server[s].pc \in Asking \cup {"answered", "saving"} /\ server[s].key \in Proposed

ProposalIsLocked == \A s \in Servers : Confirming(s) => lock = s
StoredIsApproved == \A k \in Proposed : attempt[k].stored => proposal = "approved"
NoOtherContentIsLoaded ==
    /\ \A s \in Servers : Confirming(s) =>
          \A k \in Proposed : Loaded(k) => k = server[s].key
    /\ \A k, l \in Proposed : Loaded(k) /\ Loaded(l) => k = l
RejectedIsEmpty ==
    /\ "rejection" \notin crossed
    /\ proposal = "rejected" \/ \E s \in Servers : At(s, "rejecting")
    => lock = Nobody /\ \A k \in Proposed : ~Loaded(k)

ProposalInv ==
    ProposalIsLocked /\ StoredIsApproved /\ NoOtherContentIsLoaded /\ RejectedIsEmpty

\* While no proposal is confirmed under a compensation of it, what the ledger, a
\* handler or a meeting says is booked is there.  A seat is given back for a
\* confirmation that has lost the lock without storing a meeting.
Undisturbed == "compensation" \notin crossed
HasSeat(n, k) == \E seat \in seats : seat.no = n /\ seat.key = k
InHand(s) == server[s].pc \in {"answered", "saving"} /\ server[s].booking.status = "booked"

MeetingIsStored == \A k \in Keys : meeting[k].status = "booked" => attempt[k].stored
ConfirmedIsPending == \A s \in Servers : Confirming(s) => proposal = "pending"
NothingIsStoredMeanwhile ==
    \A t \in Servers : server[t].pc \in GivesBack =>
        /\ \A s \in Servers : ~Confirming(s)
        /\ \A k \in Proposed : ~attempt[k].stored
SeatsAreThere ==
    /\ \A s \in Servers : InHand(s) => HasSeat(server[s].booking.seat, server[s].key)
    /\ \A k \in Keys : attempt[k].status = "booked" => HasSeat(attempt[k].seat, k)
    /\ \A k \in Keys : meeting[k].status = "booked" => HasSeat(meeting[k].seat, k)

MeetingInv ==
    /\ MeetingIsStored /\ ConfirmedIsPending
    /\ Undisturbed => NothingIsStoredMeanwhile /\ SeatsAreThere

IndInv == Typing /\ KeyInv /\ ProposalInv /\ MeetingInv

-----------------------------------------------------------------------------
(* Types.                                                                  *)

Places == {"idle", "fencing", "locking", "reclaiming", "calling", "answered",
           "saving", "rejecting"} \cup GivesBack

\* A handler goes on with its request.
LEMMA HandlerMoves ==
  ASSUME Typing, NEW s \in Servers, NEW pc \in Places, NEW created \in BOOLEAN, NEW booking \in Bookings,
         \/ Goes(s, pc) /\ created = server[s].created /\ booking = server[s].booking
         \/ GoesAs(s, pc, created) /\ booking = server[s].booking
         \/ Learns(s, pc, booking) /\ created = server[s].created
  PROVE  /\ server' \in [Servers -> Handlers]
         /\ server'[s].pc = pc /\ server'[s].key = server[s].key
         /\ server'[s].created <=> created
         /\ server'[s].booking = booking
         /\ \A t \in Servers \ {s} : server'[t] = server[t]
         /\ RowKnown([pc |-> pc, key |-> server[s].key, created |-> created, booking |-> booking])
               => RequestsAreKnown'
<1> DEFINE row == [pc |-> pc, key |-> server[s].key, created |-> created, booking |-> booking]
<1>1. server \in [Servers -> Handlers]
  BY DEF Typing, TypeOK
<1>2. server' = [server EXCEPT ![s] = row]
  BY <1>1 DEF Goes, GoesAs, Learns, Handlers, Places
<1>3. row \in Handlers
  BY <1>1 DEF Handlers, Places
<1>4. row.pc = pc /\ row.key = server[s].key /\ (row.created <=> created) /\ row.booking = booking
  OBVIOUS
<1> HIDE DEF row
<1>5. server' \in [Servers -> Handlers] /\ server'[s] = row
      /\ \A t \in Servers \ {s} : server'[t] = server[t]
  BY <1>1, <1>2, <1>3
<1>6. RowKnown(row) => RequestsAreKnown'
  BY <1>5 DEF Typing, RequestsAreKnown
<1> QED BY <1>4, <1>5, <1>6 DEF row

\* It goes on with what it has.
LEMMA HandlerGoes ==
  ASSUME Typing, NEW s \in Servers, NEW pc \in Places, Goes(s, pc)
  PROVE  /\ server'[s].pc = pc /\ server'[s].key = server[s].key
         /\ server'[s].created <=> server[s].created
         /\ server'[s].booking = server[s].booking
         /\ \A t \in Servers \ {s} : server'[t] = server[t]
<1>1. server[s].created \in BOOLEAN /\ server[s].booking \in Bookings
  BY DEF Typing, TypeOK, Handlers
<1> QED BY <1>1, HandlerMoves

\* It goes on as the writer of the fence, or as another one.
LEMMA HandlerGoesAs ==
  ASSUME Typing, NEW s \in Servers, NEW pc \in Places, NEW created \in BOOLEAN, GoesAs(s, pc, created)
  PROVE  /\ server'[s].pc = pc /\ server'[s].key = server[s].key
         /\ server'[s].created <=> created
         /\ server'[s].booking = server[s].booking
         /\ \A t \in Servers \ {s} : server'[t] = server[t]
<1>1. server \in [Servers -> Handlers]
  BY DEF Typing, TypeOK
<1>2. /\ server'[s] = [server[s] EXCEPT !.pc = pc, !.created = created]
      /\ \A t \in Servers \ {s} : server'[t] = server[t]
  BY <1>1 DEF GoesAs
<1> QED BY <1>1, <1>2 DEF Handlers

\* It goes on with a booking.
LEMMA HandlerLearns ==
  ASSUME Typing, NEW s \in Servers, NEW pc \in Places, NEW booking \in Bookings, Learns(s, pc, booking)
  PROVE  /\ server'[s].pc = pc /\ server'[s].key = server[s].key
         /\ server'[s].created <=> server[s].created
         /\ server'[s].booking = booking
         /\ \A t \in Servers \ {s} : server'[t] = server[t]
<1>1. server \in [Servers -> Handlers]
  BY DEF Typing, TypeOK
<1>2. /\ server'[s] = [server[s] EXCEPT !.pc = pc, !.booking = booking]
      /\ \A t \in Servers \ {s} : server'[t] = server[t]
  BY <1>1 DEF Learns
<1> QED BY <1>1, <1>2 DEF Handlers

\* It begins one, or ends it.
LEMMA HandlerTurns ==
  ASSUME Typing, NEW s \in Servers, NEW row, RowKnown(row), server' = [server EXCEPT ![s] = row]
  PROVE  /\ server' \in [Servers -> Handlers] /\ RequestsAreKnown'
         /\ server'[s] = row /\ \A t \in Servers \ {s} : server'[t] = server[t]
<1>1. server \in [Servers -> Handlers] /\ row \in Handlers
  BY DEF Typing, TypeOK, RowKnown
<1> QED BY <1>1 DEF Typing, RequestsAreKnown

\* What is written into an attempt is an attempt.
LEMMA AttemptWritten ==
  ASSUME Typing, NEW k \in Keys,
         NEW status \in {"none", "pending", "booked", "compensated", "needs_verification", "refused"},
         NEW seat \in 0 .. MaxSeats, Writes(k, status, seat)
  PROVE  /\ attempt' \in [Keys -> Attempts]
         /\ attempt'[k].status = status /\ attempt'[k].seat = seat /\ attempt'[k].stored = attempt[k].stored
         /\ \A l \in Keys \ {k} : attempt'[l] = attempt[l]
<1>1. attempt \in [Keys -> Attempts]
  BY DEF Typing, TypeOK
<1> DEFINE row == [attempt[k] EXCEPT !.status = status, !.seat = seat]
<1>2. attempt' = [attempt EXCEPT ![k] = row]
  BY <1>1 DEF Writes
<1>3. row \in Attempts /\ row.status = status /\ row.seat = seat /\ row.stored = attempt[k].stored
  BY <1>1 DEF Attempts
<1> HIDE DEF row
<1> QED BY <1>1, <1>2, <1>3

\* The rows handlers start from and end at.
LEMMA FirstRows ==
  /\ RowKnown(NoRequest)
  /\ \A k \in Keys : RowKnown([NoRequest EXCEPT !.pc = "fencing", !.key = k])
  /\ RowKnown([NoRequest EXCEPT !.pc = "rejecting", !.key = Nobody])
<1>1. NoBooking \in Bookings
  BY BookingsAssumption DEF NoBooking, Bookings
<1>2. NoRequest = [pc |-> "idle", key |-> Nobody, created |-> FALSE, booking |-> NoBooking]
  BY DEF NoRequest
<1>3. NoRequest \in Handlers
  BY <1>1, <1>2 DEF Handlers, GivesBack
<1> QED BY <1>1, <1>2, <1>3 DEF RowKnown, Handlers, Asking, GivesBack

\* A request starts.
LEMMA StartTyped ==
  ASSUME Typing, NEW s \in Servers, NEW k, NEW pc, Starts(s, k, pc),
         (pc = "fencing" /\ k \in Keys) \/ (pc = "rejecting" /\ k = Nobody)
  PROVE  /\ server' \in [Servers -> Handlers] /\ RequestsAreKnown'
         /\ server'[s].pc = pc /\ server'[s].key = k /\ ~server'[s].created
         /\ server'[s].booking = NoBooking
         /\ \A t \in Servers \ {s} : server'[t] = server[t]
         /\ requests' \in 0 .. MaxRequests
<1> DEFINE row == [NoRequest EXCEPT !.pc = pc, !.key = k]
<1>1. RowKnown(row)
  BY FirstRows
<1>2. server' = [server EXCEPT ![s] = row]
  BY DEF Starts
<1>3. requests' \in 0 .. MaxRequests
  BY BookingsAssumption DEF Starts, Typing, TypeOK
<1>4. row.pc = pc /\ row.key = k /\ ~row.created /\ row.booking = NoBooking
  BY DEF NoRequest
<1> HIDE DEF row
<1> QED BY <1>1, <1>2, <1>3, <1>4, HandlerTurns

\* A request ends, and gives the proposal free.
LEMMA EndTyped ==
  ASSUME Typing, NEW s \in Servers, Ends(s)
  PROVE  /\ server' \in [Servers -> Handlers] /\ RequestsAreKnown'
         /\ server'[s] = [pc |-> "idle", key |-> Nobody, created |-> FALSE, booking |-> NoBooking]
         /\ \A t \in Servers \ {s} : server'[t] = server[t]
         /\ lock' \in Servers \cup {Nobody}
         /\ lock' = IF lock = s THEN Nobody ELSE lock
<1>1. server' = [server EXCEPT ![s] = NoRequest]
  BY DEF Ends
<1>2. NoRequest = [pc |-> "idle", key |-> Nobody, created |-> FALSE, booking |-> NoBooking]
  BY DEF NoRequest
<1>3. lock' \in Servers \cup {Nobody} /\ lock' = IF lock = s THEN Nobody ELSE lock
  BY DEF Ends, Unlock, Typing, TypeOK
<1> QED BY <1>1, <1>2, <1>3, FirstRows, HandlerTurns

\* What is known of a handler's row and of its attempt.
LEMMA HandlerKnown ==
  ASSUME Typing, NEW s \in Servers
  PROVE  /\ server[s] \in Handlers /\ RowKnown(server[s])
         /\ server[s].pc \in Places /\ server[s].created \in BOOLEAN
         /\ server[s].booking \in Bookings /\ server[s].booking.seat \in 0 .. MaxSeats
         /\ server[s].pc \notin {"idle", "rejecting"} =>
               server[s].key \in Keys /\ attempt[server[s].key] \in Attempts
         /\ Doubt \in Bookings /\ NoBooking \in Bookings
         /\ 0 \in 0 .. MaxSeats
<1>1. server[s] \in Handlers /\ RowKnown(server[s])
  BY DEF Typing, TypeOK, RequestsAreKnown
<1>2. 0 \in 0 .. MaxSeats
  BY BookingsAssumption
<1> QED BY <1>1, <1>2 DEF Handlers, Places, Bookings, Doubt, NoBooking, RowKnown, Typing, TypeOK

-----------------------------------------------------------------------------
(* Types.                                                                  *)

\* Every step keeps every type.
LEMMA TypeStep == Typing /\ [Next]_vars => Typing'
<1> SUFFICES ASSUME Typing, [Next]_vars PROVE Typing'
  OBVIOUS
<1>1. ASSUME NEW s \in Servers, NEW k \in Keys, Confirm(s, k) PROVE Typing'
  <2>1. server' \in [Servers -> Handlers] /\ RequestsAreKnown' /\ requests' \in 0 .. MaxRequests
    BY <1>1, StartTyped DEF Confirm
  <2> QED BY <1>1, <2>1 DEF Confirm, Typing, TypeOK
<1>2. ASSUME NEW s \in Servers, NEW k \in Keys, Create(s, k) PROVE Typing'
  <2>1. server' \in [Servers -> Handlers] /\ RequestsAreKnown' /\ requests' \in 0 .. MaxRequests
    BY <1>2, StartTyped DEF Create
  <2> QED BY <1>2, <2>1 DEF Create, Typing, TypeOK
<1>3. ASSUME NEW s \in Servers, BeginReject(s) PROVE Typing'
  <2>1. server' \in [Servers -> Handlers] /\ RequestsAreKnown' /\ requests' \in 0 .. MaxRequests
    BY <1>3, StartTyped DEF BeginReject
  <2> QED BY <1>3, <2>1 DEF BeginReject, Typing, TypeOK
<1>4. ASSUME NEW s \in Servers, EndReject(s) PROVE Typing'
  BY <1>4, EndTyped DEF EndReject, Typing, TypeOK
<1>5. ASSUME NEW s \in Servers, Fence(s) PROVE Typing'
  <2> DEFINE k == server[s].key
  <2>1. k \in Keys /\ server[s].booking = NoBooking /\ RowKnown(server[s])
    BY <1>5, HandlerKnown DEF Fence, At, RowKnown, Asking
  <2>2. attempt' \in [Keys -> Attempts]
    BY <1>5, <2>1, HandlerKnown, AttemptWritten DEF Fence, Typing, TypeOK
  <2>3. \E created \in BOOLEAN : GoesAs(s, "locking", created)
    BY <1>5 DEF Fence
  <2>4. PICK created \in BOOLEAN : GoesAs(s, "locking", created)
    BY <2>3
  <2>5. RowKnown([pc |-> "locking", key |-> k, created |-> created, booking |-> NoBooking])
    BY <2>1, HandlerKnown DEF RowKnown, Handlers, Asking, GivesBack
  <2>6. server' \in [Servers -> Handlers] /\ RequestsAreKnown'
    BY <2>1, <2>4, <2>5, HandlerKnown, HandlerMoves DEF Places
  <2> QED BY <1>5, <2>2, <2>6 DEF Fence, Typing, TypeOK
<1>6. ASSUME NEW s \in Servers, NEW k \in Keys, RefusedBefore(s, k) PROVE Typing'
  BY <1>6, EndTyped DEF RefusedBefore, Typing, TypeOK
<1>7. ASSUME NEW s \in Servers, NEW k \in Keys, Reclaim(s, k) PROVE Typing'
  <2>1. k = server[s].key /\ server[s].booking = NoBooking /\ RowKnown(server[s])
    BY <1>7, HandlerKnown DEF Reclaim, Reads, RowKnown, Asking
  <2>2. attempt' \in [Keys -> Attempts]
    BY <1>7, HandlerKnown, AttemptWritten DEF Reclaim
  <2>3. RowKnown([pc |-> "reclaiming", key |-> k, created |-> TRUE, booking |-> NoBooking])
    BY <2>1, HandlerKnown DEF RowKnown, Handlers, Asking, GivesBack
  <2>4. server' \in [Servers -> Handlers] /\ RequestsAreKnown'
    BY <1>7, <2>1, <2>3, HandlerKnown, HandlerMoves DEF Reclaim, Places
  <2> QED BY <1>7, <2>2, <2>4 DEF Reclaim, Typing, TypeOK
<1>8. ASSUME NEW s \in Servers, NEW k \in Keys, Restore(s, k) PROVE Typing'
  <2> DEFINE booking == [status |-> attempt[k].status, seat |-> attempt[k].seat]
  <2>1. k = server[s].key /\ booking \in Bookings
    BY <1>8 DEF Restore, Reads, Typing, TypeOK, Attempts, Bookings
  <2>2. RowKnown([pc |-> "saving", key |-> k, created |-> server[s].created, booking |-> booking])
    BY <2>1, HandlerKnown DEF RowKnown, Handlers, Asking, GivesBack
  <2>3. Learns(s, "saving", booking)
    BY <1>8 DEF Restore
  <2> HIDE DEF booking
  <2>4. server' \in [Servers -> Handlers] /\ RequestsAreKnown'
    BY <2>1, <2>2, <2>3, HandlerKnown, HandlerMoves DEF Places
  <2> QED BY <1>8, <2>4 DEF Restore, Typing, TypeOK
<1>9. ASSUME NEW s \in Servers, NEW k \in Keys, DoubtPending(s, k) PROVE Typing'
  <2>1. k = server[s].key
    BY <1>9 DEF DoubtPending, Reads
  <2>2. attempt' \in [Keys -> Attempts]
    BY <1>9, HandlerKnown, AttemptWritten DEF DoubtPending
  <2>3. RowKnown([pc |-> "saving", key |-> k, created |-> server[s].created, booking |-> Doubt])
    BY <2>1, HandlerKnown DEF RowKnown, Handlers, Asking, GivesBack
  <2>4. server' \in [Servers -> Handlers] /\ RequestsAreKnown'
    BY <1>9, <2>1, <2>3, HandlerKnown, HandlerMoves DEF DoubtPending, Places
  <2> QED BY <1>9, <2>2, <2>4 DEF DoubtPending, Typing, TypeOK
<1>10. ASSUME NEW s \in Servers, NEW k \in Keys, Call(s, k) PROVE Typing'
  <2>1. k = server[s].key /\ server[s].booking = NoBooking /\ server[s].created
    BY <1>10, HandlerKnown DEF Call, Reads, RowKnown, Asking
  <2>2. RowKnown([pc |-> "calling", key |-> k, created |-> server[s].created, booking |-> NoBooking])
    BY <2>1, HandlerKnown DEF RowKnown, Handlers, Asking, GivesBack
  <2>3. server' \in [Servers -> Handlers] /\ RequestsAreKnown'
    BY <1>10, <2>1, <2>2, HandlerKnown, HandlerMoves DEF Call, Places
  <2> QED BY <1>10, <2>3 DEF Call, Typing, TypeOK
<1>11. ASSUME NEW s \in Servers, BookSeat(s) PROVE Typing'
  <2> DEFINE booking == [status |-> "booked", seat |-> made + 1]
  <2>1. server[s].key \in Keys /\ server[s].created
    BY <1>11, HandlerKnown DEF BookSeat, At, RowKnown
  <2>2. /\ made' \in 0 .. MaxSeats /\ made + 1 \in 0 .. MaxSeats
        /\ seats' \subseteq [no : 1 .. MaxSeats, key : Keys]
    BY <1>11, <2>1, BookingsAssumption DEF BookSeat, Books, Typing, TypeOK
  <2>3. booking \in Bookings
    BY <2>2 DEF Bookings
  <2>4. RowKnown([pc |-> "answered", key |-> server[s].key, created |-> server[s].created, booking |-> booking])
    BY <2>1, <2>3, HandlerKnown DEF RowKnown, Handlers, Asking, GivesBack
  <2>5. Learns(s, "answered", booking)
    BY <1>11 DEF BookSeat
  <2> HIDE DEF booking
  <2>6. server' \in [Servers -> Handlers] /\ RequestsAreKnown'
    BY <2>3, <2>4, <2>5, HandlerKnown, HandlerMoves DEF Places
  <2> QED BY <1>11, <2>2, <2>6 DEF BookSeat, Typing, TypeOK
<1>12. ASSUME NEW s \in Servers, RecordSeat(s) PROVE Typing'
  <2>1. server[s].key \in Keys /\ server[s].booking.status = "booked"
    BY <1>12, HandlerKnown DEF RecordSeat, At, RowKnown
  <2>2. attempt' \in [Keys -> Attempts]
    BY <1>12, <2>1, HandlerKnown, AttemptWritten DEF RecordSeat
  <2>3. RowKnown([pc |-> "saving", key |-> server[s].key, created |-> server[s].created,
                  booking |-> server[s].booking])
    BY <2>1, HandlerKnown DEF RowKnown, Handlers, Asking, GivesBack
  <2>4. server' \in [Servers -> Handlers] /\ RequestsAreKnown'
    BY <1>12, <2>3, HandlerKnown, HandlerMoves DEF RecordSeat, Places
  <2>5. rowLock' \in [Keys -> Servers \cup {Nobody}]
    BY <1>12 DEF RecordSeat, Released, Typing, TypeOK
  <2> QED BY <1>12, <2>2, <2>4, <2>5 DEF RecordSeat, Typing, TypeOK
<1>13. ASSUME NEW s \in Servers, RecordRefusal(s) PROVE Typing'
  <2>1. server[s].key \in Keys
    BY <1>13, HandlerKnown DEF RecordRefusal, At, RowKnown
  <2>2. attempt[server[s].key].seat \in 0 .. MaxSeats
    BY <2>1 DEF Typing, TypeOK, Attempts
  <2>3. attempt' \in [Keys -> Attempts]
    BY <1>13, <2>1, <2>2, AttemptWritten DEF RecordRefusal
  <2>4. rowLock' \in [Keys -> Servers \cup {Nobody}]
    BY <1>13 DEF RecordRefusal, Released, Typing, TypeOK
  <2> QED BY <1>13, <2>3, <2>4, EndTyped DEF RecordRefusal, Typing, TypeOK
<1>14. ASSUME NEW s \in Servers, LoseAnswer(s) PROVE Typing'
  <2>1. server[s].key \in Keys
    BY <1>14, HandlerKnown DEF LoseAnswer, RowKnown
  <2>2. attempt' \in [Keys -> Attempts]
    BY <1>14, <2>1, HandlerKnown, AttemptWritten DEF LoseAnswer
  <2>3. RowKnown([pc |-> "saving", key |-> server[s].key, created |-> server[s].created, booking |-> Doubt])
    BY <2>1, HandlerKnown DEF RowKnown, Handlers, Asking, GivesBack
  <2>4. server' \in [Servers -> Handlers] /\ RequestsAreKnown'
    BY <1>14, <2>3, HandlerKnown, HandlerMoves DEF LoseAnswer, Places
  <2>5. rowLock' \in [Keys -> Servers \cup {Nobody}] /\ late' \subseteq Keys /\ faults' \in 0 .. MaxFaults
    BY <1>14, <2>1, BookingsAssumption DEF LoseAnswer, MayBeLate, Released, Typing, TypeOK
  <2> QED BY <1>14, <2>2, <2>4, <2>5 DEF LoseAnswer, Typing, TypeOK
<1>15. ASSUME NEW s \in Servers, Store(s) PROVE Typing'
  <2>1. server[s].key \in Keys /\ server[s].booking \in Bookings
    BY <1>15, HandlerKnown DEF Store, At, RowKnown
  <2>2. attempt' \in [Keys -> Attempts] /\ meeting' \in [Keys -> Bookings]
    <3>1. CASE attempt' = [attempt EXCEPT ![server[s].key].stored = TRUE]
      <4>1. attempt' \in [Keys -> Attempts]
        BY <2>1, <3>1 DEF Typing, TypeOK, Attempts
      <4> QED BY <1>15, <2>1, <4>1 DEF Store, Typing, TypeOK
    <3>2. CASE UNCHANGED <<attempt, meeting>>
      BY <3>2 DEF Typing, TypeOK
    <3> QED BY <1>15, <3>1, <3>2 DEF Store
  <2>3. proposal' \in {"pending", "approved", "rejected"}
    BY <1>15 DEF Store, Typing, TypeOK
  <2> QED BY <1>15, <2>2, <2>3, EndTyped DEF Store, Typing, TypeOK
<1>16. ASSUME NEW s \in Servers, RollBack(s) PROVE Typing'
  <2>1. CASE server[s].key \in Proposed /\ server[s].booking.status = "booked"
    <3>1. RowKnown([pc |-> "compensating", key |-> server[s].key, created |-> server[s].created,
                    booking |-> server[s].booking])
      BY <2>1, HandlerKnown DEF RowKnown, Handlers, Asking, GivesBack, Keys
    <3>2. server' \in [Servers -> Handlers] /\ RequestsAreKnown'
      BY <1>16, <2>1, <3>1, HandlerKnown, HandlerMoves DEF RollBack, Places, GivesBack
    <3>3. lock' \in Servers \cup {Nobody}
      BY <1>16, <2>1 DEF RollBack, Unlock, Typing, TypeOK
    <3> QED BY <1>16, <3>2, <3>3 DEF RollBack, Typing, TypeOK
  <2>2. CASE ~(server[s].key \in Proposed /\ server[s].booking.status = "booked")
    BY <1>16, <2>2, EndTyped DEF RollBack, Typing, TypeOK
  <2> QED BY <2>1, <2>2
<1>17. ASSUME NEW s \in Servers, MarkDoubt(s) PROVE Typing'
  <2>1. /\ server[s].key \in Keys /\ server[s].key \in Proposed /\ server[s].booking.status = "booked"
        /\ server[s].booking.seat \in 0 .. MaxSeats
    BY <1>17, HandlerKnown DEF MarkDoubt, At, RowKnown, GivesBack
  <2>2. attempt' \in [Keys -> Attempts]
    BY <1>17, <2>1, HandlerKnown, AttemptWritten DEF MarkDoubt, Persists, Typing, TypeOK
  <2>3. RowKnown([pc |-> "cancelling", key |-> server[s].key, created |-> server[s].created,
                  booking |-> server[s].booking])
    BY <2>1, HandlerKnown DEF RowKnown, Handlers, Asking, GivesBack
  <2>4. server' \in [Servers -> Handlers] /\ RequestsAreKnown'
    BY <1>17, <2>3, HandlerKnown, HandlerMoves DEF MarkDoubt, Places, GivesBack
  <2> QED BY <1>17, <2>2, <2>4 DEF MarkDoubt, Typing, TypeOK
<1>18. ASSUME NEW s \in Servers, CancelSeat(s) PROVE Typing'
  <2>1. server[s].key \in Proposed /\ server[s].booking.status = "booked"
    BY <1>18, HandlerKnown DEF CancelSeat, At, RowKnown, GivesBack
  <2>2. RowKnown([pc |-> "cancelled", key |-> server[s].key, created |-> server[s].created,
                  booking |-> server[s].booking])
    BY <2>1, HandlerKnown DEF RowKnown, Handlers, Asking, GivesBack, Keys
  <2>3. server' \in [Servers -> Handlers] /\ RequestsAreKnown'
    BY <1>18, <2>2, HandlerKnown, HandlerMoves DEF CancelSeat, Places, GivesBack
  <2> QED BY <1>18, <2>3 DEF CancelSeat, Typing, TypeOK
<1>19. ASSUME NEW s \in Servers, CancelFails(s) PROVE Typing'
  <2>1. server[s].key \in Proposed /\ server[s].booking.status = "booked"
    BY <1>19, HandlerKnown DEF CancelFails, At, RowKnown, GivesBack
  <2>2. RowKnown([pc |-> "uncertain", key |-> server[s].key, created |-> server[s].created,
                  booking |-> server[s].booking])
    BY <2>1, HandlerKnown DEF RowKnown, Handlers, Asking, GivesBack, Keys
  <2>3. server' \in [Servers -> Handlers] /\ RequestsAreKnown'
    BY <1>19, <2>2, HandlerKnown, HandlerMoves DEF CancelFails, Places, GivesBack
  <2> QED BY <1>19, <2>3 DEF CancelFails, Typing, TypeOK
<1>20. ASSUME NEW s \in Servers, Conclude(s) PROVE Typing'
  <2>1. server[s].key \in Keys /\ server[s].booking.seat \in 0 .. MaxSeats /\ 0 \in 0 .. MaxSeats
    BY <1>20, HandlerKnown DEF Conclude, At, RowKnown
  <2>2. attempt' \in [Keys -> Attempts]
    BY <1>20, <2>1, AttemptWritten DEF Conclude, Persists, Typing, TypeOK
  <2> QED BY <1>20, <2>2, EndTyped DEF Conclude, Typing, TypeOK
<1>21. ASSUME NEW s \in Servers, Crash(s) PROVE Typing'
  <2>1. server[s].pc = "calling" => server[s].key \in Keys
    BY HandlerKnown
  <2>2. rowLock' \in [Keys -> Servers \cup {Nobody}] /\ late' \subseteq Keys /\ faults' \in 0 .. MaxFaults
    BY <1>21, <2>1, BookingsAssumption DEF Crash, MayBeLate, At, Typing, TypeOK
  <2> QED BY <1>21, <2>2, EndTyped DEF Crash, Typing, TypeOK
<1>22. ASSUME NEW k \in Keys, BookLate(k) PROVE Typing'
  BY <1>22, BookingsAssumption DEF BookLate, Books, Typing, TypeOK, RequestsAreKnown
<1>24. ASSUME ConfirmWithoutRoom PROVE Typing'
  <2>1. requests' \in 0 .. MaxRequests
    BY <1>24, BookingsAssumption DEF ConfirmWithoutRoom, Typing, TypeOK
  <2> QED BY <1>24, <2>1 DEF ConfirmWithoutRoom, Typing, TypeOK, RequestsAreKnown
<1>23. CASE UNCHANGED vars
  BY <1>23 DEF vars, Typing, TypeOK, RequestsAreKnown
<1> QED BY <1>1, <1>2, <1>3, <1>4, <1>5, <1>6, <1>7, <1>8, <1>9, <1>10, <1>11, <1>12, <1>13, <1>14,
           <1>15, <1>16, <1>17, <1>18, <1>19, <1>20, <1>21, <1>22, <1>23, <1>24 DEF Next, Handles, Attempted

-----------------------------------------------------------------------------
(* The keys.                                                               *)

Invs == Typing /\ KeyInv

\* A step that changes nothing but one handler, who neither calls nor has given back.
LEMMA QuietStep ==
  ASSUME Invs, NEW s \in Servers, UNCHANGED <<attempt, seats, late, made>>,
         \A t \in Servers \ {s} : server'[t] = server[t],
         \A k \in Keys : rowLock[k] # s => rowLock'[k] = rowLock[k],
         ~Calls(s)', ~GaveBack(s)', HoldsItsSeat(s)'
  PROVE  KeyInv'
<1>1. OneOfAKey'
  BY DEF Invs, KeyInv, OneOfAKey
<1>2. LedgerTellsOfSeats'
  BY DEF Invs, KeyInv, LedgerTellsOfSeats, Loaded, Names
<1>3. HandlerInv(s)'
  BY DEF HandlerInv, CallsUnderTheFence, GivesBackOnce
<1>4. ASSUME NEW t \in Servers, t # s PROVE HandlerInv(t)'
  <2>1. HandlerInv(t) /\ server'[t] = server[t]
    BY <1>4 DEF Invs, KeyInv
  <2>2. CallsUnderTheFence(t)'
    <3>1. \A u \in Servers : Calls(u)' => u # s /\ server'[u] = server[u] /\ Calls(u)
      BY DEF Calls
    <3>2. Calls(t) => server[t].key \in Keys
      BY HandlerKnown DEF Invs, Calls
    <3> QED BY <1>4, <2>1, <3>1, <3>2 DEF HandlerInv, CallsUnderTheFence, Loaded
  <2>3. HoldsItsSeat(t)'
    BY <2>1 DEF HandlerInv, HoldsItsSeat, Names, Seated
  <2>4. GivesBackOnce(t)'
    <3>1. \A u \in Servers : Calls(u)' \/ GaveBack(u)' => u # s /\ server'[u] = server[u]
      BY DEF Calls, GaveBack
    <3> QED BY <2>1, <3>1 DEF HandlerInv, GivesBackOnce, Loaded, Calls, GaveBack
  <2> QED BY <2>2, <2>3, <2>4 DEF HandlerInv
<1> QED BY <1>1, <1>2, <1>3, <1>4 DEF KeyInv

\* A request that starts, or ends and leaves everything as it is.
LEMMA StartOrEndStep ==
  ASSUME Invs, NEW s \in Servers, NEW k,
         \/ \E pc \in {"fencing", "rejecting"} :
               Starts(s, k, pc) /\ (IF pc = "fencing" THEN k \in Keys ELSE k = Nobody)
         \/ Ends(s),
         UNCHANGED <<attempt, rowLock, seats, late, made>>
  PROVE  KeyInv'
<1>1. CASE \E pc \in {"fencing", "rejecting"} :
               Starts(s, k, pc) /\ (IF pc = "fencing" THEN k \in Keys ELSE k = Nobody)
  <2>1. PICK pc \in {"fencing", "rejecting"} :
               Starts(s, k, pc) /\ (IF pc = "fencing" THEN k \in Keys ELSE k = Nobody)
    BY <1>1
  <2>2. /\ server'[s].pc = pc /\ server'[s].booking = NoBooking
        /\ \A t \in Servers \ {s} : server'[t] = server[t]
    BY <2>1, StartTyped DEF Invs
  <2>3. ~Calls(s)' /\ ~GaveBack(s)' /\ HoldsItsSeat(s)'
    BY <2>2 DEF Calls, GaveBack, HoldsItsSeat, NoBooking
  <2> QED BY <2>2, <2>3, QuietStep
<1>2. CASE Ends(s)
  <2>1. /\ server'[s].pc = "idle" /\ server'[s].booking = NoBooking
        /\ \A t \in Servers \ {s} : server'[t] = server[t]
    BY <1>2, EndTyped DEF Invs
  <2>2. ~Calls(s)' /\ ~GaveBack(s)' /\ HoldsItsSeat(s)'
    BY <2>1 DEF Calls, GaveBack, HoldsItsSeat, NoBooking
  <2> QED BY <2>1, <2>2, QuietStep
<1> QED BY <1>1, <1>2


\* Every step keeps, for each key, the one seat, what the ledger tells of it and what
\* handlers know of it.
LEMMA KeyStep == Invs /\ [Next]_vars => KeyInv'
<1> SUFFICES ASSUME Invs, [Next]_vars PROVE KeyInv'
  OBVIOUS
<1> USE DEF Invs
<1>a. ASSUME NEW t \in Servers
      PROVE  /\ HandlerInv(t) /\ server[t] \in Handlers /\ RowKnown(server[t])
             /\ Calls(t) \/ GaveBack(t) \/ server[t].booking.status = "booked" => server[t].key \in Keys
  <2>1. server[t].booking.status = "booked" => server[t].pc \notin {"idle", "rejecting"}
    BY HandlerKnown DEF RowKnown, NoBooking
  <2> QED BY <2>1, HandlerKnown DEF KeyInv, Calls, GaveBack
<1>b. OneOfAKey /\ LedgerTellsOfSeats /\ made \in Nat /\ attempt \in [Keys -> Attempts]
      /\ \A seat \in seats : seat.key \in Keys /\ seat.no \in Nat
  BY DEF KeyInv, Typing, TypeOK
<1>1. ASSUME NEW s \in Servers, NEW k \in Keys, Confirm(s, k) \/ Create(s, k) PROVE KeyInv'
  BY <1>1, StartOrEndStep DEF Confirm, Create
<1>2. ASSUME NEW s \in Servers, BeginReject(s) PROVE KeyInv'
  BY <1>2, StartOrEndStep DEF BeginReject
<1>3. ASSUME NEW s \in Servers, EndReject(s) PROVE KeyInv'
  BY <1>3, StartOrEndStep DEF EndReject
<1>4. ASSUME NEW s \in Servers, NEW k \in Keys, RefusedBefore(s, k) PROVE KeyInv'
  BY <1>4, StartOrEndStep DEF RefusedBefore
<1> USE DEF OneOfAKey, LedgerTellsOfSeats, HandlerInv, CallsUnderTheFence, HoldsItsSeat, GivesBackOnce,
            Loaded, Names, Calls, Seated, GaveBack, GivesBack, NoBooking, Doubt
<1>5. ASSUME NEW s \in Servers, Fence(s), attempt[server[s].key].status = "none" PROVE KeyInv'
  <2> DEFINE k == server[s].key
  <2>1. k \in Keys /\ server[s].booking = NoBooking
    BY <1>5, <1>a, HandlerKnown DEF Fence, At, RowKnown, Asking
  <2>2. /\ attempt'[k].status = "pending" /\ attempt'[k].stored = attempt[k].stored
        /\ \A l \in Keys \ {k} : attempt'[l] = attempt[l]
    BY <1>5, <2>1, HandlerKnown, AttemptWritten DEF Fence
  <2>3. /\ server'[s].pc = "locking" /\ server'[s].key = k /\ server'[s].created
        /\ server'[s].booking = NoBooking
        /\ \A t \in Servers \ {s} : server'[t] = server[t]
    BY <1>5, <2>1, HandlerKnown, HandlerGoesAs DEF Fence, Places
  <2>4. server[s].pc = "fencing" /\ attempt[k].status = "none"
        /\ UNCHANGED <<rowLock, seats, late, made>>
    BY <1>5 DEF Fence, At
  <2>a. OneOfAKey'
    BY <1>a, <1>b, <2>1, <2>2, <2>3, <2>4
  <2>b. LedgerTellsOfSeats'
    BY <1>a, <1>b, <2>1, <2>2, <2>3, <2>4
  <2>c. ASSUME NEW t \in Servers PROVE CallsUnderTheFence(t)'
    BY <1>a, <1>b, <2>c, <2>1, <2>2, <2>3, <2>4
  <2>d. ASSUME NEW t \in Servers PROVE HoldsItsSeat(t)'
    BY <1>a, <1>b, <2>d, <2>1, <2>2, <2>3, <2>4
  <2>e. ASSUME NEW t \in Servers PROVE GivesBackOnce(t)'
    BY <1>a, <1>b, <2>e, <2>1, <2>2, <2>3, <2>4
  <2> QED BY <2>a, <2>b, <2>c, <2>d, <2>e DEF KeyInv
<1>6. ASSUME NEW s \in Servers, Fence(s), attempt[server[s].key].status # "none" PROVE KeyInv'
  <2>1. server[s].booking = NoBooking
    BY <1>6, <1>a DEF Fence, At, RowKnown, Asking
  <2>2. /\ ~server'[s].created /\ server'[s].booking = NoBooking /\ server'[s].pc = "locking"
        /\ \A t \in Servers \ {s} : server'[t] = server[t]
    BY <1>6, <2>1, HandlerKnown, HandlerGoesAs DEF Fence, Places
  <2> QED BY <1>6, <2>2, QuietStep DEF Fence
<1>7. ASSUME NEW s \in Servers, NEW k \in Keys, Reclaim(s, k) PROVE KeyInv'
  <2>1. /\ k = server[s].key /\ server[s].booking = NoBooking /\ server[s].pc = "locking"
        /\ attempt[k].status = "compensated" /\ rowLock[k] = Nobody
        /\ UNCHANGED <<rowLock, seats, late, made>>
    BY <1>7, <1>a DEF Reclaim, Reads, At, RowKnown, Asking
  <2>2. /\ attempt'[k].status = "pending" /\ attempt'[k].stored = attempt[k].stored
        /\ \A l \in Keys \ {k} : attempt'[l] = attempt[l]
    BY <1>7, HandlerKnown, AttemptWritten DEF Reclaim
  <2>3. /\ server'[s].pc = "reclaiming" /\ server'[s].key = k /\ server'[s].created
        /\ server'[s].booking = NoBooking
        /\ \A t \in Servers \ {s} : server'[t] = server[t]
    BY <1>7, <2>1, HandlerKnown, HandlerGoesAs DEF Reclaim, Places
  <2>a. OneOfAKey'
    BY <1>a, <1>b, <2>1, <2>2, <2>3
  <2>b. LedgerTellsOfSeats'
    BY <1>a, <1>b, <2>1, <2>2, <2>3
  <2>c. ASSUME NEW t \in Servers PROVE CallsUnderTheFence(t)'
    BY <1>a, <1>b, <2>c, <2>1, <2>2, <2>3
  <2>d. ASSUME NEW t \in Servers PROVE HoldsItsSeat(t)'
    BY <1>a, <1>b, <2>d, <2>1, <2>2, <2>3
  <2>e. ASSUME NEW t \in Servers PROVE GivesBackOnce(t)'
    BY <1>a, <1>b, <2>e, <2>1, <2>2, <2>3
  <2> QED BY <2>a, <2>b, <2>c, <2>d, <2>e DEF KeyInv
<1>8. ASSUME NEW s \in Servers, NEW k \in Keys, Restore(s, k) PROVE KeyInv'
  <2> DEFINE booking == [status |-> attempt[k].status, seat |-> attempt[k].seat]
  <2>1. k = server[s].key /\ attempt[k].status \in {"booked", "needs_verification"}
        /\ UNCHANGED <<attempt, rowLock, seats, late, made>>
    BY <1>8 DEF Restore, Reads
  <2>2. booking \in Bookings /\ Learns(s, "saving", booking)
    BY <1>8, <2>1 DEF Restore, Bookings, Typing, TypeOK, Attempts
  <2>3. booking.status = attempt[k].status /\ booking.seat = attempt[k].seat
    OBVIOUS
  <2> HIDE DEF booking
  <2>4. /\ server'[s].pc = "saving" /\ server'[s].key = k /\ server'[s].booking = booking
        /\ \A t \in Servers \ {s} : server'[t] = server[t]
    BY <2>1, <2>2, HandlerKnown, HandlerLearns DEF Places
  <2>5. HoldsItsSeat(s)' /\ ~Calls(s)' /\ ~GaveBack(s)'
    BY <1>b, <2>1, <2>3, <2>4
  <2> QED BY <2>1, <2>4, <2>5, QuietStep
<1>9. ASSUME NEW s \in Servers, NEW k \in Keys, DoubtPending(s, k) PROVE KeyInv'
  <2>1. /\ k = server[s].key /\ ~server[s].created
        /\ attempt[k].status = "pending" /\ rowLock[k] = Nobody
        /\ UNCHANGED <<rowLock, seats, late, made>>
    BY <1>9 DEF DoubtPending, Reads
  <2>2. /\ attempt'[k].status = "needs_verification" /\ attempt'[k].stored = attempt[k].stored
        /\ \A l \in Keys \ {k} : attempt'[l] = attempt[l]
    BY <1>9, HandlerKnown, AttemptWritten DEF DoubtPending
  <2>3. /\ server'[s].pc = "saving" /\ server'[s].booking = Doubt
        /\ \A t \in Servers \ {s} : server'[t] = server[t]
    BY <1>9, HandlerKnown, HandlerLearns DEF DoubtPending, Places
  <2>4. Nobody \notin Servers
    BY BookingsAssumption DEF Nobody
  <2>a. OneOfAKey'
    BY <1>a, <1>b, <2>1, <2>2, <2>3, <2>4
  <2>b. LedgerTellsOfSeats'
    BY <1>a, <1>b, <2>1, <2>2, <2>3, <2>4
  <2>c. ASSUME NEW t \in Servers PROVE CallsUnderTheFence(t)'
    BY <1>a, <1>b, <2>c, <2>1, <2>2, <2>3, <2>4
  <2>d. ASSUME NEW t \in Servers PROVE HoldsItsSeat(t)'
    BY <1>a, <1>b, <2>d, <2>1, <2>2, <2>3, <2>4
  <2>e. ASSUME NEW t \in Servers PROVE GivesBackOnce(t)'
    BY <1>a, <1>b, <2>e, <2>1, <2>2, <2>3, <2>4
  <2> QED BY <2>a, <2>b, <2>c, <2>d, <2>e DEF KeyInv
<1>10. ASSUME NEW s \in Servers, NEW k \in Keys, Call(s, k) PROVE KeyInv'
  <2>1. /\ k = server[s].key /\ server[s].booking = NoBooking /\ server[s].created
        /\ server[s].pc \in {"locking", "reclaiming"} /\ rowLock[k] = Nobody
        /\ attempt[k].status = "pending" \/ attempt[k].status = "compensated"
        /\ UNCHANGED <<attempt, seats, late, made>>
    BY <1>10, <1>a DEF Call, Reads, RowKnown, Asking
  <2>2. /\ server'[s].pc = "calling" /\ server'[s].key = k /\ server'[s].created
        /\ server'[s].booking = NoBooking
        /\ \A t \in Servers \ {s} : server'[t] = server[t]
    BY <1>10, <2>1, HandlerKnown, HandlerGoes DEF Call, Places
  <2>3. rowLock'[k] = s /\ \A l \in Keys \ {k} : rowLock'[l] = rowLock[l]
    BY <1>10 DEF Call, Typing, TypeOK
  <2>a. OneOfAKey'
    BY <1>a, <1>b, <2>1, <2>2, <2>3
  <2>b. LedgerTellsOfSeats'
    BY <1>a, <1>b, <2>1, <2>2, <2>3
  <2>c. ASSUME NEW t \in Servers PROVE CallsUnderTheFence(t)'
    BY <1>a, <1>b, <2>c, <2>1, <2>2, <2>3
  <2>d. ASSUME NEW t \in Servers PROVE HoldsItsSeat(t)'
    BY <1>a, <1>b, <2>d, <2>1, <2>2, <2>3
  <2>e. ASSUME NEW t \in Servers PROVE GivesBackOnce(t)'
    BY <1>a, <1>b, <2>e, <2>1, <2>2, <2>3
  <2> QED BY <2>a, <2>b, <2>c, <2>d, <2>e DEF KeyInv
<1>11. ASSUME NEW s \in Servers, BookSeat(s) PROVE KeyInv'
  <2> DEFINE k == server[s].key
           booking == [status |-> "booked", seat |-> made + 1]
           new == [no |-> made + 1, key |-> k]
  <2>1. /\ k \in Keys /\ server[s].created /\ server[s].pc = "calling"
        /\ made' = made + 1 /\ seats' = seats \cup {new} /\ booking \in Bookings
        /\ UNCHANGED <<attempt, rowLock, late>>
    BY <1>11, <1>a, BookingsAssumption DEF BookSeat, Books, At, RowKnown, Bookings, Typing, TypeOK
  <2>2. new.no = made + 1 /\ new.key = k /\ booking.status = "booked" /\ booking.seat = made + 1
    OBVIOUS
  <2>3. Learns(s, "answered", booking)
    BY <1>11 DEF BookSeat
  <2> HIDE DEF booking, new
  <2>4. /\ server'[s].pc = "answered" /\ server'[s].key = k /\ server'[s].created
        /\ server'[s].booking = booking
        /\ \A t \in Servers \ {s} : server'[t] = server[t]
    BY <2>1, <2>3, HandlerKnown, HandlerLearns DEF Places
  <2>a. OneOfAKey'
    BY <1>a, <1>b, <2>1, <2>2, <2>4
  <2>b. LedgerTellsOfSeats'
    BY <1>a, <1>b, <2>1, <2>2, <2>4
  <2>c. ASSUME NEW t \in Servers PROVE CallsUnderTheFence(t)'
    BY <1>a, <1>b, <2>c, <2>1, <2>2, <2>4
  <2>d. ASSUME NEW t \in Servers PROVE HoldsItsSeat(t)'
    BY <1>a, <1>b, <2>d, <2>1, <2>2, <2>4
  <2>e. ASSUME NEW t \in Servers PROVE GivesBackOnce(t)'
    BY <1>a, <1>b, <2>e, <2>1, <2>2, <2>4
  <2> QED BY <2>a, <2>b, <2>c, <2>d, <2>e DEF KeyInv
<1>12. ASSUME NEW s \in Servers, RecordSeat(s) PROVE KeyInv'
  <2> DEFINE k == server[s].key
  <2>1. /\ k \in Keys /\ server[s].created /\ server[s].pc = "answered"
        /\ server[s].booking.status = "booked"
        /\ UNCHANGED <<seats, late, made>>
    BY <1>12, <1>a DEF RecordSeat, At, RowKnown
  <2>2. /\ attempt'[k].status = "booked" /\ attempt'[k].seat = server[s].booking.seat
        /\ attempt'[k].stored = attempt[k].stored
        /\ \A l \in Keys \ {k} : attempt'[l] = attempt[l]
    BY <1>12, <2>1, HandlerKnown, AttemptWritten DEF RecordSeat
  <2>3. /\ server'[s].pc = "saving" /\ server'[s].key = k /\ server'[s].booking = server[s].booking
        /\ \A t \in Servers \ {s} : server'[t] = server[t]
    BY <1>12, HandlerKnown, HandlerGoes DEF RecordSeat, Places
  <2>4. \A l \in Keys \ {k} : rowLock'[l] = rowLock[l]
    BY <1>12 DEF RecordSeat, Released, Typing, TypeOK
  <2>a. OneOfAKey'
    BY <1>a, <1>b, <2>1, <2>2, <2>3, <2>4
  <2>b. LedgerTellsOfSeats'
    BY <1>a, <1>b, <2>1, <2>2, <2>3, <2>4
  <2>c. ASSUME NEW t \in Servers PROVE CallsUnderTheFence(t)'
    BY <1>a, <1>b, <2>c, <2>1, <2>2, <2>3, <2>4
  <2>d. ASSUME NEW t \in Servers PROVE HoldsItsSeat(t)'
    BY <1>a, <1>b, <2>d, <2>1, <2>2, <2>3, <2>4
  <2>e. ASSUME NEW t \in Servers PROVE GivesBackOnce(t)'
    BY <1>a, <1>b, <2>e, <2>1, <2>2, <2>3, <2>4
  <2> QED BY <2>a, <2>b, <2>c, <2>d, <2>e DEF KeyInv
<1>13. ASSUME NEW s \in Servers, RecordRefusal(s) PROVE KeyInv'
  <2> DEFINE k == server[s].key
  <2>1. /\ k \in Keys /\ server[s].created /\ server[s].pc = "calling"
        /\ attempt[k].seat \in 0 .. MaxSeats
        /\ UNCHANGED <<seats, late, made>>
    BY <1>13, <1>a DEF RecordRefusal, At, RowKnown, Typing, TypeOK, Attempts
  <2>2. /\ attempt'[k].status = "refused" /\ attempt'[k].stored = attempt[k].stored
        /\ \A l \in Keys \ {k} : attempt'[l] = attempt[l]
    BY <1>13, <2>1, AttemptWritten DEF RecordRefusal
  <2>3. /\ server'[s].pc = "idle" /\ server'[s].booking = NoBooking
        /\ \A t \in Servers \ {s} : server'[t] = server[t]
    BY <1>13, EndTyped DEF RecordRefusal
  <2>4. \A l \in Keys \ {k} : rowLock'[l] = rowLock[l]
    BY <1>13 DEF RecordRefusal, Released, Typing, TypeOK
  <2>a. OneOfAKey'
    BY <1>a, <1>b, <2>1, <2>2, <2>3, <2>4
  <2>b. LedgerTellsOfSeats'
    BY <1>a, <1>b, <2>1, <2>2, <2>3, <2>4
  <2>c. ASSUME NEW t \in Servers PROVE CallsUnderTheFence(t)'
    BY <1>a, <1>b, <2>c, <2>1, <2>2, <2>3, <2>4
  <2>d. ASSUME NEW t \in Servers PROVE HoldsItsSeat(t)'
    BY <1>a, <1>b, <2>d, <2>1, <2>2, <2>3, <2>4
  <2>e. ASSUME NEW t \in Servers PROVE GivesBackOnce(t)'
    BY <1>a, <1>b, <2>e, <2>1, <2>2, <2>3, <2>4
  <2> QED BY <2>a, <2>b, <2>c, <2>d, <2>e DEF KeyInv
<1>14. ASSUME NEW s \in Servers, LoseAnswer(s) PROVE KeyInv'
  <2> DEFINE k == server[s].key
  <2>1. /\ k \in Keys /\ server[s].created /\ server[s].pc \in {"calling", "answered"}
        /\ late' = late \/ (server[s].pc = "calling" /\ late' = late \cup {k})
        /\ UNCHANGED <<seats, made>>
    BY <1>14, <1>a DEF LoseAnswer, MayBeLate, At, RowKnown
  <2>2. /\ attempt'[k].status = "needs_verification" /\ attempt'[k].stored = attempt[k].stored
        /\ \A l \in Keys \ {k} : attempt'[l] = attempt[l]
    BY <1>14, <2>1, HandlerKnown, AttemptWritten DEF LoseAnswer
  <2>3. /\ server'[s].pc = "saving" /\ server'[s].booking = Doubt
        /\ \A t \in Servers \ {s} : server'[t] = server[t]
    BY <1>14, HandlerKnown, HandlerLearns DEF LoseAnswer, Places
  <2>4. \A l \in Keys \ {k} : rowLock'[l] = rowLock[l]
    BY <1>14 DEF LoseAnswer, Released, Typing, TypeOK
  <2>a. OneOfAKey'
    BY <1>a, <1>b, <2>1, <2>2, <2>3, <2>4
  <2>b. LedgerTellsOfSeats'
    BY <1>a, <1>b, <2>1, <2>2, <2>3, <2>4
  <2>c. ASSUME NEW t \in Servers PROVE CallsUnderTheFence(t)'
    BY <1>a, <1>b, <2>c, <2>1, <2>2, <2>3, <2>4
  <2>d. ASSUME NEW t \in Servers PROVE HoldsItsSeat(t)'
    BY <1>a, <1>b, <2>d, <2>1, <2>2, <2>3, <2>4
  <2>e. ASSUME NEW t \in Servers PROVE GivesBackOnce(t)'
    BY <1>a, <1>b, <2>e, <2>1, <2>2, <2>3, <2>4
  <2> QED BY <2>a, <2>b, <2>c, <2>d, <2>e DEF KeyInv
<1>15. ASSUME NEW s \in Servers, Store(s) PROVE KeyInv'
  <2> DEFINE k == server[s].key
  <2>1. k \in Keys /\ server[s].pc = "saving" /\ UNCHANGED <<rowLock, seats, late, made>>
    BY <1>15, <1>a DEF Store, At, RowKnown
  <2>2. \A l \in Keys : /\ attempt'[l].status = attempt[l].status /\ attempt'[l].seat = attempt[l].seat
                        /\ attempt[l].stored => attempt'[l].stored
    <3>1. CASE attempt' = [attempt EXCEPT ![k].stored = TRUE]
      BY <1>b, <3>1 DEF Attempts
    <3>2. CASE UNCHANGED attempt
      BY <3>2
    <3> QED BY <1>15, <3>1, <3>2 DEF Store
  <2>3. /\ server'[s].pc = "idle" /\ server'[s].booking = NoBooking
        /\ \A t \in Servers \ {s} : server'[t] = server[t]
    BY <1>15, EndTyped DEF Store
  <2>a. OneOfAKey'
    BY <1>a, <1>b, <2>1, <2>2, <2>3
  <2>b. LedgerTellsOfSeats'
    BY <1>a, <1>b, <2>1, <2>2, <2>3
  <2>c. ASSUME NEW t \in Servers PROVE CallsUnderTheFence(t)'
    BY <1>a, <1>b, <2>c, <2>1, <2>2, <2>3
  <2>d. ASSUME NEW t \in Servers PROVE HoldsItsSeat(t)'
    BY <1>a, <1>b, <2>d, <2>1, <2>2, <2>3
  <2>e. ASSUME NEW t \in Servers PROVE GivesBackOnce(t)'
    BY <1>a, <1>b, <2>e, <2>1, <2>2, <2>3
  <2> QED BY <2>a, <2>b, <2>c, <2>d, <2>e DEF KeyInv
<1>16. ASSUME NEW s \in Servers, RollBack(s) PROVE KeyInv'
  <2>1. CASE server[s].key \in Proposed /\ server[s].booking.status = "booked"
    <3>1. server[s].pc = "saving" /\ Goes(s, "compensating") /\ UNCHANGED <<attempt, rowLock, seats, late, made>>
      BY <1>16, <2>1 DEF RollBack, At
    <3>2. /\ server'[s].pc = "compensating" /\ server'[s].key = server[s].key
          /\ server'[s].booking = server[s].booking
          /\ \A t \in Servers \ {s} : server'[t] = server[t]
      BY <3>1, HandlerGoes DEF Places
    <3>3. HoldsItsSeat(s)' /\ ~Calls(s)' /\ ~GaveBack(s)'
      BY <1>a, <3>1, <3>2
    <3> QED BY <3>1, <3>2, <3>3, QuietStep
  <2>2. CASE ~(server[s].key \in Proposed /\ server[s].booking.status = "booked")
    BY <1>16, <2>2, StartOrEndStep DEF RollBack
  <2> QED BY <2>1, <2>2
<1>17. ASSUME NEW s \in Servers, MarkDoubt(s) PROVE KeyInv'
  <2> DEFINE k == server[s].key
  <2>1. /\ k \in Keys /\ server[s].pc = "compensating" /\ server[s].booking.status = "booked"
        /\ rowLock[k] = Nobody /\ Nobody \notin Servers
        /\ UNCHANGED <<rowLock, seats, late, made>>
    BY <1>17, <1>a, BookingsAssumption DEF MarkDoubt, Persists, At, RowKnown, Nobody
  <2>2. /\ \A l \in Keys : attempt'[l].stored = attempt[l].stored
        /\ \A l \in Keys \ {k} : attempt'[l] = attempt[l]
        /\ IF attempt[k].stored THEN attempt'[k] = attempt[k] ELSE attempt'[k].status = "needs_verification"
    BY <1>17, <2>1, HandlerKnown, AttemptWritten DEF MarkDoubt, Persists
  <2>3. /\ server'[s].pc = "cancelling" /\ server'[s].key = k /\ server'[s].booking = server[s].booking
        /\ \A t \in Servers \ {s} : server'[t] = server[t]
    BY <1>17, HandlerKnown, HandlerGoes DEF MarkDoubt, Places
  <2>a. OneOfAKey'
    BY <1>a, <1>b, <2>1, <2>2, <2>3
  <2>b. LedgerTellsOfSeats'
    BY <1>a, <1>b, <2>1, <2>2, <2>3
  <2>c. ASSUME NEW t \in Servers PROVE CallsUnderTheFence(t)'
    BY <1>a, <1>b, <2>c, <2>1, <2>2, <2>3
  <2>d. ASSUME NEW t \in Servers PROVE HoldsItsSeat(t)'
    BY <1>a, <1>b, <2>d, <2>1, <2>2, <2>3
  <2>e. ASSUME NEW t \in Servers PROVE GivesBackOnce(t)'
    BY <1>a, <1>b, <2>e, <2>1, <2>2, <2>3
  <2> QED BY <2>a, <2>b, <2>c, <2>d, <2>e DEF KeyInv
<1>18. ASSUME NEW s \in Servers, CancelSeat(s) PROVE KeyInv'
  <2> DEFINE k == server[s].key
  <2>1. /\ k \in Keys /\ server[s].pc = "cancelling" /\ server[s].booking.status = "booked"
        /\ UNCHANGED <<attempt, rowLock, late, made>>
        /\ Seated(s)
        /\ \A seat : seat \in seats' <=> seat \in seats /\ seat.no # server[s].booking.seat
    BY <1>18, <1>a DEF CancelSeat, HeldSeat, At, RowKnown
  <2>2. /\ server'[s].pc = "cancelled" /\ server'[s].key = k /\ server'[s].booking = server[s].booking
        /\ \A t \in Servers \ {s} : server'[t] = server[t]
    BY <1>18, HandlerKnown, HandlerGoes DEF CancelSeat, Places
  <2>a. OneOfAKey'
    BY <1>a, <1>b, <2>1, <2>2
  <2>b. LedgerTellsOfSeats'
    BY <1>a, <1>b, <2>1, <2>2
  <2>c. ASSUME NEW t \in Servers PROVE CallsUnderTheFence(t)'
    BY <1>a, <1>b, <2>c, <2>1, <2>2
  <2>d. ASSUME NEW t \in Servers PROVE HoldsItsSeat(t)'
    BY <1>a, <1>b, <2>d, <2>1, <2>2
  <2>e. ASSUME NEW t \in Servers PROVE GivesBackOnce(t)'
    BY <1>a, <1>b, <2>e, <2>1, <2>2
  <2> QED BY <2>a, <2>b, <2>c, <2>d, <2>e DEF KeyInv
<1>19. ASSUME NEW s \in Servers, CancelFails(s) PROVE KeyInv'
  <2> DEFINE k == server[s].key
  <2>1. /\ k \in Keys /\ server[s].pc = "cancelling" /\ server[s].booking.status = "booked"
        /\ UNCHANGED <<attempt, rowLock, late, made>>
        /\ seats' \subseteq seats
    BY <1>19, <1>a DEF CancelFails, At, RowKnown
  <2>2. /\ server'[s].pc = "uncertain" /\ server'[s].key = k /\ server'[s].booking = server[s].booking
        /\ \A t \in Servers \ {s} : server'[t] = server[t]
    BY <1>19, HandlerKnown, HandlerGoes DEF CancelFails, Places
  <2>a. OneOfAKey'
    BY <1>a, <1>b, <2>1, <2>2
  <2>b. LedgerTellsOfSeats'
    BY <1>a, <1>b, <2>1, <2>2
  <2>c. ASSUME NEW t \in Servers PROVE CallsUnderTheFence(t)'
    BY <1>a, <1>b, <2>c, <2>1, <2>2
  <2>d. ASSUME NEW t \in Servers PROVE HoldsItsSeat(t)'
    BY <1>a, <1>b, <2>d, <2>1, <2>2
  <2>e. ASSUME NEW t \in Servers PROVE GivesBackOnce(t)'
    BY <1>a, <1>b, <2>e, <2>1, <2>2
  <2> QED BY <2>a, <2>b, <2>c, <2>d, <2>e DEF KeyInv
<1>20. ASSUME NEW s \in Servers, Conclude(s) PROVE KeyInv'
  <2> DEFINE k == server[s].key
  <2>1. /\ k \in Keys /\ server[s].pc \in {"cancelled", "uncertain"} /\ server[s].booking.status = "booked"
        /\ rowLock[k] = Nobody /\ Nobody \notin Servers
        /\ UNCHANGED <<rowLock, seats, late, made>>
    BY <1>20, <1>a, BookingsAssumption DEF Conclude, Persists, At, RowKnown, Nobody
  <2>2. /\ \A l \in Keys : attempt'[l].stored = attempt[l].stored
        /\ \A l \in Keys \ {k} : attempt'[l] = attempt[l]
        /\ IF attempt[k].stored THEN attempt'[k] = attempt[k] ELSE attempt'[k].status = (IF server[s].pc = "cancelled"
                THEN "compensated" ELSE "needs_verification")
    BY <1>20, <2>1, HandlerKnown, AttemptWritten DEF Conclude, At, Persists
  <2>3. /\ server'[s].pc = "idle" /\ server'[s].booking = NoBooking
        /\ \A t \in Servers \ {s} : server'[t] = server[t]
    BY <1>20, EndTyped DEF Conclude
  <2>a. OneOfAKey'
    BY <1>a, <1>b, <2>1, <2>2, <2>3
  <2>b. LedgerTellsOfSeats'
    BY <1>a, <1>b, <2>1, <2>2, <2>3
  <2>c. ASSUME NEW t \in Servers PROVE CallsUnderTheFence(t)'
    BY <1>a, <1>b, <2>c, <2>1, <2>2, <2>3
  <2>d. ASSUME NEW t \in Servers PROVE HoldsItsSeat(t)'
    BY <1>a, <1>b, <2>d, <2>1, <2>2, <2>3
  <2>e. ASSUME NEW t \in Servers PROVE GivesBackOnce(t)'
    BY <1>a, <1>b, <2>e, <2>1, <2>2, <2>3
  <2> QED BY <2>a, <2>b, <2>c, <2>d, <2>e DEF KeyInv
<1>21. ASSUME NEW s \in Servers, Crash(s) PROVE KeyInv'
  <2> DEFINE k == server[s].key
  <2>1. /\ late' = late \/ (server[s].pc = "calling" /\ k \in Keys /\ server[s].created /\ late' = late \cup {k})
        /\ UNCHANGED <<attempt, seats, made>>
    BY <1>21, <1>a, HandlerKnown DEF Crash, MayBeLate, At, RowKnown
  <2>2. /\ server'[s].pc = "idle" /\ server'[s].booking = NoBooking
        /\ \A t \in Servers \ {s} : server'[t] = server[t]
    BY <1>21, EndTyped DEF Crash
  <2>3. \A l \in Keys : rowLock[l] # s => rowLock'[l] = rowLock[l]
    BY <1>21 DEF Crash, Typing, TypeOK
  <2>a. OneOfAKey'
    BY <1>a, <1>b, <2>1, <2>2, <2>3
  <2>b. LedgerTellsOfSeats'
    BY <1>a, <1>b, <2>1, <2>2, <2>3
  <2>c. ASSUME NEW t \in Servers PROVE CallsUnderTheFence(t)'
    BY <1>a, <1>b, <2>c, <2>1, <2>2, <2>3
  <2>d. ASSUME NEW t \in Servers PROVE HoldsItsSeat(t)'
    BY <1>a, <1>b, <2>d, <2>1, <2>2, <2>3
  <2>e. ASSUME NEW t \in Servers PROVE GivesBackOnce(t)'
    BY <1>a, <1>b, <2>e, <2>1, <2>2, <2>3
  <2> QED BY <2>a, <2>b, <2>c, <2>d, <2>e DEF KeyInv
<1>22. ASSUME NEW k \in Keys, BookLate(k) PROVE KeyInv'
  <2> DEFINE new == [no |-> made + 1, key |-> k]
  <2>1. /\ k \in late /\ late' = late \ {k}
        /\ made' = made + 1 /\ seats' = seats \cup {new}
        /\ UNCHANGED <<attempt, rowLock, server>>
    BY <1>22 DEF BookLate, Books
  <2>2. new.no = made + 1 /\ new.key = k
    OBVIOUS
  <2> HIDE DEF new
  <2>a. OneOfAKey'
    BY <1>a, <1>b, <2>1, <2>2
  <2>b. LedgerTellsOfSeats'
    BY <1>a, <1>b, <2>1, <2>2
  <2>c. ASSUME NEW t \in Servers PROVE CallsUnderTheFence(t)'
    BY <1>a, <1>b, <2>c, <2>1, <2>2
  <2>d. ASSUME NEW t \in Servers PROVE HoldsItsSeat(t)'
    BY <1>a, <1>b, <2>d, <2>1, <2>2
  <2>e. ASSUME NEW t \in Servers PROVE GivesBackOnce(t)'
    BY <1>a, <1>b, <2>e, <2>1, <2>2
  <2> QED BY <2>a, <2>b, <2>c, <2>d, <2>e DEF KeyInv
<1>24. ASSUME ConfirmWithoutRoom PROVE KeyInv'
  BY <1>24 DEF ConfirmWithoutRoom, KeyInv
<1>23. CASE UNCHANGED vars
  BY <1>23 DEF vars, KeyInv
<1> QED BY <1>1, <1>2, <1>3, <1>4, <1>5, <1>6, <1>7, <1>8, <1>9, <1>10, <1>11, <1>12, <1>13, <1>14, <1>15,
           <1>16, <1>17, <1>18, <1>19, <1>20, <1>21, <1>22, <1>23, <1>24 DEF Next, Handles, Attempted

-----------------------------------------------------------------------------
(* The proposal.                                                           *)

\* What exists for a proposal that is still to be decided is unresolved.
LEMMA LoadedIsUnresolved ==
  ASSUME Invs, StoredIsApproved, proposal = "pending", NEW k \in Proposed, Loaded(k)
  PROVE  Unresolved(k)
<1>1. k \in Keys /\ attempt[k] \in Attempts
  BY DEF Keys, Invs, Typing, TypeOK
<1>2. attempt[k].status \notin {"none", "refused", "compensated"}
  BY <1>1 DEF Invs, KeyInv, LedgerTellsOfSeats
<1> QED BY <1>1, <1>2 DEF Attempts, StoredIsApproved, Unresolved

\* A handler goes on with its request, calls for its key, or ends.
LEMMA GoingOnStep ==
  ASSUME Typing, ProposalInv, NEW s \in Servers, UNCHANGED <<proposal, crossed>>,
         \A t \in Servers \ {s} : server'[t] = server[t],
         Confirming(s)' => Confirming(s) /\ server'[s].key = server[s].key /\ lock' = lock,
         ~At(s, "rejecting")',
         lock' = lock \/ (lock = s /\ lock' = Nobody),
         \A k \in Proposed : attempt'[k].stored <=> attempt[k].stored,
         \A k \in Proposed : Loaded(k)' =>
            Loaded(k) \/ (Confirming(s) /\ k = server[s].key)
  PROVE  ProposalInv'
<1> USE DEF ProposalInv
<1>1. Nobody \notin Servers
  BY BookingsAssumption DEF Nobody
<1>2. ProposalIsLocked'
  BY <1>1 DEF ProposalIsLocked, Confirming
<1>3. StoredIsApproved'
  BY DEF StoredIsApproved
<1>4. NoOtherContentIsLoaded'
  <2>1. ASSUME NEW t \in Servers, Confirming(t)', NEW k \in Proposed, Loaded(k)' PROVE k = server'[t].key
    <3>1. Confirming(t) /\ server'[t].key = server[t].key
      BY <2>1 DEF Confirming
    <3>2. Confirming(s) => s = t
      BY <3>1 DEF ProposalIsLocked
    <3> QED BY <2>1, <3>1, <3>2 DEF NoOtherContentIsLoaded
  <2>2. ASSUME NEW k \in Proposed, NEW l \in Proposed, Loaded(k)', Loaded(l)' PROVE k = l
    BY <2>2 DEF NoOtherContentIsLoaded
  <2> QED BY <2>1, <2>2 DEF NoOtherContentIsLoaded
<1>5. RejectedIsEmpty'
  <2>1. SUFFICES ASSUME "rejection" \notin crossed,
                        proposal = "rejected" \/ \E t \in Servers : At(t, "rejecting")'
                 PROVE  lock' = Nobody /\ \A k \in Proposed : ~Loaded(k)'
    BY DEF RejectedIsEmpty
  <2>2. lock = Nobody /\ \A k \in Proposed : ~Loaded(k)
    BY <2>1 DEF RejectedIsEmpty, At
  <2>3. ~Confirming(s)
    BY <1>1, <2>2 DEF ProposalIsLocked
  <2> QED BY <1>1, <2>2, <2>3
<1> QED BY <1>2, <1>3, <1>4, <1>5

\* Every step keeps the seats of a proposal under the one content that was approved or
\* is being tried, and a rejected proposal without seats.
LEMMA ProposalStep == Invs /\ ProposalInv /\ [Next]_vars => ProposalInv'
<1> SUFFICES ASSUME Invs, ProposalInv, [Next]_vars PROVE ProposalInv'
  OBVIOUS
<1> USE DEF Invs
<1>a. /\ Nobody \notin Servers
      /\ \A t \in Servers : RowKnown(server[t]) /\ (At(t, "calling") \/ At(t, "answered") => server[t].key \in Keys)
      /\ attempt \in [Keys -> Attempts] /\ Proposed \subseteq Keys /\ Proposed \cap Direct = {}
  BY HandlerKnown, BookingsAssumption DEF Nobody, At, Keys, Typing, TypeOK
<1>1. ASSUME NEW s \in Servers, NEW k \in Keys, Confirm(s, k) PROVE ProposalInv'
  <2>1. /\ server'[s].pc = "fencing" /\ server'[s].key = k
        /\ \A t \in Servers \ {s} : server'[t] = server[t]
    BY <1>1, StartTyped DEF Confirm
  <2>2. /\ k \in Proposed /\ lock = Nobody /\ lock' = s /\ proposal = "pending"
        /\ \A other \in Proposed \ {k} : ~Unresolved(other)
        /\ "rejection" \notin crossed' => "rejection" \notin crossed /\ \A t \in Servers : ~At(t, "rejecting")
        /\ UNCHANGED <<proposal, attempt, seats, late>>
    BY <1>1 DEF Confirm
  <2>3. \A t \in Servers : ~Confirming(t)
    BY <1>a, <2>2 DEF ProposalInv, ProposalIsLocked
  <2>4. ProposalIsLocked'
    BY <2>1, <2>2, <2>3 DEF ProposalIsLocked, Confirming
  <2>5. StoredIsApproved'
    BY <2>2 DEF ProposalInv, StoredIsApproved
  <2>6. \A l \in Proposed : Loaded(l) => l = k
    BY <2>2, LoadedIsUnresolved DEF ProposalInv
  <2>7. NoOtherContentIsLoaded'
    BY <2>1, <2>2, <2>3, <2>6 DEF NoOtherContentIsLoaded, Confirming, Loaded
  <2>8. RejectedIsEmpty'
    BY <2>1, <2>2 DEF RejectedIsEmpty, At
  <2> QED BY <2>4, <2>5, <2>7, <2>8 DEF ProposalInv
<1>2. ASSUME NEW s \in Servers, NEW k \in Keys, Create(s, k) PROVE ProposalInv'
  <2>1. /\ server'[s].pc = "fencing" /\ server'[s].key = k
        /\ \A t \in Servers \ {s} : server'[t] = server[t]
    BY <1>2, StartTyped DEF Create
  <2>2. ~Confirming(s)' /\ ~At(s, "rejecting")' /\ UNCHANGED <<proposal, lock, crossed, attempt, seats, late>>
    BY <1>a, <1>2, <2>1 DEF Confirming, Create, At
  <2> QED BY <2>1, <2>2, GoingOnStep DEF Loaded
<1>3. ASSUME NEW s \in Servers, BeginReject(s) PROVE ProposalInv'
  <2>1. /\ server'[s].pc = "rejecting" /\ \A t \in Servers \ {s} : server'[t] = server[t]
    BY <1>3, StartTyped DEF BeginReject
  <2>2. /\ proposal = "pending" /\ \A k \in Proposed : ~Unresolved(k)
        /\ "rejection" \notin crossed' => "rejection" \notin crossed /\ lock = Nobody
        /\ UNCHANGED <<proposal, lock, attempt, seats, late>>
    BY <1>3 DEF BeginReject
  <2>3. \A t \in Servers : Confirming(t)' => Confirming(t) /\ server'[t].key = server[t].key
    BY <2>1 DEF Confirming, Asking
  <2>4. ProposalIsLocked' /\ StoredIsApproved' /\ NoOtherContentIsLoaded'
    BY <2>2, <2>3 DEF ProposalInv, ProposalIsLocked, StoredIsApproved, NoOtherContentIsLoaded, Loaded
  <2>5. \A k \in Proposed : ~Loaded(k)'
    BY <2>2, LoadedIsUnresolved DEF ProposalInv, Loaded
  <2>6. RejectedIsEmpty'
    BY <2>2, <2>5 DEF RejectedIsEmpty
  <2> QED BY <2>4, <2>6 DEF ProposalInv
<1>4. ASSUME NEW s \in Servers, EndReject(s) PROVE ProposalInv'
  <2>1. /\ server'[s].pc = "idle" /\ \A t \in Servers \ {s} : server'[t] = server[t]
        /\ lock = Nobody /\ lock' = Nobody /\ At(s, "rejecting")
        /\ proposal' = IF proposal = "pending" THEN "rejected" ELSE proposal
        /\ UNCHANGED <<attempt, seats, late, crossed>>
    BY <1>a, <1>4, EndTyped DEF EndReject
  <2>2. \A t \in Servers : Confirming(t)' => Confirming(t) /\ server'[t].key = server[t].key
    BY <2>1 DEF Confirming, Asking
  <2>3. ProposalIsLocked' /\ StoredIsApproved' /\ NoOtherContentIsLoaded'
    BY <2>1, <2>2 DEF ProposalInv, ProposalIsLocked, StoredIsApproved, NoOtherContentIsLoaded, Loaded
  <2>4. RejectedIsEmpty'
    BY <2>1 DEF ProposalInv, RejectedIsEmpty, Loaded
  <2> QED BY <2>3, <2>4 DEF ProposalInv
<1>5. ASSUME NEW s \in Servers, Store(s) PROVE ProposalInv'
  <2> DEFINE k == server[s].key
  <2>1. /\ server'[s].pc = "idle" /\ \A t \in Servers \ {s} : server'[t] = server[t]
        /\ lock' = IF lock = s THEN Nobody ELSE lock
        /\ At(s, "saving") /\ UNCHANGED <<seats, late, crossed>>
        /\ proposal' = IF k \in Proposed THEN "approved" ELSE proposal
    BY <1>5, EndTyped DEF Store
  <2>2. ~Confirming(s)' /\ ~At(s, "rejecting")'
    BY <2>1 DEF Confirming, Asking, At
  <2>3. CASE k \in Proposed
    <3>1. Confirming(s) /\ lock = s
      BY <2>1, <2>3 DEF Confirming, At, ProposalInv, ProposalIsLocked
    <3>2. \A t \in Servers : ~Confirming(t)'
      BY <2>1, <2>2, <3>1 DEF Confirming, ProposalInv, ProposalIsLocked
    <3>3. ProposalIsLocked' /\ StoredIsApproved' /\ NoOtherContentIsLoaded'
      BY <2>1, <2>3, <3>2 DEF ProposalInv, ProposalIsLocked, StoredIsApproved, NoOtherContentIsLoaded, Loaded
    <3>4. RejectedIsEmpty'
      BY <1>a, <2>1, <2>2, <3>1 DEF ProposalInv, RejectedIsEmpty, At
    <3> QED BY <3>3, <3>4 DEF ProposalInv
  <2>4. CASE k \notin Proposed
    <3>1. \A l \in Proposed : attempt'[l].stored <=> attempt[l].stored
      BY <1>a, <1>5, <2>4 DEF Store
    <3> QED BY <2>1, <2>2, <2>4, <3>1, GoingOnStep DEF Loaded
  <2> QED BY <2>3, <2>4
\* Every other step of a handler goes on with its request.
<1>6. ASSUME NEW s \in Servers, Fence(s) PROVE ProposalInv'
  <2>1. /\ server'[s].pc = "locking" /\ server'[s].key = server[s].key
        /\ \A t \in Servers \ {s} : server'[t] = server[t]
        /\ UNCHANGED <<proposal, lock, crossed>>
    BY <1>6, HandlerKnown, HandlerGoesAs DEF Fence, Places, GivesBack
  <2>2. \A l \in Proposed : attempt'[l].stored <=> attempt[l].stored
    BY <1>a, <1>6, HandlerKnown, AttemptWritten DEF Fence, At
  <2>3. Confirming(s)' => Confirming(s) /\ server'[s].key = server[s].key /\ lock' = lock
    BY <1>6, <2>1 DEF Fence, Confirming, Asking, GivesBack, At, Reads
  <2>4. \A l \in Proposed : Loaded(l)' => Loaded(l)
    BY <1>6 DEF Fence, Loaded
  <2> QED BY <2>1, <2>2, <2>3, <2>4, GoingOnStep DEF At
<1>7. ASSUME NEW s \in Servers, NEW k \in Keys, RefusedBefore(s, k) PROVE ProposalInv'
  <2>1. /\ server'[s].pc = "idle" /\ \A t \in Servers \ {s} : server'[t] = server[t]
        /\ lock' = IF lock = s THEN Nobody ELSE lock
        /\ UNCHANGED <<proposal, crossed>>
    BY <1>7, EndTyped DEF RefusedBefore
  <2>2. UNCHANGED attempt
    BY <1>7 DEF RefusedBefore
  <2>3. Confirming(s)' => Confirming(s) /\ server'[s].key = server[s].key /\ lock' = lock
    BY <1>7, <2>1 DEF RefusedBefore, Confirming, Asking, GivesBack, At, Reads
  <2>4. \A l \in Proposed : Loaded(l)' => Loaded(l)
    BY <1>7 DEF RefusedBefore, Loaded
  <2> QED BY <2>1, <2>2, <2>3, <2>4, GoingOnStep DEF At
<1>8. ASSUME NEW s \in Servers, NEW k \in Keys, Reclaim(s, k) PROVE ProposalInv'
  <2>1. /\ server'[s].pc = "reclaiming" /\ server'[s].key = server[s].key
        /\ \A t \in Servers \ {s} : server'[t] = server[t]
        /\ UNCHANGED <<proposal, lock, crossed>>
    BY <1>8, HandlerKnown, HandlerGoesAs DEF Reclaim, Places, GivesBack
  <2>2. \A l \in Proposed : attempt'[l].stored <=> attempt[l].stored
    BY <1>a, <1>8, HandlerKnown, AttemptWritten DEF Reclaim
  <2>3. Confirming(s)' => Confirming(s) /\ server'[s].key = server[s].key /\ lock' = lock
    BY <1>8, <2>1 DEF Reclaim, Confirming, Asking, GivesBack, At, Reads
  <2>4. \A l \in Proposed : Loaded(l)' => Loaded(l)
    BY <1>8 DEF Reclaim, Loaded
  <2> QED BY <2>1, <2>2, <2>3, <2>4, GoingOnStep DEF At
<1>9. ASSUME NEW s \in Servers, NEW k \in Keys, Restore(s, k) PROVE ProposalInv'
  <2>1. /\ server'[s].pc = "saving" /\ server'[s].key = server[s].key
        /\ \A t \in Servers \ {s} : server'[t] = server[t]
        /\ UNCHANGED <<proposal, lock, crossed>>
    <3> DEFINE booking == [status |-> attempt[k].status, seat |-> attempt[k].seat]
    <3>1. booking \in Bookings
      BY <1>9, <1>a DEF Restore, Attempts, Bookings
    <3>2. Learns(s, "saving", booking)
      BY <1>9 DEF Restore
    <3> HIDE DEF booking
    <3>3. UNCHANGED <<proposal, lock, crossed>>
      BY <1>9 DEF Restore
    <3> QED BY <3>1, <3>2, <3>3, HandlerLearns DEF Places
  <2>2. UNCHANGED attempt
    BY <1>9 DEF Restore
  <2>3. Confirming(s)' => Confirming(s) /\ server'[s].key = server[s].key /\ lock' = lock
    BY <1>9, <2>1 DEF Restore, Confirming, Asking, GivesBack, At, Reads
  <2>4. \A l \in Proposed : Loaded(l)' => Loaded(l)
    BY <1>9 DEF Restore, Loaded
  <2> QED BY <2>1, <2>2, <2>3, <2>4, GoingOnStep DEF At
<1>10. ASSUME NEW s \in Servers, NEW k \in Keys, DoubtPending(s, k) PROVE ProposalInv'
  <2>1. /\ server'[s].pc = "saving" /\ server'[s].key = server[s].key
        /\ \A t \in Servers \ {s} : server'[t] = server[t]
        /\ UNCHANGED <<proposal, lock, crossed>>
    BY <1>10, HandlerKnown, HandlerLearns DEF DoubtPending, Places, GivesBack
  <2>2. \A l \in Proposed : attempt'[l].stored <=> attempt[l].stored
    BY <1>a, <1>10, HandlerKnown, AttemptWritten DEF DoubtPending
  <2>3. Confirming(s)' => Confirming(s) /\ server'[s].key = server[s].key /\ lock' = lock
    BY <1>10, <2>1 DEF DoubtPending, Confirming, Asking, GivesBack, At, Reads
  <2>4. \A l \in Proposed : Loaded(l)' => Loaded(l)
    BY <1>10 DEF DoubtPending, Loaded
  <2> QED BY <2>1, <2>2, <2>3, <2>4, GoingOnStep DEF At
<1>11. ASSUME NEW s \in Servers, NEW k \in Keys, Call(s, k) PROVE ProposalInv'
  <2>1. /\ server'[s].pc = "calling" /\ server'[s].key = server[s].key
        /\ \A t \in Servers \ {s} : server'[t] = server[t]
        /\ UNCHANGED <<proposal, lock, crossed>>
    BY <1>11, HandlerKnown, HandlerGoes DEF Call, Places, GivesBack
  <2>2. UNCHANGED attempt
    BY <1>11 DEF Call
  <2>3. Confirming(s)' => Confirming(s) /\ server'[s].key = server[s].key /\ lock' = lock
    BY <1>11, <2>1 DEF Call, Confirming, Asking, GivesBack, At, Reads
  <2>4. \A l \in Proposed : Loaded(l)' => Loaded(l)
    BY <1>11 DEF Call, Loaded
  <2> QED BY <2>1, <2>2, <2>3, <2>4, GoingOnStep DEF At
<1>12. ASSUME NEW s \in Servers, BookSeat(s) PROVE ProposalInv'
  <2>1. /\ server'[s].pc = "answered" /\ server'[s].key = server[s].key
        /\ \A t \in Servers \ {s} : server'[t] = server[t]
        /\ UNCHANGED <<proposal, lock, crossed>>
    <3> DEFINE booking == [status |-> "booked", seat |-> made + 1]
    <3>1. booking \in Bookings
      BY <1>12, BookingsAssumption DEF BookSeat, Books, Bookings, Typing, TypeOK
    <3>2. Learns(s, "answered", booking)
      BY <1>12 DEF BookSeat
    <3> HIDE DEF booking
    <3>3. UNCHANGED <<proposal, lock, crossed>>
      BY <1>12 DEF BookSeat
    <3> QED BY <3>1, <3>2, <3>3, HandlerLearns DEF Places
  <2>2. UNCHANGED attempt
    BY <1>12 DEF BookSeat
  <2>3. Confirming(s)' => Confirming(s) /\ server'[s].key = server[s].key /\ lock' = lock
    BY <1>12, <2>1 DEF BookSeat, Confirming, Asking, GivesBack, At, Reads
  <2>4. \A l \in Proposed : Loaded(l)' => Loaded(l) \/ (Confirming(s) /\ l = server[s].key)
    BY <1>12 DEF BookSeat, Loaded, Confirming, Asking, At, Books, MayBeLate
  <2> QED BY <2>1, <2>2, <2>3, <2>4, GoingOnStep DEF At
<1>13. ASSUME NEW s \in Servers, RecordSeat(s) PROVE ProposalInv'
  <2>1. /\ server'[s].pc = "saving" /\ server'[s].key = server[s].key
        /\ \A t \in Servers \ {s} : server'[t] = server[t]
        /\ UNCHANGED <<proposal, lock, crossed>>
    BY <1>13, HandlerKnown, HandlerGoes DEF RecordSeat, Places, GivesBack
  <2>2. \A l \in Proposed : attempt'[l].stored <=> attempt[l].stored
    BY <1>a, <1>13, HandlerKnown, AttemptWritten DEF RecordSeat, At
  <2>3. Confirming(s)' => Confirming(s) /\ server'[s].key = server[s].key /\ lock' = lock
    BY <1>13, <2>1 DEF RecordSeat, Confirming, Asking, GivesBack, At, Reads
  <2>4. \A l \in Proposed : Loaded(l)' => Loaded(l)
    BY <1>13 DEF RecordSeat, Loaded
  <2> QED BY <2>1, <2>2, <2>3, <2>4, GoingOnStep DEF At
<1>14. ASSUME NEW s \in Servers, RecordRefusal(s) PROVE ProposalInv'
  <2>1. /\ server'[s].pc = "idle" /\ \A t \in Servers \ {s} : server'[t] = server[t]
        /\ lock' = IF lock = s THEN Nobody ELSE lock
        /\ UNCHANGED <<proposal, crossed>>
    BY <1>14, EndTyped DEF RecordRefusal
  <2>2. \A l \in Proposed : attempt'[l].stored <=> attempt[l].stored
    BY <1>a, <1>14, HandlerKnown, AttemptWritten DEF RecordRefusal, At, Attempts
  <2>3. Confirming(s)' => Confirming(s) /\ server'[s].key = server[s].key /\ lock' = lock
    BY <1>14, <2>1 DEF RecordRefusal, Confirming, Asking, GivesBack, At, Reads
  <2>4. \A l \in Proposed : Loaded(l)' => Loaded(l)
    BY <1>14 DEF RecordRefusal, Loaded
  <2> QED BY <2>1, <2>2, <2>3, <2>4, GoingOnStep DEF At
<1>15. ASSUME NEW s \in Servers, LoseAnswer(s) PROVE ProposalInv'
  <2>1. /\ server'[s].pc = "saving" /\ server'[s].key = server[s].key
        /\ \A t \in Servers \ {s} : server'[t] = server[t]
        /\ UNCHANGED <<proposal, lock, crossed>>
    BY <1>15, HandlerKnown, HandlerLearns DEF LoseAnswer, Places, GivesBack
  <2>2. \A l \in Proposed : attempt'[l].stored <=> attempt[l].stored
    BY <1>a, <1>15, HandlerKnown, AttemptWritten DEF LoseAnswer, At
  <2>3. Confirming(s)' => Confirming(s) /\ server'[s].key = server[s].key /\ lock' = lock
    BY <1>15, <2>1 DEF LoseAnswer, Confirming, Asking, GivesBack, At, Reads
  <2>4. \A l \in Proposed : Loaded(l)' => Loaded(l) \/ (Confirming(s) /\ l = server[s].key)
    BY <1>15 DEF LoseAnswer, Loaded, Confirming, Asking, At, Books, MayBeLate
  <2> QED BY <2>1, <2>2, <2>3, <2>4, GoingOnStep DEF At
<1>16. ASSUME NEW s \in Servers, RollBack(s) PROVE ProposalInv'
  <2>1. /\ \A t \in Servers \ {s} : server'[t] = server[t]
        /\ server'[s].pc \in {"idle", "compensating"}
        /\ lock' = IF lock = s THEN Nobody ELSE lock
        /\ UNCHANGED <<proposal, crossed, attempt, seats, late>>
    BY <1>16, EndTyped, HandlerGoes DEF RollBack, Unlock, Places, GivesBack
  <2>2. ~Confirming(s)' /\ ~At(s, "rejecting")'
    BY <2>1 DEF Confirming, Asking, At
  <2> QED BY <2>1, <2>2, GoingOnStep DEF Loaded
<1>17. ASSUME NEW s \in Servers, MarkDoubt(s) PROVE ProposalInv'
  <2>1. /\ server'[s].pc = "cancelling" /\ server'[s].key = server[s].key
        /\ \A t \in Servers \ {s} : server'[t] = server[t]
        /\ UNCHANGED <<proposal, lock, crossed>>
    BY <1>17, HandlerKnown, HandlerGoes DEF MarkDoubt, Places, GivesBack
  <2>2. \A l \in Proposed : attempt'[l].stored <=> attempt[l].stored
    BY <1>a, <1>17, HandlerKnown, AttemptWritten DEF MarkDoubt, Persists, At
  <2>3. Confirming(s)' => Confirming(s) /\ server'[s].key = server[s].key /\ lock' = lock
    BY <1>17, <2>1 DEF MarkDoubt, Confirming, Asking, GivesBack, At, Reads
  <2>4. \A l \in Proposed : Loaded(l)' => Loaded(l)
    BY <1>17 DEF MarkDoubt, Loaded
  <2> QED BY <2>1, <2>2, <2>3, <2>4, GoingOnStep DEF At
<1>18. ASSUME NEW s \in Servers, CancelSeat(s) PROVE ProposalInv'
  <2>1. /\ server'[s].pc = "cancelled" /\ server'[s].key = server[s].key
        /\ \A t \in Servers \ {s} : server'[t] = server[t]
        /\ UNCHANGED <<proposal, lock, crossed>>
    BY <1>18, HandlerKnown, HandlerGoes DEF CancelSeat, Places, GivesBack
  <2>2. UNCHANGED attempt
    BY <1>18 DEF CancelSeat
  <2>3. Confirming(s)' => Confirming(s) /\ server'[s].key = server[s].key /\ lock' = lock
    BY <1>18, <2>1 DEF CancelSeat, Confirming, Asking, GivesBack, At, Reads
  <2>4. \A l \in Proposed : Loaded(l)' => Loaded(l)
    BY <1>18 DEF CancelSeat, Loaded
  <2> QED BY <2>1, <2>2, <2>3, <2>4, GoingOnStep DEF At
<1>19. ASSUME NEW s \in Servers, CancelFails(s) PROVE ProposalInv'
  <2>1. /\ server'[s].pc = "uncertain" /\ server'[s].key = server[s].key
        /\ \A t \in Servers \ {s} : server'[t] = server[t]
        /\ UNCHANGED <<proposal, lock, crossed>>
    BY <1>19, HandlerKnown, HandlerGoes DEF CancelFails, Places, GivesBack
  <2>2. UNCHANGED attempt
    BY <1>19 DEF CancelFails
  <2>3. Confirming(s)' => Confirming(s) /\ server'[s].key = server[s].key /\ lock' = lock
    BY <1>19, <2>1 DEF CancelFails, Confirming, Asking, GivesBack, At, Reads
  <2>4. \A l \in Proposed : Loaded(l)' => Loaded(l)
    BY <1>19 DEF CancelFails, Loaded
  <2> QED BY <2>1, <2>2, <2>3, <2>4, GoingOnStep DEF At
<1>20. ASSUME NEW s \in Servers, Conclude(s) PROVE ProposalInv'
  <2>1. /\ server'[s].pc = "idle" /\ \A t \in Servers \ {s} : server'[t] = server[t]
        /\ lock' = IF lock = s THEN Nobody ELSE lock
        /\ UNCHANGED <<proposal, crossed>>
    BY <1>20, EndTyped DEF Conclude
  <2>2. \A l \in Proposed : attempt'[l].stored <=> attempt[l].stored
    BY <1>a, <1>20, HandlerKnown, AttemptWritten DEF Conclude, Persists, At
  <2>3. Confirming(s)' => Confirming(s) /\ server'[s].key = server[s].key /\ lock' = lock
    BY <1>20, <2>1 DEF Conclude, Confirming, Asking, GivesBack, At, Reads
  <2>4. \A l \in Proposed : Loaded(l)' => Loaded(l)
    BY <1>20 DEF Conclude, Loaded
  <2> QED BY <2>1, <2>2, <2>3, <2>4, GoingOnStep DEF At
<1>21. ASSUME NEW s \in Servers, Crash(s) PROVE ProposalInv'
  <2>1. /\ server'[s].pc = "idle" /\ \A t \in Servers \ {s} : server'[t] = server[t]
        /\ lock' = IF lock = s THEN Nobody ELSE lock
        /\ UNCHANGED <<proposal, crossed>>
    BY <1>21, EndTyped DEF Crash
  <2>2. UNCHANGED attempt
    BY <1>21 DEF Crash
  <2>3. Confirming(s)' => Confirming(s) /\ server'[s].key = server[s].key /\ lock' = lock
    BY <1>21, <2>1 DEF Crash, Confirming, Asking, GivesBack, At, Reads
  <2>4. \A l \in Proposed : Loaded(l)' => Loaded(l) \/ (Confirming(s) /\ l = server[s].key)
    BY <1>21 DEF Crash, Loaded, Confirming, Asking, At, Books, MayBeLate
  <2> QED BY <2>1, <2>2, <2>3, <2>4, GoingOnStep DEF At
<1>22. ASSUME NEW k \in Keys, BookLate(k) PROVE ProposalInv'
  <2>1. /\ UNCHANGED <<proposal, lock, crossed, attempt, server>>
        /\ \A l \in Proposed : Loaded(l)' => Loaded(l)
    BY <1>22 DEF BookLate, Books, Loaded
  <2> QED BY <2>1 DEF ProposalInv, ProposalIsLocked, StoredIsApproved, NoOtherContentIsLoaded, RejectedIsEmpty,
                      Confirming, At
<1>24. ASSUME ConfirmWithoutRoom PROVE ProposalInv'
  BY <1>24 DEF ConfirmWithoutRoom, ProposalInv, ProposalIsLocked, StoredIsApproved, NoOtherContentIsLoaded,
               RejectedIsEmpty, Confirming, At, Loaded
<1>23. CASE UNCHANGED vars
  BY <1>23 DEF vars, ProposalInv, ProposalIsLocked, StoredIsApproved, NoOtherContentIsLoaded, RejectedIsEmpty,
            Confirming, At, Loaded
<1> QED BY <1>1, <1>2, <1>3, <1>4, <1>5, <1>6, <1>7, <1>8, <1>9, <1>10, <1>11, <1>12, <1>13, <1>14, <1>15, <1>16, <1>17, <1>18, <1>19, <1>20, <1>21, <1>22, <1>23, <1>24
        DEF Next, Handles, Attempted

-----------------------------------------------------------------------------
(* The meetings.                                                           *)

\* A handler goes on, or ends, without storing a meeting and without taking a seat away;
\* what it has in hand and what it writes down is there.
LEMMA SeatsStayStep ==
  ASSUME Typing, MeetingInv, NEW s \in Servers, UNCHANGED <<proposal, meeting>>,
         Undisturbed' => Undisturbed,
         \A t \in Servers \ {s} : server'[t] = server[t],
         Confirming(s)' => Confirming(s),
         server'[s].pc \in GivesBack => server[s].pc \in GivesBack,
         \A k \in Keys : attempt'[k].stored <=> attempt[k].stored,
         seats \subseteq seats',
         Undisturbed /\ InHand(s)' => HasSeat(server[s].booking.seat, server[s].key)',
         \A k \in Keys : Undisturbed /\ attempt'[k].status = "booked" =>
            \/ attempt[k].status = "booked" /\ attempt'[k].seat = attempt[k].seat
            \/ HasSeat(attempt[k].seat, k)'
  PROVE  MeetingInv'
<1>1. MeetingIsStored' /\ ConfirmedIsPending'
  BY DEF MeetingInv, MeetingIsStored, ConfirmedIsPending, Confirming
<1>2. ASSUME Undisturbed' PROVE NothingIsStoredMeanwhile'
  BY <1>2 DEF Keys, MeetingInv, NothingIsStoredMeanwhile, Confirming
<1>3. ASSUME Undisturbed' PROVE SeatsAreThere'
  <2>1. \A n, k : HasSeat(n, k) => HasSeat(n, k)'
    BY DEF HasSeat
  <2>2. Undisturbed /\ SeatsAreThere
    BY <1>3 DEF MeetingInv
  <2>3. ASSUME NEW t \in Servers, InHand(t)'
        PROVE  HasSeat(server[t].booking.seat, server[t].key)'
    BY <2>1, <2>2, <2>3 DEF SeatsAreThere, InHand
  <2>4. ASSUME NEW k \in Keys, attempt'[k].status = "booked" PROVE HasSeat(attempt[k].seat, k)'
    BY <2>1, <2>2, <2>4 DEF SeatsAreThere
  <2>5. ASSUME NEW k \in Keys, meeting'[k].status = "booked" PROVE HasSeat(meeting[k].seat, k)'
    BY <2>1, <2>2, <2>5 DEF SeatsAreThere
  <2> QED BY <2>3, <2>4, <2>5 DEF SeatsAreThere
<1> QED BY <1>1, <1>2, <1>3 DEF MeetingInv

\* A handler that gives a seat back takes none of a meeting, of a booking in hand or of
\* an attempt that says booked.
LEMMA SeatGoesStep ==
  ASSUME Invs, ProposalInv, MeetingInv, NEW s \in Servers, At(s, "cancelling"),
         seats' = seats \/ seats' = seats \ HeldSeat(s),
         server'[s].pc \in GivesBack, server'[s].key = server[s].key,
         \A t \in Servers \ {s} : server'[t] = server[t],
         UNCHANGED <<proposal, crossed, attempt, meeting>>
  PROVE  MeetingInv'
<1> USE DEF Invs
<1> DEFINE k == server[s].key
<1>1. /\ server[s].pc = "cancelling" /\ server[s].pc \in GivesBack
      /\ server[s].booking.status = "booked" /\ k \in Proposed /\ k \in Keys
      /\ Proposed \subseteq Keys
  BY HandlerKnown DEF At, RowKnown, GivesBack, Keys
<1>2. ~Confirming(s)'
  BY DEF Confirming, Asking, GivesBack
<1>3. MeetingIsStored' /\ ConfirmedIsPending'
  BY <1>2 DEF MeetingInv, MeetingIsStored, ConfirmedIsPending, Confirming
<1>4. CASE ~Undisturbed
  BY <1>3, <1>4 DEF MeetingInv, Undisturbed
<1>5. CASE Undisturbed
  <2>1. NothingIsStoredMeanwhile /\ SeatsAreThere
    BY <1>5 DEF MeetingInv
  <2>2. NothingIsStoredMeanwhile'
    BY <1>1, <1>2, <2>1 DEF NothingIsStoredMeanwhile, Confirming
  <2>3. (\A t \in Servers : ~Confirming(t)) /\ \A l \in Proposed : ~attempt[l].stored
    BY <1>1, <2>1 DEF NothingIsStoredMeanwhile
  <2>4. /\ \A seat \in HeldSeat(s) : seat \in seats /\ seat.key = k
        /\ HeldSeat(s) # {} => attempt[k].status = "needs_verification"
    <3>1. HandlerInv(s) /\ ~attempt[k].stored
      BY <1>1, <2>3 DEF KeyInv
    <3>2. Names(server[s].booking.seat, k)
      BY <1>1, <3>1 DEF HandlerInv, HoldsItsSeat
    <3>3. Seated(s) => attempt[k].status = "needs_verification"
      BY <1>1, <3>1 DEF HandlerInv, HoldsItsSeat
    <3> QED BY <3>2, <3>3 DEF HeldSeat, Names, Seated
  <2>5. ASSUME NEW n, NEW l, HasSeat(n, l), l # k \/ HeldSeat(s) = {} PROVE HasSeat(n, l)'
    BY <2>4, <2>5 DEF HasSeat
  <2>6. ASSUME NEW t \in Servers, InHand(t)'
        PROVE  HasSeat(server[t].booking.seat, server[t].key)'
    <3>1. t # s /\ server'[t] = server[t]
      BY <2>6 DEF InHand, GivesBack
    <3>2. InHand(t) /\ server[t].key # k
      BY <1>1, <2>3, <2>6, <3>1 DEF InHand, Confirming
    <3>3. HasSeat(server[t].booking.seat, server[t].key)
      BY <2>1, <3>2 DEF SeatsAreThere
    <3> QED BY <2>5, <3>1, <3>2, <3>3
  <2>7. ASSUME NEW l \in Keys, attempt'[l].status = "booked" PROVE HasSeat(attempt[l].seat, l)'
    <3>1. HasSeat(attempt[l].seat, l)
      BY <2>1, <2>7 DEF SeatsAreThere
    <3>2. l # k \/ HeldSeat(s) = {}
      BY <2>4, <2>7
    <3> QED BY <2>5, <3>1, <3>2
  <2>8. ASSUME NEW l \in Keys, meeting'[l].status = "booked" PROVE HasSeat(meeting[l].seat, l)'
    <3>1. HasSeat(meeting[l].seat, l) /\ attempt[l].stored
      BY <2>1, <2>8 DEF MeetingInv, MeetingIsStored, SeatsAreThere
    <3> QED BY <1>1, <2>3, <2>5, <3>1
  <2>9. SeatsAreThere'
    BY <2>6, <2>7, <2>8 DEF SeatsAreThere
  <2> QED BY <1>3, <2>2, <2>9 DEF MeetingInv
<1> QED BY <1>4, <1>5

\* Every step keeps the seats of the meetings there.
LEMMA MeetingStep == Invs /\ ProposalInv /\ MeetingInv /\ [Next]_vars => MeetingInv'
<1> SUFFICES ASSUME Invs, ProposalInv, MeetingInv, [Next]_vars PROVE MeetingInv'
  OBVIOUS
<1> USE DEF Invs
<1>a. /\ Nobody \notin Servers
      /\ \A t \in Servers : RowKnown(server[t]) /\ (server[t].pc \notin {"idle", "rejecting"} => server[t].key \in Keys)
      /\ attempt \in [Keys -> Attempts] /\ meeting \in [Keys -> Bookings]
      /\ Proposed \subseteq Keys /\ Proposed \cap Direct = {}
  BY HandlerKnown, BookingsAssumption DEF Nobody, Keys, Typing, TypeOK
<1>1. ASSUME NEW s \in Servers, NEW k \in Keys, Confirm(s, k) PROVE MeetingInv'
  <2>1. /\ server'[s].pc = "fencing" /\ server'[s].key = k
        /\ \A t \in Servers \ {s} : server'[t] = server[t]
        /\ proposal = "pending" /\ UNCHANGED <<proposal, attempt, meeting, seats>>
    BY <1>1, StartTyped DEF Confirm
  <2>2. MeetingIsStored' /\ ConfirmedIsPending'
    BY <2>1 DEF MeetingInv, MeetingIsStored, ConfirmedIsPending
  <2>3. Undisturbed' => Undisturbed /\ \A t \in Servers : server[t].pc \notin GivesBack
    BY <1>1 DEF Confirm, Undisturbed
  <2>4. ASSUME Undisturbed' PROVE NothingIsStoredMeanwhile'
    <3>1. \A t \in Servers : server'[t].pc \notin GivesBack
      BY <2>1, <2>3, <2>4 DEF GivesBack
    <3> QED BY <3>1 DEF NothingIsStoredMeanwhile
  <2>5. ASSUME Undisturbed' PROVE SeatsAreThere'
    <3>1. SeatsAreThere /\ \A t \in Servers : InHand(t)' => t # s
      BY <2>1, <2>3, <2>5 DEF MeetingInv, InHand
    <3> QED BY <2>1, <3>1 DEF SeatsAreThere, InHand, HasSeat
  <2> QED BY <2>2, <2>4, <2>5 DEF MeetingInv
<1>2. ASSUME NEW s \in Servers, NEW k \in Keys, Create(s, k) PROVE MeetingInv'
  <2>1. /\ server'[s].pc = "fencing" /\ server'[s].key = k /\ k \notin Proposed
        /\ \A t \in Servers \ {s} : server'[t] = server[t]
        /\ UNCHANGED <<proposal, meeting, crossed, attempt, seats>>
    BY <1>a, <1>2, StartTyped DEF Create
  <2> QED BY <2>1, SeatsStayStep DEF Undisturbed, Confirming, InHand, GivesBack
<1>3. ASSUME NEW s \in Servers, BeginReject(s) PROVE MeetingInv'
  <2>1. /\ server'[s].pc = "rejecting" /\ \A t \in Servers \ {s} : server'[t] = server[t]
        /\ Undisturbed' => Undisturbed
        /\ UNCHANGED <<proposal, meeting, attempt, seats>>
    BY <1>3, StartTyped DEF BeginReject, Undisturbed
  <2> QED BY <2>1, SeatsStayStep DEF Confirming, Asking, InHand, GivesBack
<1>4. ASSUME NEW s \in Servers, EndReject(s) PROVE MeetingInv'
  <2>1. /\ server'[s].pc = "idle" /\ \A t \in Servers \ {s} : server'[t] = server[t]
        /\ lock = Nobody /\ UNCHANGED <<attempt, meeting, seats, crossed>>
    BY <1>4, EndTyped DEF EndReject
  <2>2. \A t \in Servers : ~Confirming(t) /\ ~Confirming(t)'
    BY <1>a, <2>1 DEF ProposalInv, ProposalIsLocked, Confirming, Asking
  <2>3. MeetingIsStored' /\ ConfirmedIsPending'
    BY <2>1, <2>2 DEF MeetingInv, MeetingIsStored, ConfirmedIsPending
  <2>4. NothingIsStoredMeanwhile => NothingIsStoredMeanwhile'
    BY <2>1, <2>2 DEF NothingIsStoredMeanwhile, GivesBack
  <2>5. SeatsAreThere => SeatsAreThere'
    <3>1. \A t \in Servers : InHand(t)' => t # s
      BY <2>1 DEF InHand
    <3> QED BY <2>1, <3>1 DEF SeatsAreThere, InHand, HasSeat
  <2> QED BY <2>1, <2>3, <2>4, <2>5 DEF MeetingInv, Undisturbed
<1>5. ASSUME NEW s \in Servers, Store(s) PROVE MeetingInv'
  <2> DEFINE k == server[s].key
  <2>1. /\ k \in Keys /\ server[s].pc = "saving"
        /\ server'[s].pc = "idle" /\ \A t \in Servers \ {s} : server'[t] = server[t]
        /\ UNCHANGED <<seats, crossed>>
    BY <1>a, <1>5, EndTyped DEF Store, At
  <2>2. ~Confirming(s)' /\ ~InHand(s)' /\ server'[s].pc \notin GivesBack
    BY <2>1 DEF Confirming, Asking, InHand, GivesBack
  <2>3. \/ UNCHANGED <<attempt, meeting>>
        \/ /\ attempt'[k].stored /\ meeting'[k] = server[s].booking
           /\ \A l \in Keys \ {k} : attempt'[l] = attempt[l] /\ meeting'[l] = meeting[l]
           /\ attempt'[k].status = attempt[k].status /\ attempt'[k].seat = attempt[k].seat
    <3>1. attempt[k] \in Attempts
      BY <1>a, <2>1
    <3> QED BY <1>a, <1>5, <2>1, <3>1 DEF Store, Attempts
  <2>4. k \in Proposed => Confirming(s) /\ lock = s
    BY <2>1 DEF Confirming, ProposalInv, ProposalIsLocked
  <2>5. MeetingIsStored'
    BY <2>1, <2>3 DEF MeetingInv, MeetingIsStored
  <2>6. ConfirmedIsPending'
    <3>1. ASSUME NEW t \in Servers, Confirming(t)' PROVE Confirming(t) /\ t # s /\ k \notin Proposed
      <4>1. t # s /\ Confirming(t)
        BY <2>1, <2>2, <3>1 DEF Confirming
      <4> QED BY <2>4, <4>1 DEF ProposalInv, ProposalIsLocked
    <3>2. k \notin Proposed => proposal' = proposal
      BY <1>5 DEF Store
    <3> QED BY <3>1, <3>2 DEF MeetingInv, ConfirmedIsPending
  <2>7. ASSUME NothingIsStoredMeanwhile PROVE NothingIsStoredMeanwhile'
    <3> SUFFICES ASSUME NEW t \in Servers, server'[t].pc \in GivesBack
                 PROVE  (\A u \in Servers : ~Confirming(u)') /\ \A l \in Proposed : ~attempt'[l].stored
      BY DEF NothingIsStoredMeanwhile
    <3>1. /\ \A u \in Servers : ~Confirming(u)
          /\ \A l \in Proposed : ~attempt[l].stored
      BY <2>1, <2>2, <2>7 DEF NothingIsStoredMeanwhile
    <3>2. k \notin Proposed
      BY <2>4, <3>1
    <3> QED BY <1>a, <2>1, <2>2, <2>3, <3>1, <3>2 DEF Confirming
  <2>8. ASSUME SeatsAreThere PROVE SeatsAreThere'
    <3>1. \A n, l : HasSeat(n, l) => HasSeat(n, l)'
      BY <2>1 DEF HasSeat
    <3>2. ASSUME NEW t \in Servers, InHand(t)'
          PROVE  HasSeat(server[t].booking.seat, server[t].key)'
      BY <2>1, <2>2, <2>8, <3>1, <3>2 DEF SeatsAreThere, InHand
    <3>3. ASSUME NEW l \in Keys, attempt'[l].status = "booked" PROVE HasSeat(attempt[l].seat, l)'
      BY <2>3, <2>8, <3>1, <3>3 DEF SeatsAreThere
    <3>4. ASSUME NEW l \in Keys, meeting'[l].status = "booked" PROVE HasSeat(meeting[l].seat, l)'
      BY <2>1, <2>3, <2>8, <3>1, <3>4 DEF SeatsAreThere, InHand
    <3> QED BY <3>2, <3>3, <3>4 DEF SeatsAreThere
  <2> QED BY <2>1, <2>5, <2>6, <2>7, <2>8 DEF MeetingInv, Undisturbed
<1>6. ASSUME NEW s \in Servers, RollBack(s) PROVE MeetingInv'
  <2>1. /\ server[s].pc = "saving" /\ server'[s].pc \in {"idle", "compensating"}
        /\ \A t \in Servers \ {s} : server'[t] = server[t]
        /\ UNCHANGED <<proposal, attempt, meeting, seats, crossed>>
        /\ server'[s].pc = "compensating" => Confirming(s)
    BY <1>6, EndTyped, HandlerGoes DEF RollBack, At, Places, GivesBack, Confirming
  <2>2. CASE server'[s].pc = "idle"
    BY <2>1, <2>2, SeatsStayStep DEF Confirming, Asking, InHand, GivesBack, Undisturbed
  <2>3. CASE server'[s].pc = "compensating"
    <3>1. /\ Confirming(s) /\ ~Confirming(s)' /\ ~InHand(s)' /\ proposal = "pending"
          /\ \A t \in Servers \ {s} : ~Confirming(t)
      BY <2>1, <2>3 DEF Confirming, Asking, InHand, MeetingInv, ConfirmedIsPending, ProposalInv, ProposalIsLocked
    <3>2. MeetingIsStored' /\ ConfirmedIsPending'
      BY <2>1, <3>1 DEF MeetingInv, MeetingIsStored, ConfirmedIsPending, Confirming
    <3>3. NothingIsStoredMeanwhile'
      <4>1. \A t \in Servers : ~Confirming(t)'
        BY <2>1, <3>1 DEF Confirming
      <4>2. \A l \in Proposed : ~attempt'[l].stored
        BY <2>1, <3>1 DEF ProposalInv, StoredIsApproved
      <4> QED BY <4>1, <4>2 DEF NothingIsStoredMeanwhile
    <3>4. SeatsAreThere => SeatsAreThere'
      BY <2>1, <3>1 DEF SeatsAreThere, InHand, HasSeat
    <3> QED BY <2>1, <3>2, <3>3, <3>4 DEF MeetingInv, Undisturbed
  <2> QED BY <2>1, <2>2, <2>3
<1>7. ASSUME NEW s \in Servers, Fence(s) PROVE MeetingInv'
  <2>1. \E created \in BOOLEAN : GoesAs(s, "locking", created)
    BY <1>7 DEF Fence
  <2>2. /\ server[s].pc = "fencing" /\ server[s].key \in Keys
        /\ server'[s].pc = "locking" /\ server'[s].key = server[s].key
        /\ \A t \in Servers \ {s} : server'[t] = server[t]
        /\ UNCHANGED <<proposal, meeting, seats, crossed>>
    BY <1>a, <1>7, <2>1, HandlerGoesAs DEF Fence, At, Places
  <2>3. \A l \in Keys : /\ attempt'[l].stored <=> attempt[l].stored
                        /\ attempt'[l].status = "booked" => attempt'[l] = attempt[l]
    BY <1>a, <1>7, <2>2, HandlerKnown, AttemptWritten DEF Fence
  <2> QED BY <2>2, <2>3, SeatsStayStep DEF Confirming, Asking, InHand, GivesBack, Undisturbed
<1>8. ASSUME NEW s \in Servers, NEW k \in Keys, RefusedBefore(s, k) PROVE MeetingInv'
  <2>1. /\ server'[s].pc = "idle" /\ \A t \in Servers \ {s} : server'[t] = server[t]
        /\ UNCHANGED <<proposal, attempt, meeting, seats, crossed>>
    BY <1>8, EndTyped DEF RefusedBefore
  <2> QED BY <2>1, SeatsStayStep DEF Confirming, Asking, InHand, GivesBack, Undisturbed
<1>9. ASSUME NEW s \in Servers, NEW k \in Keys, Reclaim(s, k) PROVE MeetingInv'
  <2>1. /\ server[s].pc = "locking" /\ server[s].key = k
        /\ server'[s].pc = "reclaiming" /\ server'[s].key = server[s].key
        /\ \A t \in Servers \ {s} : server'[t] = server[t]
        /\ UNCHANGED <<proposal, meeting, seats, crossed>>
    BY <1>9, HandlerGoesAs DEF Reclaim, Reads, At, Places
  <2>2. \A l \in Keys : /\ attempt'[l].stored <=> attempt[l].stored
                        /\ attempt'[l].status = "booked" => attempt'[l] = attempt[l]
    BY <1>a, <1>9, <2>1, HandlerKnown, AttemptWritten DEF Reclaim
  <2> QED BY <2>1, <2>2, SeatsStayStep DEF Confirming, Asking, InHand, GivesBack, Undisturbed
<1>10. ASSUME NEW s \in Servers, NEW k \in Keys, Restore(s, k) PROVE MeetingInv'
  <2> DEFINE booking == [status |-> attempt[k].status, seat |-> attempt[k].seat]
  <2>1. booking \in Bookings /\ booking.status = attempt[k].status /\ booking.seat = attempt[k].seat
    BY <1>a, <1>10 DEF Restore, Attempts, Bookings
  <2>2. Learns(s, "saving", booking)
    BY <1>10 DEF Restore
  <2> HIDE DEF booking
  <2>3. /\ server[s].pc \in {"locking", "reclaiming"} /\ server[s].key = k
        /\ server'[s].pc = "saving" /\ server'[s].key = k /\ server'[s].booking = booking
        /\ \A t \in Servers \ {s} : server'[t] = server[t]
        /\ UNCHANGED <<proposal, attempt, meeting, seats, crossed>>
    BY <1>10, <2>1, <2>2, HandlerLearns DEF Restore, Reads, Places
  <2>4. Undisturbed /\ InHand(s)' => HasSeat(server[s].booking.seat, server[s].key)'
    <3>1. ASSUME Undisturbed, InHand(s)' PROVE HasSeat(attempt[k].seat, k)
      BY <2>1, <2>3, <3>1 DEF MeetingInv, SeatsAreThere, InHand
    <3> QED BY <2>1, <2>3, <3>1 DEF HasSeat
  <2> QED BY <2>3, <2>4, SeatsStayStep DEF Confirming, Asking, GivesBack, Undisturbed
<1>11. ASSUME NEW s \in Servers, NEW k \in Keys, DoubtPending(s, k) PROVE MeetingInv'
  <2>1. /\ server[s].pc \in {"locking", "reclaiming"} /\ server[s].key = k
        /\ server'[s].pc = "saving" /\ server'[s].key = k /\ server'[s].booking = Doubt
        /\ \A t \in Servers \ {s} : server'[t] = server[t]
        /\ UNCHANGED <<proposal, meeting, seats, crossed>>
    BY <1>11, HandlerKnown, HandlerLearns DEF DoubtPending, Reads, Places
  <2>2. \A l \in Keys : /\ attempt'[l].stored <=> attempt[l].stored
                        /\ attempt'[l].status = "booked" => attempt'[l] = attempt[l]
    BY <1>a, <1>11, <2>1, HandlerKnown, AttemptWritten DEF DoubtPending
  <2> QED BY <2>1, <2>2, SeatsStayStep DEF Confirming, Asking, InHand, GivesBack, Undisturbed, Doubt
<1>12. ASSUME NEW s \in Servers, NEW k \in Keys, Call(s, k) PROVE MeetingInv'
  <2>1. /\ server[s].pc \in {"locking", "reclaiming"}
        /\ server'[s].pc = "calling" /\ server'[s].key = server[s].key
        /\ \A t \in Servers \ {s} : server'[t] = server[t]
        /\ UNCHANGED <<proposal, attempt, meeting, seats, crossed>>
    BY <1>12, HandlerGoes DEF Call, Reads, Places
  <2> QED BY <2>1, SeatsStayStep DEF Confirming, Asking, InHand, GivesBack, Undisturbed
<1>13. ASSUME NEW s \in Servers, BookSeat(s) PROVE MeetingInv'
  <2> DEFINE booking == [status |-> "booked", seat |-> made + 1]
  <2>1. booking \in Bookings /\ booking.seat = made + 1
    BY <1>13, BookingsAssumption DEF BookSeat, Books, Bookings, Typing, TypeOK
  <2>2. Learns(s, "answered", booking)
    BY <1>13 DEF BookSeat
  <2> HIDE DEF booking
  <2>3. /\ server[s].pc = "calling" /\ seats' = seats \cup {[no |-> made + 1, key |-> server[s].key]}
        /\ server'[s].pc = "answered" /\ server'[s].key = server[s].key /\ server'[s].booking = booking
        /\ \A t \in Servers \ {s} : server'[t] = server[t]
        /\ UNCHANGED <<proposal, attempt, meeting, crossed>>
    BY <1>13, <2>1, <2>2, HandlerLearns DEF BookSeat, Books, At, Places
  <2>4. HasSeat(server[s].booking.seat, server[s].key)'
    <3> DEFINE new == [no |-> made + 1, key |-> server[s].key]
    <3>1. new \in seats' /\ new.no = made + 1 /\ new.key = server[s].key
      BY <2>3
    <3> HIDE DEF new
    <3>2. new.no = server'[s].booking.seat /\ new.key = server'[s].key
      BY <2>1, <2>3, <3>1
    <3> QED BY <3>1, <3>2 DEF HasSeat
  <2> QED BY <2>3, <2>4, SeatsStayStep DEF Confirming, Asking, GivesBack, Undisturbed
<1>14. ASSUME NEW s \in Servers, RecordSeat(s) PROVE MeetingInv'
  <2> DEFINE k == server[s].key
  <2>1. /\ server[s].pc = "answered" /\ k \in Keys /\ server[s].booking.status = "booked"
        /\ server'[s].pc = "saving" /\ server'[s].key = k /\ server'[s].booking = server[s].booking
        /\ \A t \in Servers \ {s} : server'[t] = server[t]
        /\ UNCHANGED <<proposal, meeting, seats, crossed>>
    BY <1>a, <1>14, HandlerGoes DEF RecordSeat, At, RowKnown, Places
  <2>2. /\ attempt'[k].seat = server[s].booking.seat
        /\ attempt'[k].stored = attempt[k].stored
        /\ \A l \in Keys \ {k} : attempt'[l] = attempt[l]
    BY <1>14, <2>1, HandlerKnown, AttemptWritten DEF RecordSeat
  <2>3. Undisturbed => HasSeat(server[s].booking.seat, k)'
    <3>1. Undisturbed => HasSeat(server[s].booking.seat, k)
      BY <2>1 DEF MeetingInv, SeatsAreThere, InHand
    <3> QED BY <2>1, <3>1 DEF HasSeat
  <2>4. \A l \in Keys : Undisturbed /\ attempt'[l].status = "booked" =>
            \/ attempt[l].status = "booked" /\ attempt'[l].seat = attempt[l].seat
            \/ HasSeat(attempt[l].seat, l)'
    BY <2>1, <2>2, <2>3 DEF HasSeat
  <2>5. Undisturbed /\ InHand(s)' => HasSeat(server[s].booking.seat, server[s].key)'
    BY <2>1, <2>3
  <2> QED BY <2>1, <2>2, <2>4, <2>5, SeatsStayStep DEF Confirming, Asking, GivesBack, Undisturbed
<1>15. ASSUME NEW s \in Servers, RecordRefusal(s) PROVE MeetingInv'
  <2>1. /\ server[s].pc = "calling" /\ server[s].key \in Keys
        /\ server'[s].pc = "idle" /\ \A t \in Servers \ {s} : server'[t] = server[t]
        /\ UNCHANGED <<proposal, meeting, seats, crossed>>
    BY <1>a, <1>15, EndTyped DEF RecordRefusal, At
  <2>2. \A l \in Keys : /\ attempt'[l].stored <=> attempt[l].stored
                        /\ attempt'[l].status = "booked" => attempt'[l] = attempt[l]
    <3>1. attempt[server[s].key].seat \in 0 .. MaxSeats
      BY <1>a, <2>1 DEF Attempts
    <3> QED BY <1>15, <2>1, <3>1, AttemptWritten DEF RecordRefusal
  <2> QED BY <2>1, <2>2, SeatsStayStep DEF Confirming, Asking, InHand, GivesBack, Undisturbed
<1>16. ASSUME NEW s \in Servers, LoseAnswer(s) PROVE MeetingInv'
  <2>1. /\ server[s].pc \in {"calling", "answered"} /\ server[s].key \in Keys
        /\ server'[s].pc = "saving" /\ server'[s].key = server[s].key /\ server'[s].booking = Doubt
        /\ \A t \in Servers \ {s} : server'[t] = server[t]
        /\ UNCHANGED <<proposal, meeting, seats, crossed>>
    BY <1>a, <1>16, HandlerKnown, HandlerLearns DEF LoseAnswer, Places
  <2>2. \A l \in Keys : /\ attempt'[l].stored <=> attempt[l].stored
                        /\ attempt'[l].status = "booked" => attempt'[l] = attempt[l]
    BY <1>16, <2>1, HandlerKnown, AttemptWritten DEF LoseAnswer
  <2> QED BY <2>1, <2>2, SeatsStayStep DEF Confirming, Asking, InHand, GivesBack, Undisturbed, Doubt
<1>17. ASSUME NEW s \in Servers, MarkDoubt(s) PROVE MeetingInv'
  <2>1. /\ server[s].pc = "compensating" /\ server[s].key \in Keys
        /\ server'[s].pc = "cancelling" /\ \A t \in Servers \ {s} : server'[t] = server[t]
        /\ UNCHANGED <<proposal, meeting, seats, crossed>>
    BY <1>a, <1>17, HandlerGoes DEF MarkDoubt, At, Places, GivesBack
  <2>2. \A l \in Keys : /\ attempt'[l].stored <=> attempt[l].stored
                        /\ attempt'[l].status = "booked" => attempt'[l] = attempt[l]
    BY <1>17, <2>1, HandlerKnown, AttemptWritten DEF MarkDoubt, Persists
  <2> QED BY <2>1, <2>2, SeatsStayStep DEF Confirming, Asking, InHand, GivesBack, Undisturbed
<1>18. ASSUME NEW s \in Servers, CancelSeat(s) PROVE MeetingInv'
  <2>1. /\ server'[s].pc \in GivesBack /\ server'[s].key = server[s].key
        /\ \A t \in Servers \ {s} : server'[t] = server[t]
        /\ UNCHANGED <<proposal, crossed, attempt, meeting>>
    BY <1>18, HandlerGoes DEF CancelSeat, Places, GivesBack
  <2> QED BY <1>18, <2>1, SeatGoesStep DEF CancelSeat
<1>19. ASSUME NEW s \in Servers, CancelFails(s) PROVE MeetingInv'
  <2>1. /\ server'[s].pc \in GivesBack /\ server'[s].key = server[s].key
        /\ \A t \in Servers \ {s} : server'[t] = server[t]
        /\ UNCHANGED <<proposal, crossed, attempt, meeting>>
    BY <1>19, HandlerGoes DEF CancelFails, Places, GivesBack
  <2> QED BY <1>19, <2>1, SeatGoesStep DEF CancelFails
<1>20. ASSUME NEW s \in Servers, Conclude(s) PROVE MeetingInv'
  <2>1. /\ server[s].key \in Keys /\ server[s].booking.seat \in 0 .. MaxSeats
        /\ server'[s].pc = "idle" /\ \A t \in Servers \ {s} : server'[t] = server[t]
        /\ UNCHANGED <<proposal, meeting, seats, crossed>>
    BY <1>a, <1>20, HandlerKnown, EndTyped DEF Conclude, At
  <2>2. \A l \in Keys : /\ attempt'[l].stored <=> attempt[l].stored
                        /\ attempt'[l].status = "booked" => attempt'[l] = attempt[l]
    BY <1>20, <2>1, HandlerKnown, AttemptWritten DEF Conclude, Persists
  <2> QED BY <2>1, <2>2, SeatsStayStep DEF Confirming, Asking, InHand, GivesBack, Undisturbed
<1>21. ASSUME NEW s \in Servers, Crash(s) PROVE MeetingInv'
  <2>1. /\ server'[s].pc = "idle" /\ \A t \in Servers \ {s} : server'[t] = server[t]
        /\ UNCHANGED <<proposal, attempt, meeting, seats, crossed>>
    BY <1>21, EndTyped DEF Crash
  <2> QED BY <2>1, SeatsStayStep DEF Confirming, Asking, InHand, GivesBack, Undisturbed
<1>22. ASSUME NEW k \in Keys, BookLate(k) PROVE MeetingInv'
  <2>1. seats \subseteq seats' /\ UNCHANGED <<proposal, attempt, meeting, server, crossed>>
    BY <1>22 DEF BookLate, Books
  <2>2. \A m, l : HasSeat(m, l) => HasSeat(m, l)'
    BY <2>1 DEF HasSeat
  <2> QED BY <2>1, <2>2 DEF MeetingInv, MeetingIsStored, ConfirmedIsPending, NothingIsStoredMeanwhile,
                            SeatsAreThere, InHand, Confirming, Undisturbed
\* Nobody is confirming a room then: the proposal is not locked.
<1>24. ASSUME ConfirmWithoutRoom PROVE MeetingInv'
  <2>1. \A t \in Servers : ~Confirming(t)
    BY <1>a, <1>24 DEF ConfirmWithoutRoom, ProposalInv, ProposalIsLocked
  <2> QED BY <1>24, <2>1 DEF ConfirmWithoutRoom, MeetingInv, MeetingIsStored, ConfirmedIsPending,
                             NothingIsStoredMeanwhile, SeatsAreThere, InHand, Confirming, Undisturbed, HasSeat
<1>23. CASE UNCHANGED vars
  BY <1>23 DEF vars, MeetingInv, MeetingIsStored, ConfirmedIsPending, NothingIsStoredMeanwhile, SeatsAreThere,
            InHand, Confirming, Undisturbed, HasSeat
<1> QED BY <1>1, <1>2, <1>3, <1>4, <1>5, <1>6, <1>7, <1>8, <1>9, <1>10, <1>11, <1>12,
           <1>13, <1>14, <1>15, <1>16, <1>17, <1>18, <1>19, <1>20, <1>21, <1>22, <1>23, <1>24
        DEF Next, Handles, Attempted

-----------------------------------------------------------------------------
(* The theorems.                                                           *)

\* Before the first request nothing exists, and nobody holds anything.
LEMMA InitInv == Init => IndInv
<1> SUFFICES ASSUME Init PROVE IndInv
  OBVIOUS
<1>1. /\ NoAttempt \in Attempts /\ NoAttempt.status = "none" /\ ~NoAttempt.stored
      /\ NoBooking \in Bookings /\ NoBooking.status = "none"
      /\ NoRequest \in Handlers /\ NoRequest.pc = "idle" /\ NoRequest.booking = NoBooking
  <2>1. 0 \in 0 .. MaxSeats
    BY BookingsAssumption
  <2>2. NoAttempt \in Attempts /\ NoBooking \in Bookings
    BY <2>1 DEF NoAttempt, Attempts, NoBooking, Bookings
  <2>3. NoRequest \in Handlers
    BY FirstRows DEF RowKnown
  <2> QED BY <2>2, <2>3 DEF NoAttempt, NoBooking, NoRequest
<1>2. /\ \A s \in Servers : server[s] = NoRequest
      /\ \A k \in Keys : attempt[k] = NoAttempt
      /\ seats = {} /\ late = {}
  BY DEF Init
<1>3. Typing
  <2>1. RequestsAreKnown
    BY <1>2, FirstRows DEF RequestsAreKnown
  <2>2. TypeOK
    BY <1>1, BookingsAssumption DEF Init, TypeOK
  <2> QED BY <2>1, <2>2 DEF Typing
<1>4. KeyInv
  <2>1. OneOfAKey /\ LedgerTellsOfSeats
    BY <1>1, <1>2 DEF OneOfAKey, LedgerTellsOfSeats, Loaded
  <2>2. \A s \in Servers : HandlerInv(s)
    BY <1>1, <1>2 DEF HandlerInv, CallsUnderTheFence, HoldsItsSeat, GivesBackOnce, Calls, GaveBack
  <2> QED BY <2>1, <2>2 DEF KeyInv
<1>5. ProposalInv
  BY <1>1, <1>2 DEF Init, ProposalInv, ProposalIsLocked, StoredIsApproved, NoOtherContentIsLoaded,
                    RejectedIsEmpty, Confirming, Asking, Loaded, At, Keys
<1>6. MeetingInv
  BY <1>1, <1>2 DEF Init, MeetingInv, MeetingIsStored, ConfirmedIsPending, NothingIsStoredMeanwhile,
                    SeatsAreThere, InHand, GivesBack
<1> QED BY <1>3, <1>4, <1>5, <1>6 DEF IndInv

\* The invariant is inductive: the handlers, the ledger of the seats and the lock of the
\* proposal agree after every step of every handler, crashes and lost answers included.
THEOREM Invariance == Spec => []IndInv
<1>1. IndInv /\ [Next]_vars => IndInv'
  BY TypeStep, KeyStep, ProposalStep, MeetingStep DEF IndInv, Invs
<1> QED BY InitInv, <1>1, PTL DEF Spec

\* Every table, every handler and what is outside keep their types.
THEOREM TypeCorrect == Spec => []TypeOK
<1>1. IndInv => TypeOK
  BY DEF IndInv, Typing
<1> QED BY <1>1, Invariance, PTL

\* A set whose elements are all the same has one at most.
LEMMA AtMostOne ==
  ASSUME NEW S, \A x, y \in S : x = y
  PROVE  (S = {} /\ Cardinality(S) = 0) \/ (S # {} /\ Cardinality(S) = 1)
<1>1. CASE S = {}
  <2>1. Cardinality({}) = 0
    BY FS_EmptySet
  <2> QED BY <1>1, <2>1
<1>2. CASE S # {}
  <2>1. PICK x : x \in S
    BY <1>2
  <2>2. S = {x}
    BY <2>1
  <2>3. Cardinality({x}) = 1
    BY FS_Singleton
  <2> QED BY <1>2, <2>2, <2>3
<1> QED BY <1>1, <1>2

\* Two sets that hold one element between them.
LEMMA OneBetweenThem ==
  ASSUME NEW S, NEW T, \A x, y \in S : x = y, \A x, y \in T : x = y, S = {} \/ T = {}
  PROVE  Cardinality(S) + Cardinality(T) <= 1
<1>1. (S = {} /\ Cardinality(S) = 0) \/ (S # {} /\ Cardinality(S) = 1)
  BY AtMostOne
<1>2. (T = {} /\ Cardinality(T) = 0) \/ (T # {} /\ Cardinality(T) = 1)
  BY AtMostOne
<1> QED BY <1>1, <1>2

\* One seat at most exists or may come to exist for a proposal, and for a key of a
\* direct request; a proposal rejected by itself has none (create_meeting,
\* _prepare_action_effect, _compensate_room_creation_attempt, _confirm).
THEOREM OneSeat == Spec => []OneSeatPerProposal
<1>1. IndInv => OneSeatPerProposal
  <2> SUFFICES ASSUME IndInv PROVE OneSeatPerProposal
    OBVIOUS
  <2> USE DEF IndInv
  <2>1. /\ seats \subseteq [no : 1 .. MaxSeats, key : Keys] /\ late \subseteq Keys
        /\ Proposed \subseteq Keys /\ OneOfAKey
    BY DEF Typing, TypeOK, KeyInv, Keys
  <2>2. ASSUME NEW k \in Direct PROVE Cardinality(Outside({k})) + Cardinality(Expected({k})) <= 1
    <3>1. \A x, y \in Outside({k}) : x = y
      BY <2>1 DEF Outside, OneOfAKey
    <3>2. \A x, y \in Expected({k}) : x = y
      BY DEF Expected
    <3>3. Outside({k}) = {} \/ Expected({k}) = {}
      BY <2>1 DEF Outside, Expected, OneOfAKey
    <3> QED BY <3>1, <3>2, <3>3, OneBetweenThem
  <2>3. \A k, l \in Proposed : Loaded(k) /\ Loaded(l) => k = l
    BY DEF ProposalInv, NoOtherContentIsLoaded
  <2>4. /\ \A x \in Outside(Proposed) : x.key \in Proposed /\ Loaded(x.key) /\ x \in seats
        /\ \A k \in Expected(Proposed) : k \in Proposed /\ Loaded(k) /\ k \in late
    BY DEF Outside, Expected, Loaded
  <2>5. Cardinality(Outside(Proposed)) + Cardinality(Expected(Proposed)) <= 1
    <3>1. \A x, y \in Outside(Proposed) : x = y
      BY <2>1, <2>3, <2>4 DEF OneOfAKey
    <3>2. \A x, y \in Expected(Proposed) : x = y
      BY <2>3, <2>4
    <3>3. Outside(Proposed) = {} \/ Expected(Proposed) = {}
      BY <2>1, <2>3, <2>4 DEF OneOfAKey
    <3> QED BY <3>1, <3>2, <3>3, OneBetweenThem
  <2>6. proposal = "rejected" /\ "rejection" \notin crossed =>
            Outside(Proposed) = {} /\ Expected(Proposed) = {}
    BY <2>4 DEF ProposalInv, RejectedIsEmpty
  <2> QED BY <2>2, <2>5, <2>6 DEF OneSeatPerProposal
<1> QED BY <1>1, Invariance, PTL

\* A seat that exists outside, or may come to exist, is on record as booked, pending
\* or to be verified (_resolve_room_creation_attempt, _persist_room_creation_compensation).
THEOREM SeatsAreRemembered == Spec => []NoSeatIsForgotten
<1>1. IndInv => NoSeatIsForgotten
  <2> SUFFICES ASSUME IndInv, NEW k \in Keys, Outside({k}) # {} \/ Expected({k}) # {}
               PROVE  attempt[k].status \in {"pending", "booked", "needs_verification"}
    BY DEF NoSeatIsForgotten
  <2>1. Loaded(k)
    BY DEF Outside, Expected, Loaded
  <2>2. attempt[k] \in Attempts
    BY DEF IndInv, Typing, TypeOK
  <2> QED BY <2>1, <2>2 DEF IndInv, KeyInv, LedgerTellsOfSeats, Attempts
<1> QED BY <1>1, Invariance, PTL

\* A meeting that shows a booked room has that seat outside, unless its proposal was
\* confirmed while a seat of it was being given back (create_meeting, _confirm,
\* _compensate_room_creation_attempt).
THEOREM MeetingsKeepTheirSeats == Spec => []BookedMeetingHasItsSeat
<1>1. IndInv => BookedMeetingHasItsSeat
  BY DEF IndInv, MeetingInv, Undisturbed, SeatsAreThere, HasSeat, BookedMeetingHasItsSeat, SeatsOfMeetings
<1> QED BY <1>1, Invariance, PTL
=============================================================================
