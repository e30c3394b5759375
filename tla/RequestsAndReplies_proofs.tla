--------------------- MODULE RequestsAndReplies_proofs ----------------------
(***************************************************************************)
(* Proofs about two components that share no name: a work request          *)
(* (WorkRequests), for every number of sessions, rounds, rows and          *)
(* versions; and the replies to mails and rooms (ExternalReplies), for     *)
(* every number of replies, rooms, workers, requests and faults.           *)
(***************************************************************************)
EXTENDS WorkRequests, ExternalReplies, TLAPS, FiniteSetTheorems, SequenceTheorems

-----------------------------------------------------------------------------
(***************************************************************************)
(* One work request, its task and the rows of its holders.                 *)
(*                                                                         *)
(* The two doors share no lock.  What keeps them apart is what the holder  *)
(* of a lock may still assume at its end: the request still wants an       *)
(* answer, its round is still the latest, the row it answers still waits.  *)
(***************************************************************************)
\* A row lock has one holder at most.
LocksExclude ==
    \A s, u \in Sessions : \A door \in {AtRequest, AtTask} :
        txn[s].command \in door /\ txn[u].command \in door => s = u

\* What a command at the door of the request read is still so, up to answers.
RequestReadsHold ==
    \A s \in Sessions : txn[s].command \in AtRequest =>
        /\ Judgeable
        /\ txn[s].round = Round
        /\ reviews[Round] = "pending" => txn[s].review = "pending"
        /\ txn[s].command \in Revisions => Round < MaxRounds

\* The row that is being answered still waits.
RowReadsHold == \A s \in Sessions : txn[s].command \in AtTask => rows[1].status = "pending"

\* One holder, one offer, and an offer beside a holder names him.
OneOfAKind ==
    \A status \in {"active", "pending"} : \A q, r \in RowsIn(status) : q = r
OfferNamesTheHolder == \A r \in RowsIn("pending") : Held => rows[r].supersedes \in RowsIn("active")

IndInv ==
    /\ TypeOK /\ LocksExclude
    /\ RequestReadsHold /\ RowReadsHold
    /\ OneOfAKind /\ OfferNamesTheHolder
    /\ OnlyTheLatestRoundWaits

-----------------------------------------------------------------------------
(* What a step may do to the rows and to the reviews.                      *)

Answered(r, status) == [rows EXCEPT ![r].status = status]

HandedTo(r) ==
    [k \in DOMAIN rows |->
        IF k = r THEN [rows[k] EXCEPT !.status = "active"]
        ELSE IF k = rows[r].supersedes /\ rows[k].status = "active"
             THEN [rows[k] EXCEPT !.status = "superseded"] ELSE rows[k]]

\* Rows end with their task, an offer that waits is answered or taken back, or a
\* new offer joins them.
RowsStep ==
    \/ rows' = rows
    \/ rows' = Ended /\ task'.state = "cancelled"
    \/ rows[1].status = "pending" /\ rows' = Answered(1, "active")
    \/ \E r \in RowsIn("pending"), status \in {"declined", "cancelled"} : rows' = Answered(r, status)
    \/ \E r \in RowsIn("pending") : rows' = HandedTo(r)
    \/ /\ ~Offered /\ Len(rows) < MaxRows
       /\ \E former \in 0 .. MaxRows :
             /\ IF Held THEN former \in RowsIn("active") ELSE former = 0
             /\ rows' = Offer(former)

\* A round is judged or closed, or a later one takes its place.
ReviewsStep ==
    \/ reviews' = reviews
    \/ \E n \in 0 .. MaxRounds, review \in {"decided", "cancelled"} :
          reviews' = [reviews EXCEPT ![n] = review]
    \/ \E s \in Sessions : EndRevise(s)

\* The first row and the latest round are there.
LEMMA FirstAndLatest ==
  ASSUME TypeOK
  PROVE  /\ DOMAIN rows = 1 .. Len(rows) /\ Len(rows) \in Nat /\ 1 \in DOMAIN rows
         /\ DOMAIN reviews = 1 .. Round /\ Round \in Nat \ {0} /\ Round \in DOMAIN reviews
         /\ \A r \in DOMAIN rows : rows[r] \in Rows
         /\ \A n \in DOMAIN reviews : reviews[n] \in Reviews
  BY RequestsAssumption DEF TypeOK, Round

\* An answer to a report leaves the rows and the reviews alone.
LEMMA AnswersToReports ==
  ASSUME NEW s \in Sessions
  PROVE  (\E c \in AtReport : BeginAnswerReport(s, c)) \/ EndAnswerReport(s)
            => rows' = rows /\ reviews' = reviews /\ request' = request
<1>1. ASSUME NEW c \in AtReport, BeginAnswerReport(s, c)
      PROVE  rows' = rows /\ reviews' = reviews /\ request' = request
  BY <1>1 DEF BeginAnswerReport
<1>2. EndAnswerReport(s) => rows' = rows /\ reviews' = reviews /\ request' = request
  BY DEF EndAnswerReport
<1> QED BY <1>1, <1>2

\* Every step is one of these.
LEMMA RowsStepOfNext ==
  ASSUME IndInv, [Next]_vars
  PROVE  RowsStep
<1> USE DEF IndInv, TypeOK, RowsStep
<1>0. DOMAIN rows = 1 .. Len(rows) /\ 1 \in DOMAIN rows
  BY FirstAndLatest
<1>1. ASSUME NEW s \in Sessions, EndAccept(s) PROVE RowsStep
  BY <1>1 DEF EndAccept, Answered
<1>2. ASSUME NEW s \in Sessions, EndReject(s) \/ EndWithdraw(s) PROVE RowsStep
  <2>1. CloseTask
    BY <1>2 DEF EndReject, EndWithdraw
  <2>2. rows' = rows \/ (rows' = Ended /\ task' = Moved(task, "cancelled"))
    BY <2>1 DEF CloseTask
  <2> QED BY <2>2 DEF Moved, Tasks
<1>3. ASSUME NEW s \in Sessions, EndAnswerRow(s) PROVE RowsStep
  <2>1. rows[1].status = "pending"
    BY <1>3 DEF EndAnswerRow, RowReadsHold
  <2>2. 1 \in RowsIn("pending")
    BY <1>0, <2>1 DEF RowsIn
  <2> QED BY <1>3, <2>1, <2>2 DEF EndAnswerRow, Answered
<1>4. ASSUME NEW r \in DOMAIN rows, AcceptRow(r) PROVE RowsStep
  <2>1. r \in RowsIn("pending")
    BY <1>4 DEF AcceptRow, RowsIn
  <2>2. rows[r].supersedes < r
    BY DEF TypeOK
  <2>3. rows' = HandedTo(r)
    <3>1. \A k \in DOMAIN rows : k \in {rows[r].supersedes} \ {0} <=> k = rows[r].supersedes
      BY <1>0
    <3> QED BY <1>4, <3>1 DEF AcceptRow, HandedTo
  <2> QED BY <2>1, <2>3
<1>5. ASSUME NEW r \in DOMAIN rows, DeclineRow(r) \/ CancelRow(r) PROVE RowsStep
  BY <1>5 DEF DeclineRow, CancelRow, RowsIn, Answered
<1>6. CASE Reassign
  <2>1. RowsIn("active") \subseteq 0 .. MaxRows /\ 0 \in 0 .. MaxRows
    BY <1>0, RequestsAssumption DEF RowsIn
  <2> QED BY <1>6, <2>1 DEF Reassign, Held
<1>7. CASE AgreeCancel
  <2>1. rows' = rows \/ (rows' = Ended /\ task' = Moved(task, "cancelled"))
    BY <1>7 DEF AgreeCancel
  <2> QED BY <2>1 DEF Moved, Tasks
<1>8. CASE \/ \E s \in Sessions :
                \/ \E c \in AtRequest : BeginRequestCommand(s, c)
                \/ \E c \in AtTask : BeginAnswerRow(s, c)
                \/ EndNegotiate(s) \/ EndRevise(s) \/ BeginAttach(s) \/ EndAttach(s) \/ Abort(s)
           \/ AddEvidence \/ Detach \/ Report \/ Propose \/ UNCHANGED vars
  BY <1>8 DEF BeginRequestCommand, BeginAnswerRow, EndNegotiate, EndRevise, BeginAttach, EndAttach,
              Abort, AddEvidence, Detach, Report, Propose, vars
<1>9. ASSUME NEW s \in Sessions, (\E c \in AtReport : BeginAnswerReport(s, c)) \/ EndAnswerReport(s)
      PROVE  RowsStep
  BY <1>9, AnswersToReports
<1> QED BY <1>1, <1>2, <1>3, <1>4, <1>5, <1>6, <1>7, <1>8, <1>9 DEF Next

\* Every step changes the rounds of a request in one of the ways above.
LEMMA ReviewsStepOfNext ==
  ASSUME IndInv, [Next]_vars
  PROVE  ReviewsStep
<1> USE DEF IndInv, TypeOK, ReviewsStep
<1>0. ASSUME NEW s \in Sessions PROVE txn[s].round \in 0 .. MaxRounds
  BY DEF Txns
<1>1. ASSUME NEW s \in Sessions, EndAccept(s) \/ EndReject(s) \/ EndNegotiate(s) PROVE ReviewsStep
  BY <1>0, <1>1 DEF EndAccept, EndReject, EndNegotiate, RecordDecision
<1>2. ASSUME NEW s \in Sessions, EndWithdraw(s) PROVE ReviewsStep
  BY <1>0, <1>2 DEF EndWithdraw
<1>3. ASSUME NEW s \in Sessions, EndAnswerRow(s) PROVE ReviewsStep
  BY <1>0, <1>3 DEF EndAnswerRow
<1>4. ASSUME NEW s \in Sessions, EndRevise(s) PROVE ReviewsStep
  BY <1>4
<1>5. CASE \/ \E s \in Sessions :
                \/ \E c \in AtRequest : BeginRequestCommand(s, c)
                \/ \E c \in AtTask : BeginAnswerRow(s, c)
                \/ BeginAttach(s) \/ EndAttach(s) \/ Abort(s)
           \/ \E r \in DOMAIN rows : AcceptRow(r) \/ DeclineRow(r) \/ CancelRow(r)
           \/ AddEvidence \/ Detach \/ Reassign \/ Report \/ Propose \/ AgreeCancel \/ UNCHANGED vars
  BY <1>5 DEF BeginRequestCommand, BeginAnswerRow, BeginAttach, EndAttach, Abort, AcceptRow, DeclineRow, CancelRow, AddEvidence, Detach, Reassign,
              Report, Propose, AgreeCancel, vars
<1>6. ASSUME NEW s \in Sessions, (\E c \in AtReport : BeginAnswerReport(s, c)) \/ EndAnswerReport(s)
      PROVE  ReviewsStep
  BY <1>6, AnswersToReports
<1> QED BY <1>1, <1>2, <1>3, <1>4, <1>5, <1>6 DEF Next

-----------------------------------------------------------------------------
(* The rows.                                                               *)

RowsTyped == rows \in Seq(Rows) /\ Len(rows) \in 1 .. MaxRows
             /\ \A r \in DOMAIN rows : rows[r].supersedes < r

\* A change of statuses keeps the rows, their number and what they replace.
LEMMA StatusesChange ==
  ASSUME IndInv,
         rows' = [k \in DOMAIN rows |-> rows'[k]],
         \A k \in DOMAIN rows :
             \E status \in {"pending", "active", "declined", "superseded", "ended", "cancelled"} :
                 rows'[k] = [rows[k] EXCEPT !.status = status]
  PROVE  RowsTyped' /\ DOMAIN rows' = DOMAIN rows
<1>1. /\ DOMAIN rows = 1 .. Len(rows) /\ Len(rows) \in Nat
      /\ \A k \in DOMAIN rows : rows[k] \in Rows /\ rows[k].supersedes < k
      /\ Len(rows) \in 1 .. MaxRows
  BY FirstAndLatest DEF IndInv, TypeOK
<1>2. \A k \in DOMAIN rows : rows'[k] \in Rows /\ rows'[k].supersedes = rows[k].supersedes
  BY <1>1 DEF Rows
<1>3. rows' \in [1 .. Len(rows) -> Rows]
  BY <1>1, <1>2
<1>4. rows' \in Seq(Rows) /\ Len(rows') = Len(rows) /\ DOMAIN rows' = DOMAIN rows
  BY <1>1, <1>3
<1> QED BY <1>1, <1>2, <1>4 DEF RowsTyped

\* Every row stays a row, and one of a kind stays one of a kind.
LEMMA RowsStepKeeps ==
  ASSUME IndInv, RowsStep
  PROVE  RowsTyped' /\ OneOfAKind' /\ OfferNamesTheHolder'
<1> USE DEF IndInv
<1>0. /\ DOMAIN rows = 1 .. Len(rows) /\ Len(rows) \in Nat /\ 1 \in DOMAIN rows
      /\ \A r \in DOMAIN rows : rows[r] \in Rows /\ rows[r].supersedes < r
      /\ RowsTyped
  BY FirstAndLatest DEF TypeOK, RowsTyped
<1>1. CASE rows' = rows
  BY <1>0, <1>1 DEF RowsTyped, OneOfAKind, OfferNamesTheHolder, RowsIn, Held
<1>2. CASE rows' = Ended
  <2>1. RowsTyped' /\ DOMAIN rows' = DOMAIN rows
    <3>1. \A k \in DOMAIN rows :
             \E status \in {"pending", "active", "declined", "superseded", "ended", "cancelled"} :
                 rows'[k] = [rows[k] EXCEPT !.status = status]
      BY <1>0, <1>2 DEF Ended, Rows
    <3>2. rows' = [k \in DOMAIN rows |-> rows'[k]]
      BY <1>0, <1>2 DEF Ended
    <3> QED BY <3>1, <3>2, StatusesChange
  <2>2. \A k \in DOMAIN rows : rows'[k].status \notin {"active", "pending"}
    BY <1>0, <1>2 DEF Ended, Rows
  <2> QED BY <2>1, <2>2 DEF OneOfAKind, OfferNamesTheHolder, RowsIn
<1>3. CASE rows[1].status = "pending" /\ rows' = Answered(1, "active")
  <2>1. RowsTyped' /\ DOMAIN rows' = DOMAIN rows
    <3>1. \A k \in DOMAIN rows :
             \E status \in {"pending", "active", "declined", "superseded", "ended", "cancelled"} :
                 rows'[k] = [rows[k] EXCEPT !.status = status]
      BY <1>0, <1>3 DEF Answered, Rows
    <3>2. rows' = [k \in DOMAIN rows |-> rows'[k]]
      BY <1>0, <1>3 DEF Answered
    <3> QED BY <3>1, <3>2, StatusesChange
  <2>2. RowsIn("pending") = {1} /\ RowsIn("active") = {}
    <3>1. 1 \in RowsIn("pending")
      BY <1>0, <1>3 DEF RowsIn
    <3>2. rows[1].supersedes \notin RowsIn("active")
      BY <1>0 DEF RowsIn
    <3> QED BY <3>1, <3>2 DEF OneOfAKind, OfferNamesTheHolder, Held
  <2>3. \A k \in DOMAIN rows : rows'[k].status = IF k = 1 THEN "active" ELSE rows[k].status
    BY <1>0, <1>3 DEF Answered, Rows
  <2>4. RowsIn("pending")' = {} /\ RowsIn("active")' = {1}
    BY <1>0, <2>1, <2>2, <2>3 DEF RowsIn
  <2> QED BY <2>1, <2>4 DEF OneOfAKind, OfferNamesTheHolder
<1>4. ASSUME NEW r \in RowsIn("pending"), NEW status \in {"declined", "cancelled"},
             rows' = Answered(r, status)
      PROVE  RowsTyped' /\ OneOfAKind' /\ OfferNamesTheHolder'
  <2>0. r \in DOMAIN rows /\ rows[r].status = "pending"
    BY DEF RowsIn
  <2>1. RowsTyped' /\ DOMAIN rows' = DOMAIN rows
    <3>1. \A k \in DOMAIN rows :
             \E end \in {"pending", "active", "declined", "superseded", "ended", "cancelled"} :
                 rows'[k] = [rows[k] EXCEPT !.status = end]
      BY <1>0, <1>4 DEF Answered, Rows
    <3>2. rows' = [k \in DOMAIN rows |-> rows'[k]]
      BY <1>0, <1>4 DEF Answered
    <3> QED BY <3>1, <3>2, StatusesChange
  <2>2. \A k \in DOMAIN rows : rows'[k].status = IF k = r THEN status ELSE rows[k].status
    BY <1>0, <1>4, <2>0 DEF Answered, Rows
  <2>3. RowsIn("pending")' = {} /\ RowsIn("active")' = RowsIn("active")
    <3>1. RowsIn("pending") = {r}
      BY DEF OneOfAKind
    <3> QED BY <2>0, <2>1, <2>2, <3>1 DEF RowsIn
  <2> QED BY <2>1, <2>3 DEF OneOfAKind, OfferNamesTheHolder
<1>5. ASSUME NEW r \in RowsIn("pending"), rows' = HandedTo(r)
      PROVE  RowsTyped' /\ OneOfAKind' /\ OfferNamesTheHolder'
  <2>0. r \in DOMAIN rows /\ rows[r].status = "pending" /\ rows[r].supersedes # r
    BY <1>0 DEF RowsIn
  <2>1. RowsTyped' /\ DOMAIN rows' = DOMAIN rows
    <3>1. \A k \in DOMAIN rows :
             \E end \in {"pending", "active", "declined", "superseded", "ended", "cancelled"} :
                 rows'[k] = [rows[k] EXCEPT !.status = end]
      BY <1>0, <1>5 DEF HandedTo, Rows
    <3>2. rows' = [k \in DOMAIN rows |-> rows'[k]]
      BY <1>0, <1>5 DEF HandedTo
    <3> QED BY <3>1, <3>2, StatusesChange
  <2>2. \A k \in DOMAIN rows :
           rows'[k].status = IF k = r THEN "active"
                             ELSE IF k = rows[r].supersedes /\ rows[k].status = "active"
                                  THEN "superseded" ELSE rows[k].status
    BY <1>0, <1>5, <2>0 DEF HandedTo, Rows
  <2>3. RowsIn("pending") = {r} /\ RowsIn("active") \subseteq {rows[r].supersedes}
    BY DEF OneOfAKind, OfferNamesTheHolder, Held
  <2>4. RowsIn("pending")' = {} /\ RowsIn("active")' = {r}
    BY <2>0, <2>1, <2>2, <2>3 DEF RowsIn
  <2> QED BY <2>1, <2>4 DEF OneOfAKind, OfferNamesTheHolder
<1>6. ASSUME NEW former \in 0 .. MaxRows, ~Offered, Len(rows) < MaxRows,
             IF Held THEN former \in RowsIn("active") ELSE former = 0,
             rows' = Offer(former)
      PROVE  RowsTyped' /\ OneOfAKind' /\ OfferNamesTheHolder'
  <2> DEFINE new == Len(rows) + 1
  <2>1. former < new
    BY <1>0, <1>6 DEF RowsIn, Held
  <2>2. [kind |-> "direct", supersedes |-> former, status |-> "pending"] \in Rows
    BY DEF Rows
  <2>3. /\ rows' \in Seq(Rows) /\ Len(rows') = new /\ DOMAIN rows' = 1 .. new
        /\ \A k \in DOMAIN rows : rows'[k] = rows[k]
        /\ rows'[new] = [kind |-> "direct", supersedes |-> former, status |-> "pending"]
    BY <1>0, <1>6, <2>2 DEF Offer, RowsTyped
  <2>4. RowsTyped'
    BY <1>0, <1>6, <2>1, <2>3, RequestsAssumption DEF RowsTyped
  <2>5. RowsIn("pending")' = {new} /\ RowsIn("active")' = RowsIn("active")
    BY <1>0, <1>6, <2>3 DEF RowsIn, Offered
  <2> QED BY <1>6, <2>3, <2>4, <2>5 DEF OneOfAKind, OfferNamesTheHolder, Held
<1> QED BY <1>1, <1>2, <1>3, <1>4, <1>5, <1>6 DEF RowsStep

-----------------------------------------------------------------------------
(* The reviews.                                                            *)

ReviewsTyped == reviews \in Seq(Reviews) /\ Round \in 1 .. MaxRounds

\* Every review stays one, and a round that was followed by another waits no more.
LEMMA ReviewsStepKeeps ==
  ASSUME IndInv, ReviewsStep
  PROVE  ReviewsTyped' /\ OnlyTheLatestRoundWaits'
<1> USE DEF IndInv
<1>0. /\ DOMAIN reviews = 1 .. Round /\ Round \in Nat \ {0} /\ Round \in 1 .. MaxRounds
      /\ \A n \in DOMAIN reviews : reviews[n] \in Reviews
      /\ ReviewsTyped
  BY FirstAndLatest DEF TypeOK, ReviewsTyped
<1>1. CASE reviews' = reviews
  BY <1>0, <1>1 DEF ReviewsTyped, OnlyTheLatestRoundWaits, Round
<1>2. ASSUME NEW n \in 0 .. MaxRounds, NEW review \in {"decided", "cancelled"},
             reviews' = [reviews EXCEPT ![n] = review]
      PROVE  ReviewsTyped' /\ OnlyTheLatestRoundWaits'
  <2>1. \A k \in DOMAIN reviews : reviews'[k] = IF k = n THEN review ELSE reviews[k]
    BY <1>2
  <2>2. reviews' \in [1 .. Round -> Reviews]
    BY <1>0, <1>2 DEF Reviews
  <2>3. reviews' \in Seq(Reviews) /\ Len(reviews') = Round
    BY <1>0, <2>2
  <2> QED BY <1>0, <2>1, <2>3 DEF ReviewsTyped, OnlyTheLatestRoundWaits, Round
<1>3. ASSUME NEW s \in Sessions, EndRevise(s)
      PROVE  ReviewsTyped' /\ OnlyTheLatestRoundWaits'
  <2> DEFINE earlier == IF txn[s].review = "pending"
                        THEN [reviews EXCEPT ![txn[s].round] = "superseded"] ELSE reviews
  <2>1. /\ txn[s].round = Round /\ Round < MaxRounds
        /\ reviews[Round] = "pending" => txn[s].review = "pending"
        /\ reviews' = Append(earlier, "pending")
    BY <1>3 DEF EndRevise, RequestReadsHold, AtRequest
  <2>2. earlier \in [1 .. Round -> Reviews]
    <3>1. reviews \in [1 .. Round -> Reviews] /\ "superseded" \in Reviews
      BY <1>0 DEF ReviewsTyped, Round, Reviews
    <3> QED BY <3>1
  <2>3. earlier \in Seq(Reviews) /\ Len(earlier) = Round
    BY <1>0, <2>2
  <2>4. ASSUME NEW k \in 1 .. Round PROVE earlier[k] # "pending"
    <3>1. CASE k = Round
      BY <1>0, <2>1, <3>1
    <3>2. CASE k # Round
      <4>1. k \in 1 .. Round - 1 /\ reviews[k] # "pending"
        BY <1>0, <3>2 DEF OnlyTheLatestRoundWaits
      <4> QED BY <1>0, <2>1, <3>2, <4>1
    <3> QED BY <3>1, <3>2
  <2> HIDE DEF earlier
  <2>5. "pending" \in Reviews
    BY DEF Reviews
  <2>6. /\ reviews' \in Seq(Reviews) /\ Len(reviews') = Round + 1
        /\ \A k \in 1 .. Round : reviews'[k] = earlier[k]
    BY <1>0, <2>1, <2>3, <2>5
  <2>7. Round' = Round + 1
    BY <2>6 DEF Round
  <2>8. ReviewsTyped'
    BY <1>0, <2>1, <2>6, <2>7, RequestsAssumption DEF ReviewsTyped
  <2>9. OnlyTheLatestRoundWaits'
    <3>1. 1 .. Round' - 1 = 1 .. Round
      BY <1>0, <2>7
    <3>2. \A k \in 1 .. Round : reviews'[k] # "pending"
      BY <2>4, <2>6
    <3> QED BY <3>1, <3>2 DEF OnlyTheLatestRoundWaits
  <2> QED BY <2>8, <2>9
<1> QED BY <1>1, <1>2, <1>3 DEF ReviewsStep

-----------------------------------------------------------------------------
(* The sessions.                                                           *)

\* A session ends what it had under way.
LEMMA TxnEnds ==
  ASSUME IndInv, NEW s \in Sessions, txn' = [txn EXCEPT ![s] = NoTxn]
  PROVE  /\ txn' \in [Sessions -> Txns] /\ LocksExclude'
         /\ \A u \in Sessions :
               txn'[u].command \in AtRequest \cup AtTask => u # s /\ txn'[u] = txn[u]
<1>1. NoTxn \in Txns /\ NoTxn.command \notin AtRequest \cup AtTask
  BY RequestsAssumption DEF NoTxn, Txns, AtRequest, AtTask, Answers, Revisions
<1>2. \A u \in Sessions : txn'[u] = IF u = s THEN NoTxn ELSE txn[u]
  BY DEF IndInv, TypeOK
<1>3. txn' \in [Sessions -> Txns]
  BY <1>1 DEF IndInv, TypeOK
<1>4. \A u \in Sessions : txn'[u].command \in AtRequest \cup AtTask => u # s /\ txn'[u] = txn[u]
  BY <1>1, <1>2
<1> QED BY <1>3, <1>4 DEF IndInv, LocksExclude

\* A session that begins behind a free lock is its only holder.
LEMMA TxnBegins ==
  ASSUME IndInv, NEW s \in Sessions, NEW t \in Txns, txn' = [txn EXCEPT ![s] = t],
         t.command \in AtRequest => RequestFree,
         t.command \in AtTask => TaskFree
  PROVE  /\ txn' \in [Sessions -> Txns] /\ LocksExclude'
         /\ \A u \in Sessions : txn'[u] = IF u = s THEN t ELSE txn[u]
<1>1. \A u \in Sessions : txn'[u] = IF u = s THEN t ELSE txn[u]
  BY DEF IndInv, TypeOK
<1>2. txn' \in [Sessions -> Txns]
  BY DEF IndInv, TypeOK
<1>3. AtRequest \cap AtTask = {}
  BY DEF AtRequest, AtTask, Answers, Revisions
<1>4. LocksExclude'
  <2>1. ASSUME NEW u \in Sessions, NEW v \in Sessions, NEW door \in {AtRequest, AtTask},
               txn'[u].command \in door, txn'[v].command \in door
        PROVE  u = v
    <3>1. CASE u # s /\ v # s
      BY <1>1, <2>1, <3>1 DEF IndInv, LocksExclude
    <3>2. CASE u = s \/ v = s
      BY <1>1, <2>1, <3>2 DEF RequestFree, TaskFree
    <3> QED BY <3>1, <3>2
  <2> QED BY <2>1 DEF LocksExclude
<1> QED BY <1>1, <1>2, <1>4

\* What a command reads of the rows as they are committed is typed.
LEMMA ReadTyped ==
  ASSUME IndInv, NEW command \in AtRequest \cup AtTask
  PROVE  /\ Read(command) \in Txns
         /\ Read(command).command = command
         /\ Read(command).round = Round /\ Read(command).review = reviews[Round]
<1>1. Round \in 0 .. MaxRounds /\ reviews[Round] \in Reviews
  BY FirstAndLatest, RequestsAssumption DEF IndInv, TypeOK
<1> QED BY <1>1 DEF Read, Txns, IndInv, TypeOK

\* The sessions keep their types and their locks, and what they read holds on.
LEMMA SessionsStep ==
  ASSUME IndInv, [Next]_vars
  PROVE  /\ txn' \in [Sessions -> Txns] /\ LocksExclude'
         /\ RequestReadsHold' /\ RowReadsHold'
<1> DEFINE Goal == /\ txn' \in [Sessions -> Txns] /\ LocksExclude'
                   /\ RequestReadsHold' /\ RowReadsHold'
<1> USE DEF IndInv
<1>0. AtRequest \cap AtTask = {} /\ "attach" \notin AtRequest \cup AtTask
      /\ "none" \notin AtRequest \cup AtTask /\ Revisions \subseteq AtRequest
      /\ AtReport \cap (AtRequest \cup AtTask) = {}
  BY DEF AtRequest, AtTask, AtReport, Answers, Revisions
\* Whoever ends at the request was the only one there.
<1>1. ASSUME NEW s \in Sessions, txn[s].command \in AtRequest, txn' = [txn EXCEPT ![s] = NoTxn],
             rows' = rows \/ TaskFree
      PROVE  Goal
  <2>1. ASSUME NEW u \in Sessions PROVE txn'[u].command \notin AtRequest
    <3>1. SUFFICES ASSUME txn'[u].command \in AtRequest PROVE FALSE
      OBVIOUS
    <3>2. u # s /\ txn'[u] = txn[u]
      BY <1>1, <3>1, TxnEnds
    <3> QED BY <1>1, <3>1, <3>2 DEF LocksExclude
  <2>2. RowReadsHold'
    <3>1. ASSUME NEW u \in Sessions, txn'[u].command \in AtTask PROVE rows'[1].status = "pending"
      <4>1. txn[u].command \in AtTask
        BY <1>1, <3>1, TxnEnds
      <4> QED BY <1>1, <4>1 DEF TaskFree, RowReadsHold
    <3> QED BY <3>1 DEF RowReadsHold
  <2> QED BY <1>1, <2>1, <2>2, TxnEnds DEF RequestReadsHold
\* Whoever ends at the task was the only one there.
<1>2. ASSUME NEW s \in Sessions, EndAnswerRow(s) PROVE Goal
  <2>1. /\ txn[s].command \in AtTask /\ txn' = [txn EXCEPT ![s] = NoTxn] /\ request' = request
        /\ reviews' = [reviews EXCEPT ![txn[s].round] = "decided"]
    BY <1>2 DEF EndAnswerRow
  <2>2. ASSUME NEW u \in Sessions PROVE txn'[u].command \notin AtTask
    <3>1. SUFFICES ASSUME txn'[u].command \in AtTask PROVE FALSE
      OBVIOUS
    <3>2. u # s /\ txn'[u] = txn[u]
      BY <2>1, <3>1, TxnEnds
    <3> QED BY <2>1, <3>1, <3>2 DEF LocksExclude
  <2>3. Round' = Round /\ (reviews'[Round] = "pending" => reviews[Round] = "pending")
    <3>1. reviews \in [1 .. Round -> Reviews] /\ Round \in Nat
      BY FirstAndLatest DEF TypeOK, Round
    <3>2. reviews' \in [1 .. Round -> Reviews]
      BY <2>1, <3>1 DEF Reviews
    <3> QED BY <2>1, <3>1, <3>2 DEF Round
  <2>4. RequestReadsHold'
    <3>1. ASSUME NEW u \in Sessions, txn'[u].command \in AtRequest
          PROVE  txn[u].command \in AtRequest /\ txn'[u] = txn[u]
      BY <2>1, <3>1, TxnEnds
    <3> QED BY <2>1, <2>3, <3>1 DEF RequestReadsHold, Judgeable
  <2> QED BY <2>1, <2>2, <2>4, TxnEnds DEF RowReadsHold
<1>3. ASSUME NEW s \in Sessions, NEW c \in AtRequest, BeginRequestCommand(s, c) PROVE Goal
  <2>1. /\ txn' = [txn EXCEPT ![s] = Read(c)] /\ RequestFree
        /\ Judgeable /\ (c \in Revisions => Round < MaxRounds)
        /\ request' = request /\ reviews' = reviews /\ rows' = rows
    BY <1>3 DEF BeginRequestCommand, May, Judgeable, AtRequest, Revisions
  <2>2. txn' \in [Sessions -> Txns] /\ LocksExclude'
        /\ \A u \in Sessions : txn'[u] = IF u = s THEN Read(c) ELSE txn[u]
    <3>1. /\ Read(c) \in Txns
          /\ Read(c).command \in AtRequest => RequestFree
          /\ Read(c).command \in AtTask => TaskFree
      BY <1>0, <2>1, ReadTyped
    <3> QED BY <2>1, <3>1, TxnBegins
  <2>3. RequestReadsHold'
    BY <2>1, <2>2, ReadTyped DEF RequestReadsHold, RequestFree, Judgeable, Round
  <2>4. RowReadsHold'
    BY <1>0, <2>1, <2>2, ReadTyped DEF RowReadsHold
  <2> QED BY <2>2, <2>3, <2>4
<1>4. ASSUME NEW s \in Sessions, NEW c \in AtTask, BeginAnswerRow(s, c) PROVE Goal
  <2>1. /\ txn' = [txn EXCEPT ![s] = Read(c)] /\ TaskFree /\ rows[1].status = "pending"
        /\ request' = request /\ reviews' = reviews /\ rows' = rows
    BY <1>4 DEF BeginAnswerRow
  <2>2. txn' \in [Sessions -> Txns] /\ LocksExclude'
        /\ \A u \in Sessions : txn'[u] = IF u = s THEN Read(c) ELSE txn[u]
    <3>1. /\ Read(c) \in Txns
          /\ Read(c).command \in AtRequest => RequestFree
          /\ Read(c).command \in AtTask => TaskFree
      BY <1>0, <2>1, ReadTyped
    <3> QED BY <2>1, <3>1, TxnBegins
  <2>3. RequestReadsHold'
    BY <1>0, <2>1, <2>2, ReadTyped DEF RequestReadsHold, Judgeable, Round
  <2>4. RowReadsHold'
    BY <2>1, <2>2 DEF RowReadsHold
  <2> QED BY <2>2, <2>3, <2>4
\* A session that begins without a lock reads a version and nothing else.
<1> DEFINE Begun(c, version) == [NoTxn EXCEPT !.command = c, !.version = version]
<1>a. ASSUME NEW c \in {"attach"} \cup AtReport, NEW version \in Nat
      PROVE  Begun(c, version) \in Txns /\ Begun(c, version).command = c
  <2>1. NoTxn \in Txns
    BY RequestsAssumption DEF NoTxn, Txns
  <2> QED BY <2>1 DEF Txns, NoTxn
<1> HIDE DEF Begun
<1>5. ASSUME NEW s \in Sessions, NEW c \in {"attach"} \cup AtReport, NEW version \in Nat,
             txn' = [txn EXCEPT ![s] = Begun(c, version)],
             request' = request, reviews' = reviews, rows' = rows
      PROVE  Goal
  <2> DEFINE t == Begun(c, version)
  <2>1. txn' = [txn EXCEPT ![s] = t] /\ t \in Txns /\ t.command = c
    BY <1>a, <1>5
  <2> HIDE DEF t
  <2>2. c \notin AtRequest \cup AtTask
    BY <1>0
  <2>3. txn' \in [Sessions -> Txns] /\ LocksExclude'
        /\ \A u \in Sessions : txn'[u] = IF u = s THEN t ELSE txn[u]
    <3>1. (t.command \in AtRequest => RequestFree) /\ (t.command \in AtTask => TaskFree)
      BY <2>1, <2>2
    <3> QED BY <2>1, <3>1, TxnBegins
  <2> QED BY <1>5, <2>1, <2>2, <2>3 DEF RequestReadsHold, RowReadsHold, Judgeable, Round
<1>5a. ASSUME NEW s \in Sessions, BeginAttach(s) \/ \E c \in AtReport : BeginAnswerReport(s, c) PROVE Goal
  <2> HIDE DEF Goal
  <2>1. request.version \in Nat /\ task.version \in Nat
    BY DEF TypeOK, Requests, Tasks
  <2>2. CASE BeginAttach(s)
    <3>1. /\ txn' = [txn EXCEPT ![s] = Begun("attach", request.version)]
          /\ request' = request /\ reviews' = reviews /\ rows' = rows
          /\ "attach" \in {"attach"} \cup AtReport
      BY <2>2 DEF BeginAttach, Begun
    <3> QED BY <1>5, <2>1, <3>1
  <2>3. ASSUME NEW c \in AtReport, BeginAnswerReport(s, c) PROVE Goal
    <3>1. /\ txn' = [txn EXCEPT ![s] = Begun(c, task.version)]
          /\ request' = request /\ reviews' = reviews /\ rows' = rows
          /\ c \in {"attach"} \cup AtReport
      BY <2>3 DEF BeginAnswerReport, Begun
    <3> QED BY <1>5, <2>1, <3>1
  <2> QED BY <1>5a, <2>2, <2>3
<1>6. ASSUME NEW s \in Sessions, EndAttach(s) \/ EndAnswerReport(s) \/ Abort(s) PROVE Goal
  <2>1. /\ txn' = [txn EXCEPT ![s] = NoTxn] /\ reviews' = reviews /\ rows' = rows
        /\ request'.state = request.state
    BY <1>6 DEF EndAttach, EndAnswerReport, Abort, TypeOK, Requests
  <2>2. \A u \in Sessions : txn'[u].command \in AtRequest \cup AtTask => txn'[u] = txn[u]
    BY <2>1, TxnEnds
  <2> QED BY <2>1, <2>2, TxnEnds DEF RequestReadsHold, RowReadsHold, Judgeable, Round
\* Steps of one command: those that lock the task find no row answered there.
<1>7. ASSUME txn' = txn, reviews' = reviews, request'.state = request.state, rows' = rows \/ TaskFree
      PROVE  Goal
  <2>1. LocksExclude' /\ txn' \in [Sessions -> Txns]
    BY <1>7 DEF LocksExclude, TypeOK
  <2>2. RequestReadsHold'
    BY <1>7 DEF RequestReadsHold, Judgeable, Round
  <2>3. RowReadsHold'
    BY <1>7 DEF RowReadsHold, TaskFree
  <2> QED BY <2>1, <2>2, <2>3
<1>8. CASE AgreeCancel
  <2>1. txn' = txn /\ \A u \in Sessions : txn[u].command \notin AtRequest \cup AtTask
    BY <1>8 DEF AgreeCancel, RequestFree, TaskFree
  <2> QED BY <2>1 DEF LocksExclude, TypeOK, RequestReadsHold, RowReadsHold
<1>9. CASE \/ \E r \in DOMAIN rows : AcceptRow(r) \/ DeclineRow(r) \/ CancelRow(r)
           \/ AddEvidence \/ Detach \/ Reassign \/ Report \/ Propose \/ UNCHANGED vars
  <2>1. /\ txn' = txn /\ reviews' = reviews
        /\ rows' = rows \/ TaskFree
        /\ request' = request \/ request' = Bumped(request)
    BY <1>9 DEF AcceptRow, DeclineRow, CancelRow, AddEvidence, Detach, Reassign, Report, Propose, vars
  <2>2. request'.state = request.state
    BY <2>1 DEF Bumped, TypeOK, Requests
  <2> QED BY <1>7, <2>1, <2>2
<1>10. ASSUME NEW s \in Sessions,
              EndAccept(s) \/ EndReject(s) \/ EndNegotiate(s) \/ EndRevise(s) \/ EndWithdraw(s)
       PROVE  Goal
  <2>1. txn[s].command \in AtRequest /\ txn' = [txn EXCEPT ![s] = NoTxn] /\ (rows' = rows \/ TaskFree)
    BY <1>10 DEF EndAccept, EndReject, EndNegotiate, EndRevise, EndWithdraw, AtRequest, Answers
  <2> QED BY <1>1, <2>1
<1> QED BY <1>2, <1>3, <1>4, <1>5a, <1>6, <1>8, <1>9, <1>10 DEF Next

-----------------------------------------------------------------------------
(* The request, its question and its task.                                 *)

\* They move to states of their own and by one version at a time.
LEMMA StatesStep ==
  ASSUME IndInv, [Next]_vars
  PROVE  /\ request' \in Requests /\ item' \in Items /\ task' \in Tasks
         /\ proposal' \in {"none", "pending", "agreed"} /\ material' \subseteq {"request", "task"}
         /\ overruled' \in BOOLEAN
<1> DEFINE Goal == /\ request' \in Requests /\ item' \in Items /\ task' \in Tasks
                   /\ proposal' \in {"none", "pending", "agreed"}
                   /\ material' \subseteq {"request", "task"} /\ overruled' \in BOOLEAN
<1> USE DEF IndInv, TypeOK
<1>1. ASSUME NEW state \in {"pending", "negotiating", "accepted", "rejected", "withdrawn",
                            "cancelled_by_agreement"}
      PROVE  Moved(request, state) \in Requests /\ Bumped(request) \in Requests
  <2>1. request.version + 1 \in Nat
    BY DEF Requests
  <2>2. [request EXCEPT !.version = request.version + 1] \in Requests
    BY <2>1 DEF Requests
  <2>3. Moved(request, state) = [[request EXCEPT !.version = request.version + 1] EXCEPT !.state = state]
    BY DEF Moved, Requests
  <2> QED BY <2>2, <2>3 DEF Bumped, Requests, Cancelling
<1>2. ASSUME NEW state \in {"reported", "cancelled"}
      PROVE  Moved(task, state) \in Tasks /\ Bumped(task) \in Tasks
  <2>1. task.version + 1 \in Nat
    BY DEF Tasks
  <2>2. [task EXCEPT !.version = task.version + 1] \in Tasks
    BY <2>1 DEF Tasks
  <2>3. Moved(task, state) = [[task EXCEPT !.version = task.version + 1] EXCEPT !.state = state]
    BY DEF Moved, Tasks
  <2> QED BY <2>2, <2>3 DEF Bumped, Tasks
<1>3. ASSUME NEW loaded, NEW value \in Items PROVE Written(loaded, value) \in Items
  BY DEF Written
<1>4. CloseTask => task' \in Tasks
  BY <1>2 DEF CloseTask
<1>5. ASSUME NEW s \in Sessions, RecordDecision(s) PROVE item' \in Items
  BY <1>3, <1>5 DEF RecordDecision, Items
<1>6. ASSUME NEW s \in Sessions, EndAccept(s) \/ EndReject(s) \/ EndNegotiate(s) PROVE Goal
  BY <1>1, <1>2, <1>4, <1>5, <1>6 DEF EndAccept, EndReject, EndNegotiate
<1>7. ASSUME NEW s \in Sessions, EndRevise(s) \/ EndWithdraw(s) PROVE Goal
  <2>1. item' \in Items
    BY <1>3, <1>7 DEF EndRevise, EndWithdraw, Items
  <2> QED BY <1>1, <1>4, <1>7, <2>1 DEF EndRevise, EndWithdraw
<1>8. ASSUME NEW s \in Sessions, EndAnswerRow(s) PROVE Goal
  <2>1. item' \in Items
    BY <1>3, <1>8 DEF EndAnswerRow, Items
  <2> QED BY <1>2, <1>8, <2>1 DEF EndAnswerRow
<1>9. ASSUME NEW s \in Sessions, EndAttach(s) PROVE Goal
  <2>1. txn[s].version + 1 \in Nat
    BY DEF Txns
  <2>2. [request EXCEPT !.version = txn[s].version + 1] \in Requests
    BY <2>1 DEF Requests
  <2> QED BY <1>9, <2>2 DEF EndAttach
<1>10. ASSUME NEW r \in DOMAIN rows, AcceptRow(r) \/ DeclineRow(r) \/ CancelRow(r) PROVE Goal
  BY <1>2, <1>10 DEF AcceptRow, DeclineRow, CancelRow
<1>11. CASE AddEvidence \/ Detach \/ Reassign \/ Report \/ Propose
  BY <1>1, <1>2, <1>11 DEF AddEvidence, Detach, Reassign, Report, Propose
<1>12. CASE AgreeCancel
  <2>1. item' \in Items
    BY <1>12 DEF AgreeCancel, Items
  <2> QED BY <1>1, <1>2, <1>12, <2>1 DEF AgreeCancel
<1>13. CASE \/ \E s \in Sessions :
                 \/ \E c \in AtRequest : BeginRequestCommand(s, c)
                 \/ \E c \in AtTask : BeginAnswerRow(s, c)
                 \/ BeginAttach(s) \/ Abort(s)
            \/ UNCHANGED vars
  BY <1>13 DEF BeginRequestCommand, BeginAnswerRow, BeginAttach, Abort, vars
<1>14. ASSUME NEW s \in Sessions, EndAnswerReport(s) PROVE Goal
  <2>1. txn[s].version + 1 \in Nat
    BY DEF Txns
  <2>2. task' \in Tasks
    BY <1>14, <2>1 DEF EndAnswerReport, Tasks
  <2> QED BY <1>14, <2>2 DEF EndAnswerReport
<1>15. ASSUME NEW s \in Sessions, NEW c \in AtReport, BeginAnswerReport(s, c) PROVE Goal
  BY <1>15 DEF BeginAnswerReport
<1> QED BY <1>6, <1>7, <1>8, <1>9, <1>10, <1>11, <1>12, <1>13, <1>14, <1>15 DEF Next

-----------------------------------------------------------------------------
(* The theorems.                                                           *)

\* The invariant holds before the first request.
LEMMA InitInv == Init => IndInv
<1> SUFFICES ASSUME Init PROVE IndInv
  OBVIOUS
<1> USE DEF Init
<1>1. txn \in [Sessions -> Txns] /\ \A s \in Sessions : txn[s].command \notin AtRequest \cup AtTask
  BY RequestsAssumption DEF NoTxn, Txns, AtRequest, AtTask, Answers, Revisions
<1>2. reviews \in Seq(Reviews) /\ Len(reviews) = 1 /\ Round \in 1 .. MaxRounds
  BY RequestsAssumption DEF Reviews, Round
<1>3. /\ rows \in Seq(Rows) /\ Len(rows) = 1 /\ DOMAIN rows = {1}
      /\ rows[1].supersedes = 0 /\ rows[1].status = "pending" /\ Len(rows) \in 1 .. MaxRows
  BY RequestsAssumption DEF Rows
<1>4. request \in Requests /\ task \in Tasks /\ item \in Items /\ overruled \in BOOLEAN
  BY DEF Requests, Tasks, Items
<1>5. TypeOK
  BY <1>1, <1>2, <1>3, <1>4 DEF TypeOK
<1>6. RowsIn("active") = {} /\ RowsIn("pending") = {1}
  BY <1>3 DEF RowsIn
<1>7. OneOfAKind /\ OfferNamesTheHolder
  BY <1>6 DEF OneOfAKind, OfferNamesTheHolder, Held
<1>8. LocksExclude /\ RequestReadsHold /\ RowReadsHold
  BY <1>1 DEF LocksExclude, RequestReadsHold, RowReadsHold
<1>9. OnlyTheLatestRoundWaits
  BY <1>2 DEF OnlyTheLatestRoundWaits, Round
<1> QED BY <1>5, <1>7, <1>8, <1>9 DEF IndInv

\* Every step keeps it.
LEMMA InvStep == IndInv /\ [Next]_vars => IndInv'
<1> SUFFICES ASSUME IndInv, [Next]_vars PROVE IndInv'
  OBVIOUS
<1>1. RowsTyped' /\ OneOfAKind' /\ OfferNamesTheHolder'
  BY RowsStepOfNext, RowsStepKeeps
<1>2. ReviewsTyped' /\ OnlyTheLatestRoundWaits'
  BY ReviewsStepOfNext, ReviewsStepKeeps
<1> QED BY <1>1, <1>2, SessionsStep, StatesStep DEF IndInv, TypeOK, RowsTyped, ReviewsTyped

\* The invariant holds throughout.
THEOREM Invariance == Spec => []IndInv
<1> QED BY InitInv, InvStep, PTL DEF Spec

\* Every row keeps its type.
THEOREM TypeCorrect == Spec => []TypeOK
<1>1. IndInv => TypeOK
  BY DEF IndInv
<1> QED BY <1>1, Invariance, PTL

\* Revisions and answers at both doors leave one question open at most.
THEOREM LatestRoundWaits == Spec => []OnlyTheLatestRoundWaits
<1>1. IndInv => OnlyTheLatestRoundWaits
  BY DEF IndInv
<1> QED BY <1>1, Invariance, PTL

\* A task has one holder and one open offer at most, and the offer names him.
THEOREM OneHolder == Spec => []OneHolderAndOneOffer
<1>1. ASSUME IndInv, NEW status \in {"active", "pending"} PROVE Cardinality(RowsIn(status)) <= 1
  <2>1. CASE RowsIn(status) = {}
    BY <2>1, FS_EmptySet
  <2>2. ASSUME NEW r \in RowsIn(status) PROVE Cardinality(RowsIn(status)) <= 1
    <3>1. RowsIn(status) = {r}
      BY <1>1 DEF IndInv, OneOfAKind
    <3> QED BY <3>1, FS_Singleton
  <2> QED BY <2>1, <2>2
<1>2. IndInv => OneHolderAndOneOffer
  BY <1>1 DEF IndInv, OfferNamesTheHolder, OneHolderAndOneOffer
<1> QED BY <1>2, Invariance, PTL

\* Work that somebody holds keeps a holder while it goes on.
THEOREM HolderIsKept == Spec => HeldWorkKeepsAHolder
<1>1. ASSUME IndInv, [Next]_vars, Held, task'.state # "cancelled" PROVE Held'
  <2>0. /\ DOMAIN rows = 1 .. Len(rows) /\ Len(rows) \in Nat
        /\ \A r \in DOMAIN rows : rows[r] \in Rows
    BY <1>1, FirstAndLatest DEF IndInv
  <2>1. PICK h \in DOMAIN rows : rows[h].status = "active"
    BY <1>1 DEF Held, RowsIn
  <2>2. ASSUME NEW r \in DOMAIN rows', rows'[r].status = "active" PROVE Held'
    BY <2>2 DEF Held, RowsIn
  <2>3. CASE rows' = rows
    BY <2>1, <2>2, <2>3
  <2>4. CASE rows[1].status = "pending" /\ rows' = Answered(1, "active")
    BY <2>0, <2>1, <2>2, <2>4 DEF Answered
  <2>5. ASSUME NEW r \in RowsIn("pending"), NEW status \in {"declined", "cancelled"},
               rows' = Answered(r, status)
        PROVE  Held'
    BY <2>0, <2>1, <2>2, <2>5 DEF Answered, RowsIn
  <2>6. ASSUME NEW r \in RowsIn("pending"), rows' = HandedTo(r) PROVE Held'
    <3>1. r \in DOMAIN rows' /\ rows'[r].status = "active"
      BY <2>0, <2>6 DEF HandedTo, RowsIn, Rows
    <3> QED BY <2>2, <3>1
  <2>7. ASSUME NEW former, rows' = Offer(former) PROVE Held'
    <3>1. h \in DOMAIN rows' /\ rows'[h] = rows[h]
      BY <2>0, <2>7 DEF Offer, IndInv, TypeOK
    <3> QED BY <2>1, <2>2, <3>1
  <2> QED BY <1>1, <2>3, <2>4, <2>5, <2>6, <2>7, RowsStepOfNext DEF RowsStep
<1>2. IndInv /\ [Next]_vars => [Held /\ task'.state # "cancelled" => Held']_vars
  BY <1>1
<1> QED BY <1>2, Invariance, PTL DEF Spec, HeldWorkKeepsAHolder

\* A task that was cancelled stays so, unless a late answer to a report is written over it.
LEMMA CancelledStays ==
  ASSUME IndInv, [Next]_vars
  PROVE  /\ overruled => overruled'
         /\ task.state = "cancelled" => task'.state = "cancelled" \/ overruled'
<1> DEFINE Goal == /\ overruled => overruled'
                   /\ task.state = "cancelled" => task'.state = "cancelled" \/ overruled'
<1> USE DEF IndInv, TypeOK
<1>1. Bumped(task).state = task.state /\ Moved(task, "cancelled").state = "cancelled"
  BY DEF Bumped, Moved, Tasks
<1>2. CloseTask => task'.state = "cancelled"
  BY <1>1 DEF CloseTask
<1>3. ASSUME NEW s \in Sessions,
             \/ EndAccept(s) \/ EndReject(s) \/ EndNegotiate(s) \/ EndRevise(s) \/ EndWithdraw(s)
             \/ EndAnswerRow(s)
      PROVE  Goal
  BY <1>1, <1>2, <1>3 DEF EndAccept, EndReject, EndNegotiate, EndRevise, EndWithdraw, EndAnswerRow
<1>4. ASSUME NEW r \in DOMAIN rows, AcceptRow(r) \/ DeclineRow(r) \/ CancelRow(r)
      PROVE  Goal
  BY <1>1, <1>4 DEF AcceptRow, DeclineRow, CancelRow
<1>5. CASE AddEvidence \/ Detach \/ Reassign \/ Report \/ Propose \/ AgreeCancel
  BY <1>1, <1>5 DEF AddEvidence, Detach, Reassign, Report, Propose, AgreeCancel
<1>6. CASE \/ \E s \in Sessions :
                \/ \E c \in AtRequest : BeginRequestCommand(s, c)
                \/ \E c \in AtTask : BeginAnswerRow(s, c)
                \/ BeginAttach(s) \/ EndAttach(s) \/ Abort(s)
           \/ UNCHANGED vars
  BY <1>6 DEF BeginRequestCommand, BeginAnswerRow, BeginAttach, EndAttach, Abort, vars
<1>7. ASSUME NEW s \in Sessions, EndAnswerReport(s) PROVE Goal
  BY <1>7 DEF EndAnswerReport
<1>8. ASSUME NEW s \in Sessions, NEW c \in AtReport, BeginAnswerReport(s, c) PROVE Goal
  BY <1>8 DEF BeginAnswerReport
<1> QED BY <1>3, <1>4, <1>5, <1>6, <1>7, <1>8 DEF Next

\* How a request moves: an ended one stays ended, and one that ends takes its
\* task with it.
LEMMA RequestStep ==
  ASSUME IndInv, [Next]_vars
  PROVE  /\ request.state \in Cancelling => request'.state \in Cancelling
         /\ request'.state \in Cancelling => request.state \in Cancelling \/ task'.state = "cancelled"
<1> DEFINE Goal ==
      /\ request.state \in Cancelling => request'.state \in Cancelling
      /\ request'.state \in Cancelling => request.state \in Cancelling \/ task'.state = "cancelled"
<1> USE DEF IndInv, TypeOK
<1>0. Judgeable => request.state \notin Cancelling
  BY DEF Judgeable, Cancelling
<1>1. ASSUME NEW state PROVE Moved(request, state).state = state /\ Bumped(request).state = request.state
                             /\ Moved(task, state).state = state
  BY DEF Moved, Bumped, Requests, Tasks
<1>2. CloseTask => task'.state = "cancelled"
  BY <1>1 DEF CloseTask
<1>3. ASSUME NEW s \in Sessions,
             EndAccept(s) \/ EndReject(s) \/ EndNegotiate(s) \/ EndRevise(s) \/ EndWithdraw(s)
      PROVE  Goal
  <2>1. Judgeable
    BY <1>3 DEF EndAccept, EndReject, EndNegotiate, EndRevise, EndWithdraw, AtRequest, Answers,
                RequestReadsHold
  <2>2. \/ CloseTask
        \/ \E state \in {"accepted", "negotiating", "pending"} : request' = Moved(request, state)
    BY <1>3 DEF EndAccept, EndReject, EndNegotiate, EndRevise, EndWithdraw
  <2>3. (\E state \in {"accepted", "negotiating", "pending"} : request' = Moved(request, state))
           => request'.state \notin Cancelling
    BY <1>1 DEF Cancelling
  <2> QED BY <1>0, <1>2, <2>1, <2>2, <2>3
<1>4. ASSUME NEW s \in Sessions, EndAttach(s) PROVE Goal
  BY <1>4 DEF EndAttach, Requests
<1>5. CASE AgreeCancel
  <2>1. task'.state = "cancelled"
    BY <1>1, <1>5 DEF AgreeCancel
  <2>2. request'.state = "cancelled_by_agreement"
    BY <1>1, <1>5 DEF AgreeCancel
  <2> QED BY <2>1, <2>2 DEF Cancelling
<1>6. CASE AddEvidence \/ Detach
  BY <1>1, <1>6 DEF AddEvidence, Detach
<1>7. CASE \/ \E s \in Sessions :
                \/ \E c \in AtRequest : BeginRequestCommand(s, c)
                \/ \E c \in AtTask : BeginAnswerRow(s, c)
                \/ EndAnswerRow(s) \/ BeginAttach(s) \/ Abort(s)
           \/ \E r \in DOMAIN rows : AcceptRow(r) \/ DeclineRow(r) \/ CancelRow(r)
           \/ Reassign \/ Report \/ Propose \/ UNCHANGED vars
  BY <1>7 DEF BeginRequestCommand, BeginAnswerRow, EndAnswerRow, BeginAttach, Abort, AcceptRow,
              DeclineRow, CancelRow, Reassign, Report, Propose, vars
<1>8. ASSUME NEW s \in Sessions, (\E c \in AtReport : BeginAnswerReport(s, c)) \/ EndAnswerReport(s)
      PROVE  Goal
  BY <1>8, AnswersToReports
<1> QED BY <1>3, <1>4, <1>5, <1>6, <1>7, <1>8 DEF Next

\* A request that was rejected, withdrawn or cancelled by agreement has a cancelled task,
\* unless a late answer to a report was written over the cancellation.
THEOREM ClosedTogether == Spec => []ClosedRequestHasClosedTask
<1>1. Init => ClosedRequestHasClosedTask
  BY DEF Init, ClosedRequestHasClosedTask, Cancelling
<1>2. IndInv /\ [Next]_vars /\ ClosedRequestHasClosedTask => ClosedRequestHasClosedTask'
  BY CancelledStays, RequestStep DEF ClosedRequestHasClosedTask
<1> QED BY <1>1, <1>2, Invariance, PTL DEF Spec

\* A request that ended never asks again.
THEOREM EndedStaysEnded == Spec => EndedRequestStaysEnded
<1>1. IndInv /\ [Next]_vars => [request.state \in Cancelling => request'.state \in Cancelling]_vars
  BY RequestStep
<1> QED BY <1>1, Invariance, PTL DEF Spec, EndedRequestStaysEnded

-----------------------------------------------------------------------------
(***************************************************************************)
(* The replies.  Their order rests on one fact: a reply that was accepted  *)
(* and is not settled (sent, failed or given up) has an open job, and that *)
(* job comes before every job of a later reply; so a claim, which passes   *)
(* no open job of its room, passes no such reply.  Their copies are        *)
(* counted against the faults: the only copy no fault paid for is the one  *)
(* whose delivery is on record, in the row or with the worker.             *)
(***************************************************************************)


ReplyOf(w) == jobs[worker[w].job].reply

\* A reply that was sent, was refused or given up, so that no later one waits for it.
Settled(r) == CopiesOf(r) > 0 \/ r \in failed \cup unclosed

\* What a worker is about is a job it claimed; each step knows its outcomes.
KnownWork(w) ==
    /\ \A c \in worker[w].batch : c[1] \in DOMAIN jobs /\ jobs[c[1]].attempt > 0
    /\ worker[w].pc # "idle" => \E c \in worker[w].batch : c[1] = worker[w].job
    /\ worker[w].pc = "answered" => worker[w].outcome \in {"sent", "failed"}
    /\ worker[w].pc = "abandoning" => worker[w].outcome = "fail"
    /\ worker[w].pc = "closing" => worker[w].outcome \in {"complete", "release", "fail"}

WorkIsKnown == \A w \in Workers : KnownWork(w)

\* Every new text of a reply is a request to send it again that has ended.
SendersOf(r) == {s \in Senders : resend[s] = r}

TextsAreCounted ==
    \A r \in Replies :
        IsFiniteSet(SendersOf(r)) /\ reply[r].text + Cardinality(SendersOf(r)) <= resends

\* What a row says has happened; replies are accepted one after the other, and only
\* what was accepted has jobs and a history.
Accepted(r) == reply[r].status # "none"

RowsTellWhatHappened ==
    /\ \A j \in DOMAIN jobs : Accepted(jobs[j].reply)
    /\ \A r \in Replies : Settled(r) => Accepted(r)
    /\ \A r \in Replies : reply[r].status = "sent" => CopiesOf(r) > 0
    /\ \A r \in Replies : reply[r].status = "failed" => r \in failed
    /\ \A q, r \in Replies : q < r /\ Accepted(r) => Accepted(q)
    /\ \A s \in Senders : resend[s] # 0 => resend[s] \in failed

\* A job is closed as completed or failed only when its reply is settled.
OutcomesAreTrue ==
    \A w \in Workers :
        /\ worker[w].pc = "answered" /\ worker[w].outcome = "sent" => CopiesOf(ReplyOf(w)) > 0
        /\ worker[w].pc = "closing" /\ worker[w].outcome \in {"complete", "fail"} => Settled(ReplyOf(w))

\* A reply that is not settled has an open job before every job of a later reply.
UnsettledAreQueued ==
    \A q \in Replies :
        Accepted(q) /\ ~Settled(q) =>
            \E i \in DOMAIN jobs :
                /\ jobs[i].reply = q /\ Open(i)
                /\ \A j \in DOMAIN jobs : jobs[j].reply > q => i < j

\* What was claimed or sent came after everything earlier of its room.
EarlierAreSettled(r) ==
    \A q \in Replies : q < r /\ RoomOf[q] = RoomOf[r] => Settled(q)

StartedInOrder == \A j \in DOMAIN jobs : jobs[j].attempt > 0 => EarlierAreSettled(jobs[j].reply)
SentInOrder    == \A r \in Replies : CopiesOf(r) > 0 => EarlierAreSettled(r)

OrderInv == RowsTellWhatHappened /\ OutcomesAreTrue /\ UnsettledAreQueued /\ StartedInOrder /\ SentInOrder

\* While no leader's connection broke: only the leader is about anything, it sends what
\* is to be sent, and only what failed is sent again.
OneLeader ==
    /\ leading \subseteq {lock}
    /\ \A w \in Workers : worker[w].batch # {} => w \in leading

SendsWhatIsToBeSent ==
    \A w \in Workers :
        /\ worker[w].pc \in {"sending", "answered"} => reply[ReplyOf(w)].status = "sending"
        /\ worker[w].pc = "sending" => worker[w].text = reply[ReplyOf(w)].text
        /\ worker[w].pc = "answered" /\ worker[w].outcome = "sent" =>
               \E i \in DOMAIN copies[ReplyOf(w)] : copies[ReplyOf(w)][i] = reply[ReplyOf(w)].text

ResendsWhatFailed == \A s \in Senders : resend[s] # 0 => reply[resend[s]].status = "failed"

\* The one copy of r that no fault paid for is the one that was recorded or will be.
Delivered(r) ==
    \/ reply[r].status = "sent"
    \/ \E w \in Workers : worker[w].pc = "answered" /\ worker[w].outcome = "sent" /\ ReplyOf(w) = r

CopiesArePaidFor ==
    \A r \in Replies : CopiesOf(r) <= IF Delivered(r) THEN faults + 1 ELSE faults

SentAsShown ==
    \A r \in Replies : reply[r].status = "sent" =>
        \E i \in DOMAIN copies[r] : copies[r][i] = reply[r].text

Undisturbed == OneLeader /\ SendsWhatIsToBeSent /\ ResendsWhatFailed /\ CopiesArePaidFor /\ SentAsShown
UndisturbedSoFar == broken = 0 => Undisturbed

WorkInv == RepliesTypeOK /\ WorkIsKnown /\ TextsAreCounted

OneSender == \A s, t \in Senders : s = t

-----------------------------------------------------------------------------
(* The job table.                                                          *)

\* Replies are numbered from 1 in the order in which they are accepted.
LEMMA ReplyNumbers == RepliesAssumption => Replies = 1 .. Len(RoomOf) /\ Len(RoomOf) \in Nat
  BY DEF RepliesAssumption, Replies

\* What a step may do to the jobs: they keep their reply, and what was claimed stays so.
Grows ==
    /\ DOMAIN jobs \subseteq DOMAIN jobs'
    /\ \A j \in DOMAIN jobs :
          /\ jobs'[j].reply = jobs[j].reply
          /\ jobs[j].attempt > 0 => jobs'[j].attempt > 0

\* A new job comes last.
Appended(r) ==
    /\ DOMAIN jobs' = 1 .. Len(jobs) + 1 /\ Len(jobs') = Len(jobs) + 1
    /\ \A j \in DOMAIN jobs : jobs'[j] = jobs[j]
    /\ jobs'[Len(jobs) + 1] = [reply |-> r, state |-> "queued", attempt |-> 0, holder |-> Nobody]

\* Rows of the job table have their numbers and their type.
LEMMA JobsType ==
  ASSUME RepliesTypeOK
  PROVE  /\ DOMAIN jobs = 1 .. Len(jobs) /\ Len(jobs) \in Nat /\ Len(jobs) <= MaxJobs
         /\ \A j \in DOMAIN jobs : jobs[j] \in JobRows
  BY DEF RepliesTypeOK

\* Enqueueing gives the open job of the reply or a new last one.
LEMMA EnqueuedJobs ==
  ASSUME RepliesAssumption, RepliesTypeOK, NEW r \in Replies, jobs' = Enqueued(r),
         RoomLeft(r) \/ Len(jobs) < MaxJobs
  PROVE  /\ Grows /\ jobs' \in Seq(JobRows) /\ Len(jobs') <= MaxJobs
         /\ \/ jobs' = jobs /\ \E j \in DOMAIN jobs : jobs[j].reply = r /\ Open(j)
            \/ Appended(r) /\ ~ \E j \in DOMAIN jobs : jobs[j].reply = r /\ Open(j)
<1> DEFINE row == [reply |-> r, state |-> "queued", attempt |-> 0, holder |-> Nobody]
<1>1. row \in JobRows
  BY DEF JobRows, RepliesAssumption
<1>2. jobs \in Seq(JobRows) /\ MaxJobs \in Nat /\ Len(jobs) <= MaxJobs
  BY DEF RepliesTypeOK, RepliesAssumption
<1>3. \A j \in DOMAIN jobs : jobs[j] \in JobRows
  BY <1>2
<1>4. \A j \in DOMAIN jobs : jobs[j].attempt \in Nat
  BY <1>3 DEF JobRows
<1>5. CASE \E j \in DOMAIN jobs : jobs[j].reply = r /\ Open(j)
  <2>1. jobs' = jobs
    BY <1>5 DEF Enqueued
  <2> QED BY <2>1, <1>2, <1>4, <1>5 DEF Grows
<1>6. CASE ~ \E j \in DOMAIN jobs : jobs[j].reply = r /\ Open(j)
  <2>1. jobs' = Append(jobs, row)
    BY <1>6 DEF Enqueued
  <2> HIDE DEF row
  <2>2. /\ DOMAIN jobs' = 1 .. Len(jobs) + 1 /\ Len(jobs') = Len(jobs) + 1
        /\ \A j \in DOMAIN jobs : jobs'[j] = jobs[j]
        /\ jobs'[Len(jobs) + 1] = row
        /\ jobs' \in Seq(JobRows)
    BY <1>1, <1>2, <2>1
  <2>3. Len(jobs) < MaxJobs
    <3>1. jobs' # jobs
      BY <2>2, <1>2
    <3> QED BY <3>1 DEF RoomLeft
  <2>4. Grows
    BY <2>2, <1>2, <1>4 DEF Grows
  <2> QED BY <2>2, <2>3, <2>4, <1>2, <1>6 DEF Appended, row
<1> QED BY <1>5, <1>6

\* Claiming, closing and leases running out change one column or another of the rows.
LEMMA ClaimedJobs ==
  ASSUME RepliesAssumption, RepliesTypeOK, NEW w \in Workers, NEW batch, batch \subseteq DOMAIN jobs,
         jobs' = Claimed(w, batch)
  PROVE  /\ Grows /\ jobs' \in Seq(JobRows) /\ Len(jobs') = Len(jobs) /\ DOMAIN jobs' = DOMAIN jobs
         /\ \A j \in DOMAIN jobs :
               /\ j \in batch => jobs'[j].attempt > 0 /\ jobs'[j].state = "running"
               /\ j \notin batch => jobs'[j] = jobs[j]
<1>1. /\ DOMAIN jobs = 1 .. Len(jobs) /\ Len(jobs) \in Nat
      /\ \A j \in DOMAIN jobs : jobs[j] \in JobRows
  BY JobsType
<1>2. \A j \in DOMAIN jobs : /\ NextAttempt(j) \in 0 .. MaxAttempts /\ NextAttempt(j) > 0
                             /\ NextAttempt(j) >= jobs[j].attempt
  BY <1>1 DEF NextAttempt, JobRows, RepliesAssumption
<1>3. \A j \in DOMAIN jobs :
        /\ jobs'[j] = IF j \in batch
                      THEN [jobs[j] EXCEPT !.state = "running", !.attempt = NextAttempt(j), !.holder = w]
                      ELSE jobs[j]
  BY DEF Claimed
<1>4. \A j \in DOMAIN jobs : /\ jobs'[j] \in JobRows /\ jobs'[j].reply = jobs[j].reply
                             /\ jobs'[j].attempt >= jobs[j].attempt
  <2> SUFFICES ASSUME NEW j \in DOMAIN jobs
               PROVE  /\ jobs'[j] \in JobRows /\ jobs'[j].reply = jobs[j].reply
                      /\ jobs'[j].attempt >= jobs[j].attempt
    OBVIOUS
  <2>1. jobs[j] \in JobRows
    BY <1>1
  <2>2. CASE j \notin batch
    <3>1. jobs'[j] = jobs[j]
      BY <2>2, <1>3
    <3>2. jobs[j].attempt \in Nat
      BY <2>1 DEF JobRows
    <3> QED BY <2>1, <3>1, <3>2
  <2>3. CASE j \in batch
    <3>1. jobs'[j] = [jobs[j] EXCEPT !.state = "running", !.attempt = NextAttempt(j), !.holder = w]
      BY <2>3, <1>3
    <3>2. NextAttempt(j) \in 0 .. MaxAttempts /\ NextAttempt(j) >= jobs[j].attempt
      BY <1>2
    <3> QED BY <2>1, <3>1, <3>2 DEF JobRows
  <2> QED BY <2>2, <2>3
<1>5. DOMAIN jobs' = DOMAIN jobs
  BY DEF Claimed
<1>6. jobs' \in Seq(JobRows) /\ Len(jobs') = Len(jobs)
  <2> DEFINE row(j) == IF j \in batch
                       THEN [jobs[j] EXCEPT !.state = "running", !.attempt = NextAttempt(j),
                                            !.holder = w]
                       ELSE jobs[j]
  <2>1. \A j \in 1 .. Len(jobs) : row(j) \in JobRows
    BY <1>1, <1>3, <1>4
  <2>2. jobs' = [j \in 1 .. Len(jobs) |-> row(j)]
    BY <1>1 DEF Claimed
  <2> HIDE DEF row
  <2>3. jobs' \in [1 .. Len(jobs) -> JobRows]
    BY <2>1, <2>2
  <2> QED BY <2>3, <1>1
<1>7. \A j \in DOMAIN jobs : /\ j \in batch => jobs'[j].attempt > 0 /\ jobs'[j].state = "running"
                             /\ j \notin batch => jobs'[j] = jobs[j]
  BY <1>1, <1>2, <1>3 DEF JobRows
<1>8. Grows
  <2>1. \A j \in DOMAIN jobs : jobs[j].attempt > 0 => jobs'[j].attempt > 0
    BY <1>7
  <2> QED BY <2>1, <1>4, <1>5 DEF Grows
<1> QED BY <1>5, <1>6, <1>7, <1>8

\* Giving a job a state and freeing it of its holder.
Freed(j, st) == [jobs EXCEPT ![j].state = st, ![j].holder = Nobody]

\* Freeing a job of its holder changes its state and nothing else that counts.
LEMMA FreedJobs ==
  ASSUME RepliesAssumption, RepliesTypeOK, NEW j \in DOMAIN jobs,
         NEW st \in {"queued", "running", "completed", "failed"}, jobs' = Freed(j, st)
  PROVE  /\ Grows /\ jobs' \in Seq(JobRows) /\ Len(jobs') = Len(jobs) /\ DOMAIN jobs' = DOMAIN jobs
         /\ \A i \in DOMAIN jobs : /\ jobs'[i].reply = jobs[i].reply /\ jobs'[i].attempt = jobs[i].attempt
                                   /\ jobs'[i].state = IF i = j THEN st ELSE jobs[i].state
<1>1. /\ DOMAIN jobs = 1 .. Len(jobs) /\ Len(jobs) \in Nat
      /\ \A i \in DOMAIN jobs : jobs[i] \in JobRows
  BY JobsType
<1>2. \A i \in DOMAIN jobs :
        /\ jobs'[i] \in JobRows /\ jobs'[i].reply = jobs[i].reply /\ jobs'[i].attempt = jobs[i].attempt
        /\ jobs'[i].state = IF i = j THEN st ELSE jobs[i].state
        /\ jobs[i].attempt \in Nat
  <2> SUFFICES ASSUME NEW i \in DOMAIN jobs
               PROVE  /\ jobs'[i] \in JobRows /\ jobs'[i].reply = jobs[i].reply
                      /\ jobs'[i].attempt = jobs[i].attempt
                      /\ jobs'[i].state = IF i = j THEN st ELSE jobs[i].state
                      /\ jobs[i].attempt \in Nat
    OBVIOUS
  <2>1. jobs[i] \in JobRows
    BY <1>1
  <2>2. jobs'[i] = IF i = j THEN [jobs[i] EXCEPT !.state = st, !.holder = Nobody] ELSE jobs[i]
    BY DEF Freed
  <2>3. jobs[i].attempt \in Nat
    BY <2>1 DEF JobRows
  <2>4. CASE i = j
    <3>1. jobs'[i] = [jobs[i] EXCEPT !.state = st, !.holder = Nobody]
      BY <2>2, <2>4
    <3> QED BY <2>1, <2>3, <2>4, <3>1 DEF JobRows
  <2> QED BY <2>1, <2>2, <2>3, <2>4
<1>3. jobs' \in Seq(JobRows) /\ Len(jobs') = Len(jobs) /\ DOMAIN jobs' = DOMAIN jobs
  <2>1. DOMAIN jobs' = 1 .. Len(jobs) /\ jobs' = [i \in 1 .. Len(jobs) |-> jobs'[i]]
    BY <1>1 DEF Freed
  <2> QED BY <2>1, <1>1, <1>2
<1>4. Grows
  BY <1>2, <1>3 DEF Grows
<1> QED BY <1>2, <1>3, <1>4

-----------------------------------------------------------------------------
(* Types.                                                                  *)

\* A worker that did nothing knows its work still.
LEMMA OthersAreKnown ==
  ASSUME Grows, NEW w \in Workers, KnownWork(w), worker'[w] = worker[w]
  PROVE  KnownWork(w)'
<1>1. \A c \in worker'[w].batch : c[1] \in DOMAIN jobs' /\ jobs'[c[1]].attempt > 0
  BY DEF Grows, KnownWork
<1>2. /\ worker'[w].pc # "idle" => \E c \in worker'[w].batch : c[1] = worker'[w].job
      /\ worker'[w].pc = "answered" => worker'[w].outcome \in {"sent", "failed"}
      /\ worker'[w].pc = "abandoning" => worker'[w].outcome = "fail"
      /\ worker'[w].pc = "closing" => worker'[w].outcome \in {"complete", "release", "fail"}
  BY DEF KnownWork
<1> QED BY <1>1, <1>2 DEF KnownWork

\* A step of one worker has to be looked at for that worker only.
LEMMA KnownAfterOne ==
  ASSUME WorkIsKnown, Grows, NEW w \in Workers, KnownWork(w)',
         \A v \in Workers : v # w => worker'[v] = worker[v]
  PROVE  WorkIsKnown'
  BY OthersAreKnown DEF WorkIsKnown

\* The job a busy worker is about has a reply.
LEMMA AboutAReply ==
  ASSUME RepliesTypeOK, WorkIsKnown, NEW w \in Workers, worker[w].pc # "idle"
  PROVE  /\ worker[w].job \in DOMAIN jobs /\ ReplyOf(w) \in Replies
         /\ jobs[worker[w].job].attempt > 0
<1>1. worker[w].job \in DOMAIN jobs /\ jobs[worker[w].job].attempt > 0
  BY DEF WorkIsKnown, KnownWork
<1>2. jobs[worker[w].job] \in JobRows
  BY <1>1, JobsType
<1> QED BY <1>1, <1>2 DEF JobRows, ReplyOf

\* A step that leaves the jobs alone lets them grow.
LEMMA SameJobs == ASSUME jobs' = jobs PROVE Grows
  BY DEF Grows

\* Accepting a reply keeps the types.
LEMMA AcceptTypes ==
  ASSUME RepliesAssumption, WorkInv, NEW r \in Replies, Accept(r)
  PROVE  WorkInv' /\ Grows
<1>1. Grows /\ jobs' \in Seq(JobRows) /\ Len(jobs') <= MaxJobs
  BY EnqueuedJobs DEF Accept, WorkInv
<1>2. RepliesTypeOK'
  BY <1>1 DEF Accept, WorkInv, RepliesTypeOK, Statuses
<1>3. WorkIsKnown'
  BY <1>1, OthersAreKnown DEF WorkInv, WorkIsKnown, Accept
<1>4. TextsAreCounted'
  BY DEF TextsAreCounted, SendersOf, WorkInv, Accept, RepliesTypeOK
<1> QED BY <1>1, <1>2, <1>3, <1>4 DEF WorkInv

\* A request to send again is one more of those that are counted.
LEMMA BeginResendTypes ==
  ASSUME RepliesAssumption, WorkInv, NEW s \in Senders, NEW r \in Replies,
         BeginResend(s, r)
  PROVE  WorkInv' /\ Grows
<1>1. Grows
  BY SameJobs DEF BeginResend
<1>2. RepliesTypeOK'
  BY DEF BeginResend, WorkInv, RepliesTypeOK, RepliesAssumption
<1>3. WorkIsKnown'
  BY <1>1, OthersAreKnown DEF WorkInv, WorkIsKnown, BeginResend
<1>4. TextsAreCounted'
  <2> SUFFICES ASSUME NEW q \in Replies
               PROVE  /\ IsFiniteSet(SendersOf(q)')
                      /\ reply[q].text + Cardinality(SendersOf(q)') <= resends + 1
    BY DEF TextsAreCounted, BeginResend
  <2>1. /\ IsFiniteSet(SendersOf(q)) /\ Cardinality(SendersOf(q)) \in Nat
        /\ reply[q].text + Cardinality(SendersOf(q)) <= resends
    BY FS_CardinalityType DEF WorkInv, TextsAreCounted
  <2>2. reply[q].text \in Nat /\ resends \in Nat
    BY DEF WorkInv, RepliesTypeOK
  <2>3. CASE q # r
    <3>1. SendersOf(q)' = SendersOf(q)
      BY <2>3, ReplyNumbers DEF BeginResend, WorkInv, RepliesTypeOK, SendersOf
    <3> QED BY <2>1, <2>2, <3>1
  <2>4. CASE q = r
    <3>1. SendersOf(q)' = SendersOf(q) \cup {s} /\ s \notin SendersOf(q)
      BY <2>4, ReplyNumbers DEF BeginResend, WorkInv, RepliesTypeOK, SendersOf
    <3>2. IsFiniteSet(SendersOf(q)') /\ Cardinality(SendersOf(q)') = Cardinality(SendersOf(q)) + 1
      BY <2>1, <3>1, FS_AddElement
    <3> QED BY <2>1, <2>2, <3>2
  <2> QED BY <2>3, <2>4
<1> QED BY <1>1, <1>2, <1>3, <1>4 DEF WorkInv

\* A request that ends turns into a new text of its reply.
LEMMA EndResendTypes ==
  ASSUME RepliesAssumption, WorkInv, NEW s \in Senders, NEW r, r = resend[s], EndResend(s)
  PROVE  WorkInv' /\ Grows /\ r \in Replies
<1>0. r \in Replies /\ 0 \notin Replies /\ RoomLeft(r)
  BY ReplyNumbers DEF EndResend, WorkInv, RepliesTypeOK
<1>1. Grows /\ jobs' \in Seq(JobRows) /\ Len(jobs') <= MaxJobs
  BY <1>0, EnqueuedJobs DEF EndResend, WorkInv
<1>2. \A q \in Replies :
        /\ reply[q].text \in Nat /\ resends \in Nat
        /\ IsFiniteSet(SendersOf(q)) /\ Cardinality(SendersOf(q)) \in Nat
        /\ reply[q].text + Cardinality(SendersOf(q)) <= resends
  BY FS_CardinalityType DEF WorkInv, TextsAreCounted, RepliesTypeOK
<1>3. /\ s \in SendersOf(r) /\ IsFiniteSet(SendersOf(r)')
      /\ Cardinality(SendersOf(r)') = Cardinality(SendersOf(r)) - 1
  <2>1. SendersOf(r)' = SendersOf(r) \ {s}
    <3>1. resend' = [resend EXCEPT ![s] = 0] /\ resend \in [Senders -> Replies \cup {0}]
      BY DEF EndResend, WorkInv, RepliesTypeOK
    <3> QED BY <3>1, <1>0 DEF SendersOf
  <2>2. s \in SendersOf(r)
    BY DEF SendersOf
  <2>3. IsFiniteSet(SendersOf(r))
    BY <1>0, <1>2
  <2>4. IsFiniteSet(SendersOf(r) \ {s}) /\ Cardinality(SendersOf(r) \ {s}) = Cardinality(SendersOf(r)) - 1
    BY <2>2, <2>3, FS_RemoveElement
  <2> QED BY <2>1, <2>2, <2>4
<1>4. reply[r].text + 1 <= resends
  <2>1. Cardinality(SendersOf(r)) # 0
    BY <1>0, <1>2, <1>3, FS_EmptySet
  <2> QED BY <2>1, <1>0, <1>2
<1>5. RepliesTypeOK'
  <2>1. reply' \in [Replies -> [status : Statuses, text : 0 .. MaxResends]]
    BY <1>0, <1>2, <1>4 DEF EndResend, WorkInv, RepliesTypeOK, Statuses
  <2> QED BY <1>1, <2>1 DEF EndResend, WorkInv, RepliesTypeOK
<1>6. WorkIsKnown'
  BY <1>1, OthersAreKnown DEF WorkInv, WorkIsKnown, EndResend
<1>7. TextsAreCounted'
  <2> SUFFICES ASSUME NEW q \in Replies
               PROVE  /\ IsFiniteSet(SendersOf(q)')
                      /\ reply'[q].text + Cardinality(SendersOf(q)') <= resends
    BY DEF TextsAreCounted, EndResend
  <2>1. CASE q = r
    <3>1. reply'[q].text = reply[q].text + 1
      BY <2>1, <1>0 DEF EndResend, WorkInv, RepliesTypeOK
    <3> QED BY <3>1, <2>1, <1>0, <1>2, <1>3
  <2>2. CASE q # r
    <3>1. reply'[q] = reply[q]
      BY <2>2, <1>0 DEF EndResend, WorkInv, RepliesTypeOK
    <3>2. SendersOf(q)' = SendersOf(q)
      <4>1. resend' = [resend EXCEPT ![s] = 0] /\ resend \in [Senders -> Replies \cup {0}]
        BY DEF EndResend, WorkInv, RepliesTypeOK
      <4> QED BY <4>1, <2>2, <1>0 DEF SendersOf
    <3> QED BY <3>1, <3>2, <1>2
  <2> QED BY <2>1, <2>2
<1> QED BY <1>0, <1>1, <1>5, <1>6, <1>7 DEF WorkInv

\* The steps that only one worker's own record tells apart leave the senders alone.
LEMMA TextsStay ==
  ASSUME RepliesAssumption, WorkInv, resend' = resend, resends' = resends,
         \A r \in Replies : reply'[r].text = reply[r].text
  PROVE  TextsAreCounted'
  BY DEF TextsAreCounted, SendersOf, WorkInv

\* A worker that claims knows its batch.
LEMMA ClaimTypes ==
  ASSUME RepliesAssumption, WorkInv, NEW w \in Workers, Claim(w)
  PROVE  WorkInv' /\ Grows
<1> DEFINE batch == {<<j, NextAttempt(j)>> : j \in Claimable}
<1>0. /\ DOMAIN jobs = 1 .. Len(jobs) /\ Len(jobs) \in Nat /\ Len(jobs) <= MaxJobs
      /\ Claimable \subseteq DOMAIN jobs
  BY JobsType DEF WorkInv, Claimable
<1>1. /\ Grows /\ jobs' \in Seq(JobRows) /\ Len(jobs') = Len(jobs) /\ DOMAIN jobs' = DOMAIN jobs
      /\ \A j \in Claimable : jobs'[j].attempt > 0
  BY <1>0, ClaimedJobs DEF Claim, WorkInv
<1>2. \A j \in DOMAIN jobs : NextAttempt(j) \in 1 .. MaxAttempts
  BY JobsType DEF WorkInv, NextAttempt, JobRows, RepliesAssumption
<1>3. batch \in SUBSET ((1 .. MaxJobs) \X (1 .. MaxAttempts))
  BY <1>0, <1>2 DEF RepliesAssumption
<1>4. /\ worker' = [worker EXCEPT ![w].batch = batch] /\ worker[w].pc = "idle"
      /\ worker \in [Workers -> WorkerStates]
  BY DEF Claim, Idle, WorkInv, RepliesTypeOK
<1>5. worker' \in [Workers -> WorkerStates]
  BY <1>3, <1>4 DEF WorkerStates
<1>6. RepliesTypeOK'
  BY <1>0, <1>1, <1>5 DEF Claim, WorkInv, RepliesTypeOK
<1>7. KnownWork(w)'
  <2>1. worker'[w].pc = "idle" /\ worker'[w].batch = batch
    BY <1>4 DEF WorkerStates
  <2>2. \A c \in batch : c[1] \in Claimable
    OBVIOUS
  <2> HIDE DEF batch
  <2> QED BY <2>1, <2>2, <1>0, <1>1 DEF KnownWork
<1>8. WorkIsKnown'
  BY <1>1, <1>4, <1>7, KnownAfterOne DEF WorkInv
<1>9. TextsAreCounted'
  BY TextsStay DEF Claim
<1> QED BY <1>1, <1>6, <1>8, <1>9 DEF WorkInv

\* A job is taken from the batch.
LEMMA BeginTypes ==
  ASSUME RepliesAssumption, WorkInv, NEW w \in Workers, NEW claim \in worker[w].batch,
         Begin(w, claim)
  PROVE  WorkInv' /\ Grows
<1>1. Grows
  BY SameJobs DEF Begin
<1>2. claim[1] \in DOMAIN jobs /\ claim[1] \in 0 .. MaxJobs /\ jobs[claim[1]].reply \in Replies
  <2>1. claim[1] \in DOMAIN jobs
    BY DEF WorkInv, WorkIsKnown, KnownWork
  <2> QED BY <2>1, JobsType DEF WorkInv, JobRows, RepliesAssumption
<1>3. reply[jobs[claim[1]].reply].text \in 0 .. MaxResends
  BY <1>2 DEF WorkInv, RepliesTypeOK
<1>4. worker \in [Workers -> WorkerStates]
  BY DEF WorkInv, RepliesTypeOK
<1>5. /\ worker' \in [Workers -> WorkerStates]
      /\ worker'[w].batch = worker[w].batch /\ worker'[w].job = claim[1]
      /\ worker'[w].pc \in {"closing", "sending", "answered"}
      /\ worker'[w].pc = "answered" => worker'[w].outcome = "failed"
      /\ worker'[w].pc = "closing" => worker'[w].outcome = "complete"
      /\ \A v \in Workers : v # w => worker'[v] = worker[v]
  <2> DEFINE r == jobs[claim[1]].reply
  <2>1. CASE worker' = [worker EXCEPT ![w].pc = "closing", ![w].job = claim[1], ![w].outcome = "complete"]
    BY <2>1, <1>2, <1>4 DEF WorkerStates
  <2>2. CASE worker' = [worker EXCEPT ![w].pc = "sending", ![w].job = claim[1], ![w].text = reply[r].text]
    <3>1. PICK t \in 0 .. MaxResends :
              worker' = [worker EXCEPT ![w].pc = "sending", ![w].job = claim[1], ![w].text = t]
      BY <2>2, <1>3
    <3> DEFINE x == [worker[w] EXCEPT !.pc = "sending", !.job = claim[1], !.text = t]
    <3>2. worker[w] \in WorkerStates /\ claim[1] \in 0 .. MaxJobs
      BY <1>2, <1>4
    <3>3. x \in WorkerStates /\ x.batch = worker[w].batch /\ x.job = claim[1] /\ x.pc = "sending"
      BY <3>2 DEF WorkerStates
    <3>4. worker' = [worker EXCEPT ![w] = x]
      BY <3>1
    <3> HIDE DEF x
    <3> QED BY <3>3, <3>4, <1>4
  <2>3. CASE worker' = [worker EXCEPT ![w].pc = "answered", ![w].job = claim[1], ![w].outcome = "failed"]
    BY <2>3, <1>2, <1>4 DEF WorkerStates
  <2> QED BY <2>1, <2>2, <2>3 DEF Begin
<1>6. RepliesTypeOK'
  BY <1>5 DEF Begin, WorkInv, RepliesTypeOK
<1>7. KnownWork(w)'
  <2>1. KnownWork(w) /\ jobs' = jobs
    BY DEF WorkInv, WorkIsKnown, Begin
  <2> QED BY <1>5, <2>1 DEF KnownWork
<1>8. WorkIsKnown'
  BY <1>1, <1>5, <1>7, KnownAfterOne DEF WorkInv
<1>9. TextsAreCounted'
  BY TextsStay DEF Begin
<1> QED BY <1>1, <1>6, <1>8, <1>9 DEF WorkInv

\* What the steps between the upstream call and the end of a job may do to a worker.
LEMMA GoingOnTypes ==
  ASSUME RepliesAssumption, WorkInv, NEW w \in Workers, NEW pc, NEW outcome,
         worker[w].pc # "idle", jobs' = jobs,
         worker' = [worker EXCEPT ![w].pc = pc, ![w].outcome = outcome],
         \/ pc = "answered" /\ outcome \in {"sent", "failed"}
         \/ pc = "abandoning" /\ outcome = "fail"
         \/ pc = "closing" /\ outcome \in {"complete", "release", "fail"}
  PROVE  worker' \in [Workers -> WorkerStates] /\ WorkIsKnown' /\ Grows
<1>1. Grows
  BY SameJobs
<1>2. worker \in [Workers -> WorkerStates]
  BY DEF WorkInv, RepliesTypeOK
<1>3. /\ worker' \in [Workers -> WorkerStates]
      /\ worker'[w].batch = worker[w].batch /\ worker'[w].job = worker[w].job
      /\ worker'[w].pc = pc /\ worker'[w].outcome = outcome
      /\ \A v \in Workers : v # w => worker'[v] = worker[v]
  BY <1>2 DEF WorkerStates
<1>4. KnownWork(w)'
  <2>1. KnownWork(w)
    BY DEF WorkInv, WorkIsKnown
  <2> QED BY <1>3, <2>1 DEF KnownWork
<1> QED BY <1>1, <1>3, <1>4, KnownAfterOne DEF WorkInv

\* An answer of the upstream service keeps the types.
LEMMA SendTypes ==
  ASSUME RepliesAssumption, WorkInv, NEW w \in Workers, NEW taken \in BOOLEAN, Send(w, taken)
  PROVE  WorkInv' /\ Grows
<1>1. worker' \in [Workers -> WorkerStates] /\ WorkIsKnown' /\ Grows
  <2>1. PICK outcome \in {"sent", "failed"} :
            worker' = [worker EXCEPT ![w].pc = "answered", ![w].outcome = outcome]
    BY DEF Send
  <2> QED BY <2>1, GoingOnTypes DEF Send
<1>2. copies' \in [Replies -> Seq(0 .. MaxResends)]
  <2>1. worker[w].text \in 0 .. MaxResends /\ copies \in [Replies -> Seq(0 .. MaxResends)]
    BY DEF WorkInv, RepliesTypeOK, WorkerStates
  <2>2. \A r \in Replies : Append(copies[r], worker[w].text) \in Seq(0 .. MaxResends)
    BY <2>1
  <2> QED BY <2>1, <2>2 DEF Send
<1>3. RepliesTypeOK'
  BY <1>1, <1>2 DEF Send, WorkInv, RepliesTypeOK
<1>4. TextsAreCounted'
  BY TextsStay DEF Send
<1> QED BY <1>1, <1>3, <1>4 DEF WorkInv

\* A lost answer keeps the types.
LEMMA LostTypes ==
  ASSUME RepliesAssumption, WorkInv, NEW w \in Workers, AnswerIsLost(w)
  PROVE  WorkInv' /\ Grows
<1>1. worker' \in [Workers -> WorkerStates] /\ WorkIsKnown' /\ Grows
  BY GoingOnTypes DEF AnswerIsLost
<1>2. copies' \in [Replies -> Seq(0 .. MaxResends)]
  <2>1. worker[w].text \in 0 .. MaxResends /\ copies \in [Replies -> Seq(0 .. MaxResends)]
    BY DEF WorkInv, RepliesTypeOK, WorkerStates
  <2>2. \A r \in Replies : Append(copies[r], worker[w].text) \in Seq(0 .. MaxResends)
    BY <2>1
  <2> QED BY <2>1, <2>2 DEF AnswerIsLost
<1>3. faults' \in 0 .. MaxFaults /\ broken' \in 0 .. faults'
  BY DEF AnswerIsLost, WorkInv, RepliesTypeOK, RepliesAssumption
<1>4. RepliesTypeOK'
  BY <1>1, <1>2, <1>3 DEF AnswerIsLost, WorkInv, RepliesTypeOK
<1>5. TextsAreCounted'
  BY TextsStay DEF AnswerIsLost
<1> QED BY <1>1, <1>4, <1>5 DEF WorkInv

\* Recording an outcome keeps the types.
LEMMA RecordTypes ==
  ASSUME RepliesAssumption, WorkInv, NEW w \in Workers, Record(w)
  PROVE  WorkInv' /\ Grows
<1>1. worker' \in [Workers -> WorkerStates] /\ WorkIsKnown' /\ Grows
  BY GoingOnTypes DEF Record
<1>2. ReplyOf(w) \in Replies
  BY AboutAReply DEF WorkInv, Record
<1>3. worker[w].outcome \in {"sent", "failed"}
  BY DEF WorkInv, WorkIsKnown, KnownWork, Record
<1>4. /\ reply' \in [Replies -> [status : Statuses, text : 0 .. MaxResends]]
      /\ \A r \in Replies : reply'[r].text = reply[r].text
  BY <1>2, <1>3 DEF Record, WorkInv, RepliesTypeOK, Statuses, ReplyOf
<1>5. RepliesTypeOK'
  BY <1>1, <1>2, <1>4 DEF Record, WorkInv, RepliesTypeOK, ReplyOf
<1>6. TextsAreCounted'
  BY <1>4, TextsStay DEF Record
<1> QED BY <1>1, <1>5, <1>6 DEF WorkInv

\* A commit that fails leaves a job to release or to give up.
LEMMA RecordFailsTypes ==
  ASSUME RepliesAssumption, WorkInv, NEW w \in Workers, RecordFails(w)
  PROVE  WorkInv' /\ Grows
<1>1. worker' \in [Workers -> WorkerStates] /\ WorkIsKnown' /\ Grows
  <2>1. CASE AttemptOf(w) >= MaxAttempts
    <3>1. worker' = [worker EXCEPT ![w].pc = "abandoning", ![w].outcome = "fail"]
      BY <2>1 DEF RecordFails
    <3> QED BY <3>1, GoingOnTypes DEF RecordFails
  <2>2. CASE ~(AttemptOf(w) >= MaxAttempts)
    <3>1. worker' = [worker EXCEPT ![w].pc = "closing", ![w].outcome = "release"]
      BY <2>2 DEF RecordFails
    <3> QED BY <3>1, GoingOnTypes DEF RecordFails
  <2> QED BY <2>1, <2>2
<1>2. RepliesTypeOK'
  BY <1>1 DEF RecordFails, WorkInv, RepliesTypeOK, RepliesAssumption
<1>3. TextsAreCounted'
  BY TextsStay DEF RecordFails
<1> QED BY <1>1, <1>2, <1>3 DEF WorkInv

\* Giving a reply up keeps the types.
LEMMA AbandonTypes ==
  ASSUME RepliesAssumption, WorkInv, NEW w \in Workers, Abandon(w)
  PROVE  WorkInv' /\ Grows
<1>1. worker' \in [Workers -> WorkerStates] /\ WorkIsKnown' /\ Grows
  <2>1. worker \in [Workers -> WorkerStates] /\ worker[w].outcome = "fail"
    BY DEF WorkInv, RepliesTypeOK, WorkIsKnown, KnownWork, Abandon
  <2>2. worker' = [worker EXCEPT ![w].pc = "closing", ![w].outcome = "fail"]
    BY <2>1 DEF Abandon, WorkerStates
  <2> QED BY <2>2, GoingOnTypes DEF Abandon
<1>2. ReplyOf(w) \in Replies
  BY AboutAReply DEF WorkInv, Abandon
<1>3. /\ reply' \in [Replies -> [status : Statuses, text : 0 .. MaxResends]]
      /\ \A r \in Replies : reply'[r].text = reply[r].text
      /\ failed' \subseteq Replies /\ unclosed' \subseteq Replies
      /\ faults' \in 0 .. MaxFaults /\ faults' >= faults
  <2> DEFINE r == jobs[worker[w].job].reply
  <2>0. /\ r \in Replies
        /\ reply \in [Replies -> [status : Statuses, text : 0 .. MaxResends]]
        /\ failed \subseteq Replies /\ unclosed \subseteq Replies
        /\ faults \in 0 .. MaxFaults /\ MaxFaults \in Nat
    BY <1>2 DEF WorkInv, RepliesTypeOK, ReplyOf, RepliesAssumption
  <2>1. CASE /\ reply' = [reply EXCEPT ![r].status = "failed"]
             /\ failed' = failed \cup {r} /\ UNCHANGED <<unclosed, faults>>
    BY <2>0, <2>1 DEF Statuses
  <2>2. CASE UNCHANGED <<reply, failed, unclosed, faults>>
    BY <2>0, <2>2
  <2>3. CASE /\ faults < MaxFaults /\ faults' = faults + 1
             /\ unclosed' = unclosed \cup {r} /\ UNCHANGED <<reply, failed>>
    BY <2>0, <2>3
  <2> QED BY <2>1, <2>2, <2>3 DEF Abandon
<1>4. RepliesTypeOK'
  BY <1>1, <1>3 DEF Abandon, WorkInv, RepliesTypeOK, RepliesAssumption
<1>5. TextsAreCounted'
  BY <1>3, TextsStay DEF Abandon
<1> QED BY <1>1, <1>4, <1>5 DEF WorkInv

\* Closing a job changes at most its state and its holder.
LEMMA CloseJobs ==
  ASSUME RepliesAssumption, WorkInv, NEW w \in Workers, Close(w)
  PROVE  /\ Grows /\ jobs' \in Seq(JobRows) /\ Len(jobs') = Len(jobs) /\ DOMAIN jobs' = DOMAIN jobs
         /\ \A i \in DOMAIN jobs :
               /\ jobs'[i].reply = jobs[i].reply /\ jobs'[i].attempt = jobs[i].attempt
               /\ \/ jobs'[i].state = jobs[i].state
                  \/ i = worker[w].job /\ jobs'[i].state = "queued"
                  \/ i = worker[w].job /\ worker[w].outcome \in {"complete", "fail"}
<1>0. worker[w].job \in DOMAIN jobs
  BY AboutAReply DEF WorkInv, Close
<1>1. worker[w].outcome \in {"complete", "release", "fail"}
  BY DEF WorkInv, WorkIsKnown, KnownWork, Close
<1>2. CASE jobs' = jobs
  BY <1>2, SameJobs DEF WorkInv, RepliesTypeOK
<1>3. CASE jobs[worker[w].job].holder = w
  <2>1. CASE worker[w].outcome = "release"
    <3>1. jobs' = Freed(worker[w].job, "queued")
      BY <2>1, <1>3 DEF Close, Closed, Freed
    <3> QED BY <3>1, <1>0, FreedJobs DEF WorkInv
  <2>2. CASE worker[w].outcome = "complete"
    <3>1. jobs' = Freed(worker[w].job, "completed")
      BY <2>2, <1>3 DEF Close, Closed, Freed
    <3> QED BY <3>1, <2>2, <1>0, FreedJobs DEF WorkInv
  <2>3. CASE worker[w].outcome = "fail"
    <3>1. jobs' = Freed(worker[w].job, "failed")
      BY <2>3, <1>3 DEF Close, Closed, Freed
    <3> QED BY <3>1, <2>3, <1>0, FreedJobs DEF WorkInv
  <2> QED BY <2>1, <2>2, <2>3, <1>1
<1> QED BY <1>2, <1>3 DEF Close, Closed

\* A job that is closed leaves the batch.
LEMMA CloseTypes ==
  ASSUME RepliesAssumption, WorkInv, NEW w \in Workers, Close(w)
  PROVE  WorkInv' /\ Grows
<1>1. Grows /\ jobs' \in Seq(JobRows) /\ Len(jobs') = Len(jobs)
  BY CloseJobs
<1>2. worker \in [Workers -> WorkerStates]
  BY DEF WorkInv, RepliesTypeOK
<1>3. /\ worker' \in [Workers -> WorkerStates]
      /\ worker'[w].pc = "idle" /\ worker'[w].batch \subseteq worker[w].batch
      /\ \A v \in Workers : v # w => worker'[v] = worker[v]
  BY <1>2 DEF Close, WorkerStates, NoWork, RepliesAssumption
<1>4. RepliesTypeOK'
  BY <1>1, <1>3 DEF Close, WorkInv, RepliesTypeOK
<1>5. KnownWork(w)'
  <2>1. KnownWork(w)
    BY DEF WorkInv, WorkIsKnown
  <2>2. \A c \in worker'[w].batch : c[1] \in DOMAIN jobs' /\ jobs'[c[1]].attempt > 0
    BY <1>1, <1>3, <2>1 DEF KnownWork, Grows
  <2> QED BY <1>3, <2>2 DEF KnownWork
<1>6. WorkIsKnown'
  BY <1>1, <1>3, <1>5, KnownAfterOne DEF WorkInv
<1>7. TextsAreCounted'
  BY TextsStay DEF Close
<1> QED BY <1>1, <1>4, <1>6, <1>7 DEF WorkInv

\* The sweep for stuck replies adds a job.
LEMMA RequeueTypes ==
  ASSUME RepliesAssumption, WorkInv, NEW w \in Workers, Requeue(w)
  PROVE  WorkInv' /\ Grows
<1>1. PICK r \in Replies : Len(jobs) < MaxJobs /\ jobs' = Enqueued(r)
  BY DEF Requeue
<1>2. Grows /\ jobs' \in Seq(JobRows) /\ Len(jobs') <= MaxJobs
  BY <1>1, EnqueuedJobs DEF WorkInv
<1>3. RepliesTypeOK'
  BY <1>2 DEF Requeue, WorkInv, RepliesTypeOK
<1>4. WorkIsKnown'
  BY <1>2, OthersAreKnown DEF WorkInv, WorkIsKnown, Requeue
<1>5. TextsAreCounted'
  BY TextsStay DEF Requeue
<1> QED BY <1>2, <1>3, <1>4, <1>5 DEF WorkInv

\* A lease that runs out leaves the state of its job.
LEMMA LeaseJobs ==
  ASSUME RepliesAssumption, WorkInv, NEW j, LeaseRunsOut(j) \/ LeaseIsOverrun(j)
  PROVE  /\ Grows /\ jobs' \in Seq(JobRows) /\ Len(jobs') = Len(jobs) /\ DOMAIN jobs' = DOMAIN jobs
         /\ \A i \in DOMAIN jobs : /\ jobs'[i].reply = jobs[i].reply
                                   /\ jobs'[i].attempt = jobs[i].attempt
                                   /\ jobs'[i].state = jobs[i].state
<1>1. j \in DOMAIN jobs /\ jobs' = [jobs EXCEPT ![j].holder = Nobody]
  BY DEF LeaseRunsOut, LeaseIsOverrun
<1>2. jobs[j] \in JobRows /\ jobs \in Seq(JobRows)
  BY <1>1, JobsType DEF WorkInv, RepliesTypeOK
<1>3. jobs' = Freed(j, jobs[j].state) /\ jobs[j].state \in {"queued", "running", "completed", "failed"}
  BY <1>1, <1>2 DEF Freed, JobRows
<1> QED BY <1>1, <1>3, FreedJobs DEF WorkInv

\* Leases that run out keep the types.
LEMMA LeaseTypes ==
  ASSUME RepliesAssumption, WorkInv, NEW j, LeaseRunsOut(j) \/ LeaseIsOverrun(j)
  PROVE  WorkInv' /\ Grows
<1>1. Grows /\ jobs' \in Seq(JobRows) /\ Len(jobs') = Len(jobs)
  BY LeaseJobs
<1>2. RepliesTypeOK'
  BY <1>1 DEF LeaseRunsOut, LeaseIsOverrun, WorkInv, RepliesTypeOK, RepliesAssumption
<1>3. WorkIsKnown'
  BY <1>1, OthersAreKnown DEF WorkInv, WorkIsKnown, LeaseRunsOut, LeaseIsOverrun
<1>4. TextsAreCounted'
  BY TextsStay DEF LeaseRunsOut, LeaseIsOverrun
<1> QED BY <1>1, <1>2, <1>3, <1>4 DEF WorkInv

\* A crash empties the worker.
LEMMA CrashTypes ==
  ASSUME RepliesAssumption, WorkInv, NEW w \in Workers, Crash(w)
  PROVE  WorkInv' /\ Grows
<1>1. Grows
  BY SameJobs DEF Crash
<1>2. worker \in [Workers -> WorkerStates] /\ worker' = [worker EXCEPT ![w] = NoWork]
  BY DEF WorkInv, RepliesTypeOK, Crash
<1>3. NoWork \in WorkerStates
  BY DEF NoWork, WorkerStates, RepliesAssumption
<1>4. RepliesTypeOK'
  BY <1>2, <1>3 DEF Crash, WorkInv, RepliesTypeOK, RepliesAssumption
<1>5. KnownWork(w)'
  BY <1>2 DEF KnownWork, NoWork
<1>6. WorkIsKnown'
  BY <1>1, <1>2, <1>5, KnownAfterOne DEF WorkInv
<1>7. TextsAreCounted'
  BY TextsStay DEF Crash
<1> QED BY <1>1, <1>4, <1>6, <1>7 DEF WorkInv

\* The lock changes hands without a change of rows.
LEMMA LeaderTypes ==
  ASSUME RepliesAssumption, WorkInv,
         (\E w \in Workers : BecomeLeader(w)) \/ LockIsLost \/ UNCHANGED replyVars
  PROVE  WorkInv' /\ Grows
<1>0. UNCHANGED <<reply, jobs, worker, resend, resends>>
  BY DEF BecomeLeader, LockIsLost, replyVars
<1>1. Grows
  BY <1>0, SameJobs
<1>2. RepliesTypeOK'
  BY DEF BecomeLeader, LockIsLost, replyVars, WorkInv, RepliesTypeOK, RepliesAssumption
<1>3. WorkIsKnown'
  BY <1>0, <1>1, OthersAreKnown DEF WorkInv, WorkIsKnown
<1>4. TextsAreCounted'
  BY <1>0, TextsStay
<1> QED BY <1>1, <1>2, <1>3, <1>4 DEF WorkInv

\* No step of the system disturbs the types and what the workers know.
LEMMA WorkStep ==
  ASSUME RepliesAssumption, WorkInv, [RepliesNext]_replyVars
  PROVE  WorkInv' /\ Grows
<1>1. ASSUME NEW w \in Workers, WorkerStep(w) PROVE WorkInv' /\ Grows
  BY <1>1, ClaimTypes, BeginTypes, SendTypes, LostTypes, RecordTypes, RecordFailsTypes, AbandonTypes, CloseTypes
     DEF WorkerStep
<1>2. ASSUME NEW s \in Senders, EndResend(s) PROVE WorkInv' /\ Grows
  BY <1>2, EndResendTypes
<1> QED
  BY <1>1, <1>2, AcceptTypes, BeginResendTypes, RequeueTypes, LeaseTypes, CrashTypes, LeaderTypes DEF
     RepliesNext

\* The types hold at first.
LEMMA WorkInit == RepliesAssumption /\ RepliesInit => WorkInv
<1> SUFFICES ASSUME RepliesAssumption, RepliesInit PROVE WorkInv
  OBVIOUS
<1>1. RepliesTypeOK
  BY DEF RepliesInit, RepliesTypeOK, Statuses, WorkerStates, NoWork, RepliesAssumption
<1>2. WorkIsKnown
  BY DEF RepliesInit, WorkIsKnown, KnownWork, NoWork
<1>3. TextsAreCounted
  <2> SUFFICES ASSUME NEW r \in Replies
               PROVE  IsFiniteSet(SendersOf(r)) /\ reply[r].text + Cardinality(SendersOf(r)) <= resends
    BY DEF TextsAreCounted
  <2>1. SendersOf(r) = {}
    BY ReplyNumbers DEF RepliesInit, SendersOf
  <2> QED BY <2>1, FS_EmptySet DEF RepliesInit
<1> QED BY <1>1, <1>2, <1>3 DEF WorkInv

-----------------------------------------------------------------------------
(* The order of a room.                                                    *)

\* What happened stays on record.
LEMMA HistoryStep ==
  ASSUME RepliesAssumption, WorkInv, [RepliesNext]_replyVars
  PROVE  /\ failed \subseteq failed' /\ unclosed \subseteq unclosed'
         /\ \A r \in Replies : CopiesOf(r) > 0 => CopiesOf(r)' > 0
         /\ \A r \in Replies : Settled(r) => Settled(r)'
         /\ \A r \in Replies : CopiesOf(r)' > 0 =>
                \/ CopiesOf(r) > 0
                \/ \E w \in Workers : worker[w].pc = "sending" /\ ReplyOf(w) = r
<1>1. failed \subseteq failed' /\ unclosed \subseteq unclosed'
  BY DEF RepliesNext, replyVars, Accept, BeginResend, EndResend, BecomeLeader, WorkerStep, Claim,
     Begin, Send, AnswerIsLost, Record,
         RecordFails, Abandon, Close, Requeue, LeaseRunsOut, LeaseIsOverrun, Crash, LockIsLost
<1>2. \/ copies' = copies
      \/ \E w \in Workers : (\E taken \in BOOLEAN : Send(w, taken)) \/ AnswerIsLost(w)
  BY DEF RepliesNext, replyVars, Accept, BeginResend, EndResend, BecomeLeader, WorkerStep, Claim,
     Begin, Record,
         RecordFails, Abandon, Close, Requeue, LeaseRunsOut, LeaseIsOverrun, Crash, LockIsLost
<1>3. ASSUME NEW w \in Workers, (\E taken \in BOOLEAN : Send(w, taken)) \/ AnswerIsLost(w),
             NEW r \in Replies
      PROVE  /\ CopiesOf(r) > 0 => CopiesOf(r)' > 0
             /\ CopiesOf(r)' > 0 => CopiesOf(r) > 0 \/ ReplyOf(w) = r
  <2>1. /\ copies \in [Replies -> Seq(0 .. MaxResends)]
        /\ worker[w].text \in 0 .. MaxResends
        /\ \/ copies' = copies
           \/ copies' = [copies EXCEPT ![ReplyOf(w)] = Append(@, worker[w].text)]
    BY <1>3 DEF WorkInv, RepliesTypeOK, WorkerStates, Send, AnswerIsLost, ReplyOf
  <2>2. copies'[r] = copies[r] \/ (ReplyOf(w) = r /\ copies'[r] = Append(copies[r], worker[w].text))
    BY <2>1
  <2> QED BY <2>1, <2>2 DEF CopiesOf
<1>4. \A r \in Replies : CopiesOf(r) > 0 => CopiesOf(r)' > 0
  BY <1>2, <1>3 DEF CopiesOf
<1>5. \A r \in Replies : CopiesOf(r)' > 0 =>
          \/ CopiesOf(r) > 0
          \/ \E w \in Workers : worker[w].pc = "sending" /\ ReplyOf(w) = r
  <2>1. ASSUME NEW w \in Workers, (\E taken \in BOOLEAN : Send(w, taken)) \/ AnswerIsLost(w)
        PROVE  worker[w].pc = "sending"
    BY <2>1 DEF Send, AnswerIsLost
  <2> QED BY <2>1, <1>2, <1>3 DEF CopiesOf
<1> QED BY <1>1, <1>4, <1>5 DEF Settled

\* What a step may do to the jobs of the table: close those of settled replies, claim
\* some that may be claimed, and append one that has no open job.
Kept ==
    /\ DOMAIN jobs' = DOMAIN jobs /\ Len(jobs') = Len(jobs)
    /\ \A j \in DOMAIN jobs :
          /\ jobs'[j].reply = jobs[j].reply
          /\ Open(j) => Open(j)' \/ Settled(jobs[j].reply)
          /\ jobs'[j].attempt > 0 => jobs[j].attempt > 0 \/ j \in Claimable

\* Every step keeps the jobs so or appends one for a reply that is accepted.
LEMMA JobsStep ==
  ASSUME RepliesAssumption, WorkInv, OrderInv, [RepliesNext]_replyVars
  PROVE  \/ Kept
         \/ \E r \in Replies : /\ Appended(r)
                               /\ Accepted(r)' /\ (~Accepted(r) => Accept(r))
<1>1. CASE jobs' = jobs
  BY <1>1 DEF Kept, Open
<1>2. ASSUME NEW w \in Workers, Claim(w) PROVE Kept
  <2>0. Claimable \subseteq DOMAIN jobs
    BY DEF Claimable
  <2>1. /\ Len(jobs') = Len(jobs) /\ DOMAIN jobs' = DOMAIN jobs /\ Grows
        /\ \A j \in DOMAIN jobs :
              /\ j \in Claimable => jobs'[j].state = "running"
              /\ j \notin Claimable => jobs'[j] = jobs[j]
    BY <1>2, <2>0, ClaimedJobs DEF Claim, WorkInv
  <2> QED BY <2>1 DEF Kept, Grows, Open
<1>3. ASSUME NEW w \in Workers, Close(w) PROVE Kept
  <2>1. /\ Len(jobs') = Len(jobs) /\ DOMAIN jobs' = DOMAIN jobs
        /\ \A i \in DOMAIN jobs :
              /\ jobs'[i].reply = jobs[i].reply /\ jobs'[i].attempt = jobs[i].attempt
              /\ \/ jobs'[i].state = jobs[i].state
                 \/ i = worker[w].job /\ jobs'[i].state = "queued"
                 \/ i = worker[w].job /\ worker[w].outcome \in {"complete", "fail"}
    BY <1>3, CloseJobs
  <2>2. worker[w].outcome \in {"complete", "fail"} => Settled(jobs[worker[w].job].reply)
    BY <1>3 DEF Close, OrderInv, OutcomesAreTrue, ReplyOf
  <2> QED BY <2>1, <2>2 DEF Kept, Open
<1>4. ASSUME NEW j, LeaseRunsOut(j) \/ LeaseIsOverrun(j) PROVE Kept
  BY <1>4, LeaseJobs DEF Kept, Open
<1>5. ASSUME NEW r \in Replies, jobs' = Enqueued(r), RoomLeft(r) \/ Len(jobs) < MaxJobs
      PROVE  Kept \/ Appended(r)
  <2>1. RepliesTypeOK
    BY DEF WorkInv
  <2>2. jobs' = jobs \/ Appended(r)
    BY <1>5, <2>1, EnqueuedJobs
  <2> QED BY <2>2 DEF Kept, Open
<1>6. ASSUME NEW r \in Replies, Accept(r)
      PROVE  jobs' = Enqueued(r) /\ Len(jobs) < MaxJobs /\ Accepted(r)'
  BY <1>6 DEF Accept, WorkInv, RepliesTypeOK, Accepted
<1>7. ASSUME NEW s \in Senders, EndResend(s)
      PROVE  \E r \in Replies : /\ jobs' = Enqueued(r) /\ RoomLeft(r)
                                /\ Accepted(r) /\ Accepted(r)'
  <2>1. resend[s] \in Replies
    BY <1>7, EndResendTypes
  <2>2. Accepted(resend[s])
    BY <1>7, <2>1 DEF EndResend, OrderInv, RowsTellWhatHappened, Settled
  <2>3. reply'[resend[s]].status = "sending"
    BY <1>7, <2>1 DEF EndResend, WorkInv, RepliesTypeOK
  <2>4. jobs' = Enqueued(resend[s]) /\ RoomLeft(resend[s])
    BY <1>7 DEF EndResend
  <2> QED
    <3> DEFINE r == resend[s]
    <3>1. PICK r1 \in Replies : r1 = resend[s]
      BY <2>1
    <3>2. Accepted(r1)'
      BY <2>3, <3>1 DEF Accepted
    <3> QED BY <2>2, <2>4, <3>1, <3>2
<1>8. ASSUME NEW w \in Workers, Requeue(w)
      PROVE  \E r \in Replies : /\ jobs' = Enqueued(r) /\ Len(jobs) < MaxJobs
                                /\ Accepted(r) /\ Accepted(r)'
  BY <1>8 DEF Requeue, Accepted
<1>9. ASSUME NEW w \in Workers, WorkerStep(w), ~Claim(w), ~Close(w) PROVE jobs' = jobs
  BY <1>9 DEF WorkerStep, Begin, Send, AnswerIsLost, Record, RecordFails, Abandon
<1>10. ASSUME \/ \E s \in Senders, r \in Replies : BeginResend(s, r)
              \/ \E w \in Workers : BecomeLeader(w) \/ Crash(w)
              \/ LockIsLost \/ UNCHANGED replyVars
       PROVE  jobs' = jobs
  BY <1>10 DEF BeginResend, BecomeLeader, Crash, LockIsLost, replyVars
<1> QED
  BY <1>1, <1>2, <1>3, <1>4, <1>5, <1>6, <1>7, <1>8, <1>9, <1>10 DEF RepliesNext

\* What a step may do to a row.
RowStep(r) ==
    \/ reply'[r].status = reply[r].status
    \/ Accept(r) /\ reply'[r].status = "sending"
    \/ Accepted(r) /\ reply'[r].status = "sending"
    \/ Accepted(r) /\ reply'[r].status = "failed" /\ r \in failed'
    \/ Accepted(r) /\ reply'[r].status = "sent" /\ CopiesOf(r) > 0

\* A worker that is busy is about a reply that was accepted.
LEMMA BusyWithAccepted ==
  ASSUME WorkInv, OrderInv, NEW w \in Workers, worker[w].pc # "idle"
  PROVE  ReplyOf(w) \in Replies /\ Accepted(ReplyOf(w))
  BY AboutAReply DEF WorkInv, OrderInv, RowsTellWhatHappened, ReplyOf

\* A row changes its status only for one of these reasons.
LEMMA ReplyRowsStep ==
  ASSUME RepliesAssumption, WorkInv, OrderInv, [RepliesNext]_replyVars, NEW r \in Replies
  PROVE  RowStep(r)
<1>0. /\ reply \in [Replies -> [status : Statuses, text : 0 .. MaxResends]]
      /\ resend \in [Senders -> Replies \cup {0}]
  BY DEF WorkInv, RepliesTypeOK
<1>1. ASSUME NEW q \in Replies, Accept(q) PROVE RowStep(r)
  <2>1. CASE q = r
    BY <1>0, <1>1, <2>1 DEF RowStep, Accept
  <2>2. CASE q # r
    BY <1>0, <1>1, <2>2 DEF RowStep, Accept
  <2> QED BY <2>1, <2>2
<1>2. ASSUME NEW s \in Senders, EndResend(s) PROVE RowStep(r)
  <2>1. resend[s] \in Replies /\ Accepted(resend[s])
    BY <1>0, <1>2 DEF EndResend, OrderInv, RowsTellWhatHappened, Settled
  <2>2. reply'[r] = IF r = resend[s] THEN [status |-> "sending", text |-> reply[r].text + 1] ELSE reply[r]
    BY <1>0, <1>2, <2>1 DEF EndResend
  <2> QED BY <2>1, <2>2 DEF RowStep
<1>3. ASSUME NEW w \in Workers, Record(w) PROVE RowStep(r)
  <2>1. ReplyOf(w) \in Replies /\ Accepted(ReplyOf(w))
    BY <1>3, BusyWithAccepted DEF Record
  <2>2. /\ worker[w].outcome \in {"sent", "failed"}
        /\ worker[w].outcome = "sent" => CopiesOf(ReplyOf(w)) > 0
        /\ worker[w].outcome = "failed" => ReplyOf(w) \in failed'
    BY <1>3 DEF Record, WorkInv, WorkIsKnown, KnownWork, OrderInv, OutcomesAreTrue, ReplyOf
  <2>3. reply'[r].status = IF r = ReplyOf(w) THEN worker[w].outcome ELSE reply[r].status
    BY <1>0, <1>3, <2>1 DEF Record, ReplyOf
  <2> QED BY <2>1, <2>2, <2>3 DEF RowStep
<1>4. ASSUME NEW w \in Workers, Abandon(w) PROVE RowStep(r)
  <2>1. ReplyOf(w) \in Replies /\ Accepted(ReplyOf(w))
    BY <1>4, BusyWithAccepted DEF Abandon
  <2>2. CASE reply' = reply
    BY <2>2 DEF RowStep
  <2>3. CASE reply' = [reply EXCEPT ![ReplyOf(w)].status = "failed"] /\ failed' = failed \cup {ReplyOf(w)}
    <3>1. reply'[r].status = IF r = ReplyOf(w) THEN "failed" ELSE reply[r].status
      BY <1>0, <2>1, <2>3
    <3> QED BY <2>1, <2>3, <3>1 DEF RowStep
  <2> QED BY <1>4, <2>2, <2>3 DEF Abandon, ReplyOf
<1>5. CASE reply' = reply
  BY <1>5 DEF RowStep
<1>6. ASSUME NEW w \in Workers, WorkerStep(w), ~Record(w), ~Abandon(w) PROVE reply' = reply
  BY <1>6 DEF WorkerStep, Claim, Begin, Send, AnswerIsLost, RecordFails, Close
<1>7. ASSUME \/ \E s \in Senders, q \in Replies : BeginResend(s, q)
             \/ \E w \in Workers : BecomeLeader(w) \/ Crash(w) \/ Requeue(w)
             \/ \E j \in 1 .. MaxJobs : LeaseRunsOut(j) \/ LeaseIsOverrun(j)
             \/ LockIsLost \/ UNCHANGED replyVars
      PROVE  reply' = reply
  BY <1>7 DEF BeginResend, BecomeLeader, Crash, Requeue, LeaseRunsOut, LeaseIsOverrun, LockIsLost,
     replyVars
<1> QED
  BY <1>1, <1>2, <1>3, <1>4, <1>5, <1>6, <1>7 DEF RepliesNext

\* Accepted replies stay accepted, and only Accept adds to them.
LEMMA AcceptedStep ==
  ASSUME RepliesAssumption, WorkInv, OrderInv, [RepliesNext]_replyVars, NEW r \in Replies
  PROVE  /\ Accepted(r) => Accepted(r)'
         /\ Accepted(r)' => Accepted(r) \/ Accept(r)
<1>1. RowStep(r)
  BY ReplyRowsStep
<1> QED BY <1>1 DEF RowStep, Accepted

\* Rows go on telling what happened.
LEMMA RowsTellStep ==
  ASSUME RepliesAssumption, WorkInv, WorkInv', OrderInv, [RepliesNext]_replyVars
  PROVE  RowsTellWhatHappened'
<1>0. /\ \A j \in DOMAIN jobs : jobs[j].reply \in Replies /\ Accepted(jobs[j].reply)
      /\ \A r \in Replies : Settled(r) => Accepted(r)
      /\ \A r \in Replies : reply[r].status = "sent" => CopiesOf(r) > 0
      /\ \A r \in Replies : reply[r].status = "failed" => r \in failed
      /\ \A q, r \in Replies : q < r /\ Accepted(r) => Accepted(q)
      /\ \A s \in Senders : resend[s] # 0 => resend[s] \in failed
  BY JobsType DEF WorkInv, JobRows, OrderInv, RowsTellWhatHappened
<1>1. ASSUME NEW j \in DOMAIN jobs' PROVE reply'[jobs'[j].reply].status # "none"
  <2>1. ASSUME j \in DOMAIN jobs, jobs'[j].reply = jobs[j].reply PROVE reply'[jobs'[j].reply].status # "none"
    <3>1. PICK q \in Replies : q = jobs[j].reply
      BY <1>0, <2>1
    <3>2. Accepted(q)'
      BY <1>0, <2>1, <3>1, AcceptedStep
    <3> QED BY <2>1, <3>1, <3>2 DEF Accepted
  <2>2. CASE Kept
    BY <2>1, <2>2 DEF Kept
  <2>3. ASSUME NEW r \in Replies, Appended(r), Accepted(r)' PROVE reply'[jobs'[j].reply].status # "none"
    <3>1. CASE j \in DOMAIN jobs
      BY <2>1, <2>3, <3>1 DEF Appended
    <3>2. CASE j \notin DOMAIN jobs
      <4>1. jobs'[j].reply = r
        BY <2>3, <3>2, JobsType DEF Appended, WorkInv
      <4> QED BY <2>3, <4>1 DEF Accepted
    <3> QED BY <3>1, <3>2
  <2> QED BY <2>2, <2>3, JobsStep
<1>2. ASSUME NEW r \in Replies, Settled(r)' PROVE Accepted(r)'
  <2>1. CASE Settled(r)
    BY <1>0, <2>1, AcceptedStep
  <2>2. CASE \E w \in Workers : worker[w].pc # "idle" /\ ReplyOf(w) = r
    BY <2>2, BusyWithAccepted, AcceptedStep
  <2>3. r \in failed' \cup unclosed' =>
          r \in failed \cup unclosed \/ \E w \in Workers : worker[w].pc # "idle" /\ ReplyOf(w) = r
    BY DEF RepliesNext, replyVars, Accept, BeginResend, EndResend, BecomeLeader, WorkerStep, Claim,
       Begin, Send, AnswerIsLost, Record,
           RecordFails, Abandon, Close, Requeue, LeaseRunsOut, LeaseIsOverrun, Crash, LockIsLost, ReplyOf
  <2>4. CopiesOf(r)' > 0 =>
          CopiesOf(r) > 0 \/ \E w \in Workers : worker[w].pc # "idle" /\ ReplyOf(w) = r
    BY HistoryStep
  <2> QED BY <1>2, <2>1, <2>2, <2>3, <2>4 DEF Settled
<1>3. ASSUME NEW r \in Replies
      PROVE  /\ reply'[r].status = "sent" => CopiesOf(r)' > 0
             /\ reply'[r].status = "failed" => r \in failed'
  <2>1. RowStep(r)
    BY ReplyRowsStep
  <2>2. CopiesOf(r) > 0 => CopiesOf(r)' > 0
    BY HistoryStep DEF CopiesOf
  <2>3. r \in failed => r \in failed'
    BY HistoryStep
  <2> QED BY <1>0, <2>1, <2>2, <2>3 DEF RowStep
<1>4. ASSUME NEW q \in Replies, NEW r \in Replies, q < r, Accepted(r)' PROVE Accepted(q)'
  <2>1. CASE Accepted(r)
    BY <1>0, <1>4, <2>1, AcceptedStep
  <2>2. CASE Accept(r)
    <3>1. Accepted(q)
      BY <1>4, <2>2, ReplyNumbers DEF Accept, Accepted
    <3> QED BY <3>1, AcceptedStep
  <2> QED BY <1>4, <2>1, <2>2, AcceptedStep
<1>5. ASSUME NEW s \in Senders, resend'[s] # 0 PROVE resend'[s] \in failed'
  <2>1. \/ resend'[s] = resend[s]
        \/ resend'[s] = 0
        \/ \E r \in Replies : reply[r].status = "failed" /\ resend'[s] = r
    BY DEF RepliesNext, replyVars, Accept, BeginResend, EndResend, BecomeLeader, WorkerStep, Claim,
       Begin, Send, AnswerIsLost, Record,
           RecordFails, Abandon, Close, Requeue, LeaseRunsOut, LeaseIsOverrun, Crash, LockIsLost, WorkInv, RepliesTypeOK
  <2>2. failed \subseteq failed'
    BY HistoryStep
  <2> QED BY <1>0, <1>5, <2>1, <2>2
<1>6. /\ \A j \in DOMAIN jobs' : reply'[jobs'[j].reply].status # "none"
      /\ \A s \in Senders : resend'[s] # 0 => resend'[s] \in failed'
      /\ \A r \in Replies : reply'[r].status = "failed" => r \in failed'
  BY <1>1, <1>3, <1>5
<1>7. \A r \in Replies : Settled(r)' => Accepted(r)'
  BY <1>2
<1>8. \A r \in Replies : reply'[r].status = "sent" => CopiesOf(r)' > 0
  BY <1>3 DEF CopiesOf
<1>9. \A q, r \in Replies : q < r /\ Accepted(r)' => Accepted(q)'
  BY <1>4
<1> QED BY <1>6, <1>7, <1>8, <1>9 DEF RowsTellWhatHappened, Accepted

\* What a closed or answered job says of its reply.
LEMMA OutcomesStep ==
  ASSUME RepliesAssumption, WorkInv, OrderInv, [RepliesNext]_replyVars
  PROVE  OutcomesAreTrue'
<1> DEFINE True(w) ==
      /\ worker[w].pc = "answered" /\ worker[w].outcome = "sent" => CopiesOf(ReplyOf(w)) > 0
      /\ worker[w].pc = "closing" /\ worker[w].outcome \in {"complete", "fail"}
             => Settled(ReplyOf(w))
<1>0. \A w \in Workers : True(w)
  BY DEF OrderInv, OutcomesAreTrue
<1>1. Grows
  BY WorkStep
<1>2. ASSUME NEW w \in Workers, worker'[w] = worker[w] PROVE True(w)'
  <2>1. CASE worker[w].pc = "idle"
    BY <1>2, <2>1
  <2>2. CASE worker[w].pc # "idle"
    <3>1. worker[w].job \in DOMAIN jobs /\ ReplyOf(w) \in Replies
      BY <2>2, AboutAReply DEF WorkInv
    <3>2. ReplyOf(w)' = ReplyOf(w)
      BY <1>1, <1>2, <3>1 DEF Grows, ReplyOf
    <3>3. PICK r \in Replies : r = ReplyOf(w)
      BY <3>1
    <3>4. CopiesOf(r) > 0 => CopiesOf(r)' > 0
      BY HistoryStep DEF CopiesOf
    <3>5. Settled(r) => Settled(r)'
      BY HistoryStep
    <3>6. CopiesOf(ReplyOf(w))' = CopiesOf(r)' /\ (Settled(ReplyOf(w))' <=> Settled(r)')
      BY <3>2, <3>3 DEF CopiesOf, Settled
    <3> QED BY <1>0, <1>2, <3>3, <3>4, <3>5, <3>6
  <2> QED BY <2>1, <2>2
<1>3. ASSUME NEW w \in Workers, \A v \in Workers : v # w => worker'[v] = worker[v], True(w)'
      PROVE  OutcomesAreTrue'
  BY <1>2, <1>3 DEF OutcomesAreTrue
<1>4. CASE worker' = worker
  BY <1>2, <1>4 DEF OutcomesAreTrue
<1> HIDE DEF True
<1>5. worker \in [Workers -> WorkerStates]
  BY DEF WorkInv, RepliesTypeOK
<1>6. ASSUME NEW w \in Workers, \A v \in Workers : v # w => worker'[v] = worker[v],
             worker'[w].pc \notin {"answered", "closing"}
      PROVE  OutcomesAreTrue'
  BY <1>3, <1>6 DEF True
<1>7. ASSUME NEW w \in Workers, Claim(w) \/ Close(w) \/ Crash(w) PROVE OutcomesAreTrue'
  <2>1. /\ \A v \in Workers : v # w => worker'[v] = worker[v]
        /\ worker'[w].pc = "idle"
    BY <1>5, <1>7 DEF Claim, Idle, Close, Crash, NoWork, WorkerStates
  <2> QED BY <1>6, <2>1
<1>8. ASSUME NEW r \in Replies, Accepted(r), reply[r].status # "sending" PROVE Settled(r)
  <2>1. reply[r].status \in {"sent", "failed"}
    BY <1>8 DEF WorkInv, RepliesTypeOK, Statuses, Accepted
  <2> QED BY <2>1 DEF OrderInv, RowsTellWhatHappened, Settled
<1>9. ASSUME NEW w \in Workers, NEW c \in worker[w].batch, Begin(w, c) PROVE OutcomesAreTrue'
  <2>1. c[1] \in DOMAIN jobs /\ jobs' = jobs
    BY <1>9 DEF WorkInv, WorkIsKnown, KnownWork, Begin
  <2>2. PICK r \in Replies : r = jobs[c[1]].reply
    BY <2>1, JobsType DEF WorkInv, JobRows
  <2>3. Accepted(r)
    BY <2>1, <2>2 DEF OrderInv, RowsTellWhatHappened
  <2>4. \A v \in Workers : v # w => worker'[v] = worker[v]
    BY <1>5, <1>9 DEF Begin
  <2>5. CASE worker'[w].pc = "sending"
    BY <1>6, <2>4, <2>5
  <2>6. CASE worker'[w].pc = "answered" /\ worker'[w].outcome = "failed"
    <3>1. True(w)'
      BY <2>6 DEF True
    <3> QED BY <1>3, <2>4, <3>1
  <2>7. CASE reply[r].status # "sending" /\ worker'[w].job = c[1]
    <3>1. Settled(r)'
      BY <1>8, <2>3, <2>7, HistoryStep
    <3>2. ReplyOf(w)' = r
      BY <2>1, <2>2, <2>7 DEF ReplyOf
    <3>3. Settled(ReplyOf(w))'
      BY <3>1, <3>2 DEF Settled, CopiesOf
    <3>4. worker'[w].pc = "closing"
      BY <1>5, <1>9, <2>2, <2>7 DEF Begin, WorkerStates
    <3>5. True(w)'
      BY <3>3, <3>4 DEF True
    <3> QED BY <1>3, <2>4, <3>5
  <2>8. \/ worker'[w].pc = "sending"
        \/ worker'[w].pc = "answered" /\ worker'[w].outcome = "failed"
        \/ reply[r].status # "sending" /\ worker'[w].job = c[1]
    BY <1>5, <1>9, <2>2 DEF Begin, WorkerStates
  <2> QED BY <2>5, <2>6, <2>7, <2>8
<1>10. ASSUME NEW w \in Workers, worker[w].pc # "idle", jobs' = jobs,
              worker' = [worker EXCEPT ![w].pc = worker'[w].pc, ![w].outcome = worker'[w].outcome],
              NEW r \in Replies, r = ReplyOf(w),
              worker'[w].pc = "answered" /\ worker'[w].outcome = "sent" => CopiesOf(r)' > 0,
              worker'[w].pc = "closing" /\ worker'[w].outcome \in {"complete", "fail"} => Settled(r)'
       PROVE  OutcomesAreTrue'
  <2>1. /\ \A v \in Workers : v # w => worker'[v] = worker[v]
        /\ worker'[w].job = worker[w].job
    BY <1>5, <1>10 DEF WorkerStates
  <2>2. ReplyOf(w)' = r
    BY <1>10, <2>1 DEF ReplyOf
  <2>3. CopiesOf(ReplyOf(w))' = CopiesOf(r)' /\ (Settled(ReplyOf(w))' <=> Settled(r)')
    BY <2>2 DEF CopiesOf, Settled
  <2>4. True(w)'
    BY <1>10, <2>3 DEF True
  <2> QED BY <1>3, <2>1, <2>4
<1>11. ASSUME NEW w \in Workers, worker[w].pc # "idle"
       PROVE  \E r \in Replies : r = ReplyOf(w) /\ Accepted(r)
  BY <1>11, BusyWithAccepted
<1>13. ASSUME NEW w \in Workers, NEW taken \in BOOLEAN, Send(w, taken) PROVE OutcomesAreTrue'
  <2>1. PICK r \in Replies : r = ReplyOf(w) /\ Accepted(r)
    BY <1>11, <1>13 DEF Send
  <2>2. /\ worker' = [worker EXCEPT ![w].pc = worker'[w].pc, ![w].outcome = worker'[w].outcome]
        /\ worker[w].pc # "idle" /\ jobs' = jobs /\ worker'[w].pc = "answered"
        /\ worker'[w].outcome = "sent" => taken
    BY <1>5, <1>13 DEF Send, WorkerStates
  <2>3. taken => CopiesOf(r)' > 0
    <3>1. copies \in [Replies -> Seq(0 .. MaxResends)] /\ worker[w].text \in 0 .. MaxResends
      BY DEF WorkInv, RepliesTypeOK, WorkerStates
    <3>2. taken => copies' = [copies EXCEPT ![r] = Append(@, worker[w].text)]
      BY <1>13, <2>1 DEF Send, ReplyOf
    <3> QED BY <3>1, <3>2 DEF CopiesOf
  <2> QED BY <1>10, <2>1, <2>2, <2>3
<1>17. ASSUME NEW w \in Workers, AnswerIsLost(w) PROVE OutcomesAreTrue'
  <2>1. /\ \A v \in Workers : v # w => worker'[v] = worker[v]
        /\ worker'[w].pc = "answered" /\ worker'[w].outcome = "failed"
    BY <1>5, <1>17 DEF AnswerIsLost, WorkerStates
  <2>2. True(w)'
    BY <2>1 DEF True
  <2> QED BY <1>3, <2>1, <2>2
<1>14. ASSUME NEW w \in Workers, Record(w) PROVE OutcomesAreTrue'
  <2>1. PICK r \in Replies : r = ReplyOf(w) /\ Accepted(r)
    BY <1>11, <1>14 DEF Record
  <2>2. /\ worker' = [worker EXCEPT ![w].pc = worker'[w].pc, ![w].outcome = worker'[w].outcome]
        /\ worker[w].pc # "idle" /\ jobs' = jobs /\ worker'[w].pc = "closing"
    BY <1>5, <1>14 DEF Record, WorkerStates
  <2>3. worker[w].outcome \in {"sent", "failed"} /\ (worker[w].outcome = "sent" => CopiesOf(r) > 0)
    BY <1>0, <1>14, <2>1 DEF True, Record, WorkInv, WorkIsKnown, KnownWork
  <2>4. CASE worker[w].outcome = "sent"
    <3>1. Settled(r)'
      BY <2>3, <2>4, HistoryStep DEF Settled
    <3> QED BY <1>10, <2>1, <2>2, <3>1
  <2>5. CASE worker[w].outcome = "failed"
    <3>1. Settled(r)'
      BY <1>14, <2>1, <2>5 DEF Record, ReplyOf, Settled
    <3> QED BY <1>10, <2>1, <2>2, <3>1
  <2> QED BY <2>3, <2>4, <2>5
<1>15. ASSUME NEW w \in Workers, RecordFails(w) PROVE OutcomesAreTrue'
  <2>1. PICK r \in Replies : r = ReplyOf(w) /\ Accepted(r)
    BY <1>11, <1>15 DEF RecordFails
  <2>2. /\ worker' = [worker EXCEPT ![w].pc = worker'[w].pc, ![w].outcome = worker'[w].outcome]
        /\ worker[w].pc # "idle" /\ jobs' = jobs
        /\ \/ worker'[w].pc = "abandoning"
           \/ worker'[w].pc = "closing" /\ worker'[w].outcome = "release"
    BY <1>5, <1>15 DEF RecordFails, WorkerStates
  <2> QED BY <1>10, <2>1, <2>2
<1>16. ASSUME NEW w \in Workers, Abandon(w) PROVE OutcomesAreTrue'
  <2>1. PICK r \in Replies : r = ReplyOf(w) /\ Accepted(r)
    BY <1>11, <1>16 DEF Abandon
  <2>2. /\ worker' = [worker EXCEPT ![w].pc = worker'[w].pc, ![w].outcome = worker'[w].outcome]
        /\ worker[w].pc # "idle" /\ jobs' = jobs /\ worker'[w].pc = "closing"
    BY <1>5, <1>16 DEF Abandon, WorkerStates
  <2>3. CASE reply[r].status # "sending"
    <3>1. Settled(r)'
      BY <1>8, <2>1, <2>3, HistoryStep
    <3> QED BY <1>10, <2>1, <2>2, <3>1
  <2>4. CASE r \in failed' \cup unclosed'
    <3>1. Settled(r)'
      BY <2>4 DEF Settled
    <3> QED BY <1>10, <2>1, <2>2, <3>1
  <2>5. reply[r].status # "sending" \/ r \in failed' \cup unclosed'
    BY <1>16, <2>1 DEF Abandon, ReplyOf
  <2> QED BY <2>3, <2>4, <2>5
<1>12. ASSUME \/ \E r \in Replies : Accept(r)
              \/ \E s \in Senders, r \in Replies : BeginResend(s, r)
              \/ \E s \in Senders : EndResend(s)
              \/ \E w \in Workers : BecomeLeader(w) \/ Requeue(w)
              \/ \E j \in 1 .. MaxJobs : LeaseRunsOut(j) \/ LeaseIsOverrun(j)
              \/ LockIsLost \/ UNCHANGED replyVars
       PROVE  worker' = worker
  BY <1>12 DEF Accept, BeginResend, EndResend, BecomeLeader, Requeue, LeaseRunsOut, LeaseIsOverrun,
     LockIsLost, replyVars
<1> QED BY <1>4, <1>7, <1>9, <1>12, <1>13, <1>14, <1>15, <1>16, <1>17 DEF RepliesNext, WorkerStep

\* The open job of a reply that is not settled stays before the jobs of later ones.
LEMMA UnsettledStep ==
  ASSUME RepliesAssumption, WorkInv, OrderInv, [RepliesNext]_replyVars
  PROVE  UnsettledAreQueued'
<1> DEFINE First(q, i) == /\ jobs[i].reply = q /\ Open(i)
                          /\ \A j \in DOMAIN jobs : jobs[j].reply > q => i < j
<1> SUFFICES ASSUME NEW q \in Replies, Accepted(q)', ~Settled(q)'
             PROVE  \E i \in DOMAIN jobs' : First(q, i)'
  BY DEF UnsettledAreQueued
<1>1. ~Settled(q)
  BY HistoryStep
<1>2. Accepted(q) => \E i \in DOMAIN jobs : First(q, i)
  BY <1>1 DEF OrderInv, UnsettledAreQueued
<1>3. /\ DOMAIN jobs = 1 .. Len(jobs) /\ Len(jobs) \in Nat
      /\ \A j \in DOMAIN jobs : jobs[j].reply \in Replies /\ Accepted(jobs[j].reply)
  BY JobsType DEF WorkInv, JobRows, OrderInv, RowsTellWhatHappened
<1>4. Replies \subseteq Nat
  BY ReplyNumbers
<1>5. CASE Kept
  <2>1. Accepted(q)
    <3>1. CASE Accept(q)
      <4>1. jobs' = Enqueued(q) /\ Len(jobs) < MaxJobs
        BY <3>1 DEF Accept
      <4>2. \/ \E j \in DOMAIN jobs : jobs[j].reply = q
            \/ Len(jobs') = Len(jobs) + 1
        BY <4>1, EnqueuedJobs DEF WorkInv, Appended
      <4>3. Len(jobs') = Len(jobs)
        BY <1>5 DEF Kept
      <4>4. Len(jobs) \in Nat
        BY <1>3
      <4>5. Len(jobs') # Len(jobs) + 1
        BY <4>3, <4>4
      <4>6. PICK j \in DOMAIN jobs : jobs[j].reply = q
        BY <4>2, <4>5
      <4> QED BY <1>3, <4>6
    <3> QED BY <3>1, AcceptedStep
  <2>2. PICK i \in DOMAIN jobs : First(q, i)
    BY <1>2, <2>1
  <2>3. /\ jobs'[i].reply = q /\ Open(i)'
        /\ \A j \in DOMAIN jobs : jobs'[j].reply > q => i < j
    BY <1>1, <1>5, <2>2 DEF Kept
  <2> QED BY <1>5, <2>3 DEF Kept
<1>6. ASSUME NEW r \in Replies, Appended(r), Accepted(r)', ~Accepted(r) => Accept(r)
      PROVE  \E i \in DOMAIN jobs' : First(q, i)'
  <2>1. CASE Accepted(q)
    <3>1. PICK i \in DOMAIN jobs : First(q, i)
      BY <1>2, <2>1
    <3>2. /\ i \in DOMAIN jobs' /\ i < Len(jobs) + 1 /\ jobs'[i] = jobs[i]
          /\ \A j \in DOMAIN jobs' : j \notin DOMAIN jobs => j = Len(jobs) + 1
      BY <1>3, <1>6 DEF Appended
    <3>3. jobs'[i].reply = q /\ Open(i)'
      BY <3>1, <3>2 DEF Open
    <3>4. \A j \in DOMAIN jobs' : jobs'[j].reply > q => i < j
      BY <1>6, <3>1, <3>2 DEF Appended
    <3> QED BY <3>2, <3>3, <3>4
  <2>2. CASE ~Accepted(q)
    <3>1. Accept(q)
      BY <2>2, AcceptedStep
    <3>2. jobs'[Len(jobs) + 1].reply = q
      <4>1. jobs' = Enqueued(q) /\ Len(jobs) < MaxJobs
        BY <3>1 DEF Accept
      <4>2. jobs' = jobs \/ Appended(q)
        BY <4>1, EnqueuedJobs DEF WorkInv
      <4>3. jobs' # jobs
        BY <1>3, <1>6 DEF Appended
      <4> QED BY <4>2, <4>3 DEF Appended
    <3>3. \A j \in DOMAIN jobs : ~(jobs[j].reply > q)
      BY <1>3, <2>2 DEF OrderInv, RowsTellWhatHappened
    <3>4. PICK i \in DOMAIN jobs' : i = Len(jobs) + 1
      BY <1>3, <1>6 DEF Appended
    <3>5. jobs'[i].reply = q /\ jobs'[i].state = "queued"
      BY <1>6, <3>2, <3>4 DEF Appended
    <3>6. \A j \in DOMAIN jobs' : ~(jobs'[j].reply > q)
      BY <1>3, <1>4, <1>6, <3>2, <3>3 DEF Appended
    <3> QED BY <3>5, <3>6 DEF Open
  <2> QED BY <2>1, <2>2
<1> QED BY <1>5, <1>6, JobsStep

\* Whatever is earlier in the room of a job that may be claimed is settled.
LEMMA ClaimedInOrder ==
  ASSUME RepliesAssumption, WorkInv, OrderInv, NEW j \in Claimable
  PROVE  EarlierAreSettled(jobs[j].reply)
<1>1. /\ DOMAIN jobs = 1 .. Len(jobs) /\ Len(jobs) \in Nat
      /\ j \in DOMAIN jobs /\ jobs[j].reply \in Replies /\ Accepted(jobs[j].reply)
      /\ \A i \in 1 .. j - 1 : Open(i) => RoomOf[jobs[i].reply] # RoomOf[jobs[j].reply]
  BY JobsType DEF Claimable, WorkInv, JobRows, OrderInv, RowsTellWhatHappened
<1>2. PICK r \in Replies : r = jobs[j].reply
  BY <1>1
<1>3. Replies \subseteq Nat
  BY ReplyNumbers
<1>4. SUFFICES ASSUME NEW q \in Replies, q < r, RoomOf[q] = RoomOf[r], ~Settled(q)
               PROVE  FALSE
  BY <1>2 DEF EarlierAreSettled
<1>5. Accepted(q)
  BY <1>1, <1>2, <1>4 DEF OrderInv, RowsTellWhatHappened
<1>6. PICK i \in DOMAIN jobs : /\ jobs[i].reply = q /\ Open(i)
                               /\ \A k \in DOMAIN jobs : jobs[k].reply > q => i < k
  BY <1>4, <1>5 DEF OrderInv, UnsettledAreQueued
<1>7. i < j
  BY <1>1, <1>2, <1>3, <1>4, <1>6
<1>8. i \in 1 .. j - 1
  BY <1>1, <1>7
<1> QED BY <1>1, <1>2, <1>4, <1>6, <1>8

\* What is settled stays settled.
LEMMA EarlierStaySettled ==
  ASSUME RepliesAssumption, WorkInv, [RepliesNext]_replyVars, NEW r, EarlierAreSettled(r)
  PROVE  EarlierAreSettled(r)'
  BY HistoryStep DEF EarlierAreSettled

\* Claims and deliveries keep the order of their room.
LEMMA StartedStep ==
  ASSUME RepliesAssumption, WorkInv, OrderInv, [RepliesNext]_replyVars
  PROVE  StartedInOrder' /\ SentInOrder'
<1>1. ASSUME NEW j \in DOMAIN jobs', jobs'[j].attempt > 0, NEW r, r = jobs'[j].reply
      PROVE  EarlierAreSettled(r)'
  <2>1. j \in DOMAIN jobs /\ jobs[j].reply = r /\ (jobs[j].attempt > 0 \/ j \in Claimable)
    <3>1. CASE Kept
      BY <1>1, <3>1 DEF Kept
    <3>2. ASSUME NEW q \in Replies, Appended(q) PROVE j \in DOMAIN jobs /\ jobs'[j] = jobs[j]
      BY <1>1, <3>2, JobsType DEF Appended, WorkInv
    <3> QED BY <1>1, <3>1, <3>2, JobsStep
  <2>2. EarlierAreSettled(r)
    <3>1. CASE jobs[j].attempt > 0
      BY <2>1, <3>1 DEF OrderInv, StartedInOrder
    <3>2. CASE j \in Claimable
      BY <2>1, <3>2, ClaimedInOrder
    <3> QED BY <2>1, <3>1, <3>2
  <2> QED BY <2>2, EarlierStaySettled
<1>2. ASSUME NEW r \in Replies, CopiesOf(r)' > 0 PROVE EarlierAreSettled(r)'
  <2>1. EarlierAreSettled(r)
    <3>1. CASE CopiesOf(r) > 0
      BY <3>1 DEF OrderInv, SentInOrder
    <3>2. ASSUME NEW w \in Workers, worker[w].pc = "sending", ReplyOf(w) = r PROVE EarlierAreSettled(r)
      <4>1. worker[w].job \in DOMAIN jobs /\ jobs[worker[w].job].attempt > 0
        BY <3>2, AboutAReply DEF WorkInv
      <4> QED BY <3>2, <4>1 DEF OrderInv, StartedInOrder, ReplyOf
    <3> QED BY <1>2, <3>1, <3>2, HistoryStep
  <2> QED BY <2>1, EarlierStaySettled
<1>3. StartedInOrder'
  <2>1. SUFFICES ASSUME NEW j \in DOMAIN jobs', jobs'[j].attempt > 0
                 PROVE  \A q \in Replies :
                            q < jobs'[j].reply /\ RoomOf[q] = RoomOf[jobs'[j].reply] => Settled(q)'
    BY DEF StartedInOrder, EarlierAreSettled
  <2>2. PICK r : r = jobs'[j].reply
    OBVIOUS
  <2> QED BY <1>1, <2>1, <2>2 DEF EarlierAreSettled
<1> QED BY <1>2, <1>3 DEF SentInOrder

\* The order holds at first.
LEMMA OrderInit == RepliesAssumption /\ RepliesInit => OrderInv
<1> SUFFICES ASSUME RepliesAssumption, RepliesInit PROVE OrderInv
  OBVIOUS
<1>1. DOMAIN jobs = {} /\ \A r \in Replies : ~Settled(r) /\ ~Accepted(r) /\ ~(CopiesOf(r) > 0)
  BY DEF RepliesInit, Settled, Accepted, CopiesOf
<1>2. RowsTellWhatHappened
  BY <1>1 DEF RepliesInit, RowsTellWhatHappened, Accepted
<1>3. OutcomesAreTrue
  BY DEF RepliesInit, OutcomesAreTrue, NoWork
<1> QED BY <1>1, <1>2, <1>3 DEF OrderInv, UnsettledAreQueued, StartedInOrder, SentInOrder

\* No step of the system disturbs the order.
LEMMA OrderStep ==
  ASSUME RepliesAssumption, WorkInv, OrderInv, [RepliesNext]_replyVars
  PROVE  OrderInv'
  BY WorkStep, RowsTellStep, OutcomesStep, UnsettledStep, StartedStep DEF OrderInv

\* The invariant of the order, for every number of replies, workers, requests and faults.
LEMMA OrderInvariance == ASSUME RepliesAssumption PROVE RepliesSpec => [](WorkInv /\ OrderInv)
<1>1. RepliesInit => WorkInv /\ OrderInv
  BY WorkInit, OrderInit
<1>2. WorkInv /\ OrderInv /\ [RepliesNext]_replyVars => WorkInv' /\ OrderInv'
  BY WorkStep, OrderStep
<1> QED BY <1>1, <1>2, PTL DEF RepliesSpec

\* RepliesTypeOK of external_replies: rows, jobs, workers, requests and texts keep their types, and
\* what counts as a bound in Accept, BeginResend and the faults is never passed.
THEOREM RepliesKeepTheirTypes ==
  ASSUME RepliesAssumption PROVE RepliesSpec => []RepliesTypeOK
<1>1. WorkInv => RepliesTypeOK
  BY DEF WorkInv
<1> QED BY <1>1, OrderInvariance, PTL

\* RepliesLeaveInOrder of external_replies (_queue_reply): no reply of a room overtakes an
\* earlier one that is neither sent, nor was failed, nor given up without being closed,
\* whoever leads, whoever crashes and however many requests send again.
THEOREM RepliesKeepTheirOrder ==
  ASSUME RepliesAssumption PROVE RepliesSpec => []RepliesLeaveInOrder
<1>1. OrderInv => RepliesLeaveInOrder
  BY DEF OrderInv, SentInOrder, EarlierAreSettled, Settled, RepliesLeaveInOrder
<1> QED BY <1>1, OrderInvariance, PTL

-----------------------------------------------------------------------------
(* The copies of a reply, while no connection of a leader broke.           *)

\* Whoever is about something is the leader, so there is one such worker.
LEMMA OnlyOneWorks ==
  ASSUME WorkInv, Undisturbed, NEW v \in Workers, NEW w \in Workers,
         worker[v].pc # "idle", worker[w].pc # "idle" \/ worker[w].batch # {}
  PROVE  v = w
  BY DEF WorkInv, WorkIsKnown, KnownWork, Undisturbed, OneLeader

\* The lock is with the only worker that runs its loop.
LEMMA LeaderStep ==
  ASSUME RepliesAssumption, WorkInv, Undisturbed, [RepliesNext]_replyVars, broken' = broken
  PROVE  OneLeader'
<1>0. /\ leading \subseteq Workers /\ leading \subseteq {lock} /\ Nobody \notin Workers
      /\ worker \in [Workers -> WorkerStates]
      /\ \A w \in Workers : worker[w].batch # {} => w \in leading
  BY DEF RepliesAssumption, Nobody, WorkInv, RepliesTypeOK, Undisturbed, OneLeader
<1>1. CASE UNCHANGED <<leading, lock, worker>>
  BY <1>0, <1>1 DEF OneLeader
<1>2. ASSUME NEW w \in Workers, BecomeLeader(w) PROVE OneLeader'
  BY <1>0, <1>2 DEF BecomeLeader, OneLeader
<1>3. ASSUME NEW w \in Workers, Crash(w) PROVE OneLeader'
  BY <1>0, <1>3 DEF Crash, OneLeader, NoWork
<1>4. ASSUME NEW w \in Workers, WorkerStep(w) PROVE OneLeader'
  <2>1. leading' = leading /\ lock' = lock
    BY <1>4 DEF WorkerStep, Claim, Begin, Send, AnswerIsLost, Record, RecordFails, Abandon, Close
  <2>2. \A v \in Workers : v # w => worker'[v] = worker[v]
    BY <1>0, <1>4 DEF WorkerStep, Claim, Begin, Send, AnswerIsLost, Record, RecordFails, Abandon, Close
  <2>3. w \in leading
    <3>1. CASE Claim(w)
      BY <3>1 DEF Claim, Idle
    <3>2. CASE ~Claim(w)
      <4>1. worker[w].batch # {}
        BY <1>4, <3>2 DEF WorkerStep, Send, AnswerIsLost, Record, RecordFails, Abandon, Close, WorkInv,
           WorkIsKnown, KnownWork
      <4> QED BY <1>0, <4>1
    <3> QED BY <3>1, <3>2
  <2> QED BY <1>0, <2>1, <2>2, <2>3 DEF OneLeader
<1>5. ~LockIsLost
  BY DEF LockIsLost, WorkInv, RepliesTypeOK
<1>6. ASSUME \/ \E r \in Replies : Accept(r)
             \/ \E s \in Senders, r \in Replies : BeginResend(s, r)
             \/ \E s \in Senders : EndResend(s)
             \/ \E w \in Workers : Requeue(w)
             \/ \E j \in 1 .. MaxJobs : LeaseRunsOut(j) \/ LeaseIsOverrun(j)
             \/ UNCHANGED replyVars
      PROVE  UNCHANGED <<leading, lock, worker>>
  BY <1>6 DEF Accept, BeginResend, EndResend, Requeue, LeaseRunsOut, LeaseIsOverrun, replyVars
<1> QED BY <1>1, <1>2, <1>3, <1>4, <1>5, <1>6 DEF RepliesNext

\* What becomes of a row, of a worker and of the texts that were sent.
RowChanges(r) ==
    \/ reply'[r] = reply[r]
    \/ reply[r].status = "none" /\ reply'[r].status = "sending"
    \/ /\ reply[r].status = "failed" /\ reply'[r].status = "sending"
       /\ \E s \in Senders : resend[s] = r /\ resend'[s] = 0
    \/ /\ reply[r].status = "sending"
       /\ \E w \in Workers : /\ ReplyOf(w) = r
                            /\ \/ Record(w) /\ reply'[r] = [reply[r] EXCEPT !.status = worker[w].outcome]
                               \/ Abandon(w) /\ reply'[r].status = "failed"

\* While undisturbed, a row that is being sent is touched by its worker only.
LEMMA RowChangesStep ==
  ASSUME RepliesAssumption, WorkInv, Undisturbed, [RepliesNext]_replyVars, NEW r \in Replies
  PROVE  RowChanges(r)
<1>0. /\ reply \in [Replies -> [status : Statuses, text : 0 .. MaxResends]]
      /\ resend \in [Senders -> Replies \cup {0}]
  BY DEF WorkInv, RepliesTypeOK
<1>1. ASSUME NEW q \in Replies, Accept(q) PROVE RowChanges(r)
  <2>1. CASE q = r
    BY <1>0, <1>1, <2>1 DEF RowChanges, Accept
  <2>2. CASE q # r
    BY <1>0, <1>1, <2>2 DEF RowChanges, Accept
  <2> QED BY <2>1, <2>2
<1>2. ASSUME NEW s \in Senders, EndResend(s) PROVE RowChanges(r)
  <2>1. CASE resend[s] = r
    <3>1. reply[r].status = "failed"
      BY <1>2, <2>1 DEF EndResend, Undisturbed, ResendsWhatFailed
    <3>2. reply'[r].status = "sending" /\ resend'[s] = 0
      BY <1>0, <1>2, <2>1 DEF EndResend
    <3> QED BY <2>1, <3>1, <3>2 DEF RowChanges
  <2>2. CASE resend[s] # r
    BY <1>0, <1>2, <2>2 DEF RowChanges, EndResend
  <2> QED BY <2>1, <2>2
<1>3. ASSUME NEW w \in Workers, Record(w) PROVE RowChanges(r)
  <2>1. CASE ReplyOf(w) = r
    <3>1. reply[r].status = "sending"
      BY <1>3, <2>1 DEF Record, Undisturbed, SendsWhatIsToBeSent
    <3>2. reply'[r] = [reply[r] EXCEPT !.status = worker[w].outcome]
      BY <1>0, <1>3, <2>1 DEF Record, ReplyOf
    <3> QED BY <1>3, <2>1, <3>1, <3>2 DEF RowChanges
  <2>2. CASE ReplyOf(w) # r
    <3>1. reply'[r] = reply[r]
      BY <1>0, <1>3, <2>2 DEF Record, ReplyOf
    <3> QED BY <3>1 DEF RowChanges
  <2> QED BY <2>1, <2>2
<1>4. ASSUME NEW w \in Workers, Abandon(w) PROVE RowChanges(r)
  <2>1. CASE reply' = reply
    BY <2>1 DEF RowChanges
  <2>2. CASE reply[ReplyOf(w)].status = "sending" /\ reply' = [reply EXCEPT ![ReplyOf(w)].status = "failed"]
    <3>1. CASE ReplyOf(w) = r
      BY <1>0, <1>4, <2>2, <3>1 DEF RowChanges
    <3>2. CASE ReplyOf(w) # r
      <4>1. reply'[r] = reply[r]
        BY <1>0, <2>2, <3>2
      <4> QED BY <4>1 DEF RowChanges
    <3> QED BY <3>1, <3>2
  <2> QED BY <1>4, <2>1, <2>2 DEF Abandon, ReplyOf
<1>5. CASE reply' = reply
  BY <1>5 DEF RowChanges
<1>6. ASSUME NEW w \in Workers, WorkerStep(w), ~Record(w), ~Abandon(w) PROVE reply' = reply
  BY <1>6 DEF WorkerStep, Claim, Begin, Send, AnswerIsLost, RecordFails, Close
<1>7. ASSUME \/ \E s \in Senders, q \in Replies : BeginResend(s, q)
             \/ \E w \in Workers : BecomeLeader(w) \/ Crash(w) \/ Requeue(w)
             \/ \E j \in 1 .. MaxJobs : LeaseRunsOut(j) \/ LeaseIsOverrun(j)
             \/ LockIsLost \/ UNCHANGED replyVars
      PROVE  reply' = reply
  BY <1>7 DEF BeginResend, BecomeLeader, Crash, Requeue, LeaseRunsOut, LeaseIsOverrun, LockIsLost,
     replyVars
<1> QED BY <1>1, <1>2, <1>3, <1>4, <1>5, <1>6, <1>7 DEF RepliesNext

\* A worker is changed by its own steps.
LEMMA WorkerChangesStep ==
  ASSUME WorkInv, [RepliesNext]_replyVars, NEW w \in Workers
  PROVE  worker'[w] = worker[w] \/ WorkerStep(w) \/ Crash(w)
<1>0. worker \in [Workers -> WorkerStates]
  BY DEF WorkInv, RepliesTypeOK
<1>1. ASSUME NEW v \in Workers, v # w, WorkerStep(v) \/ Crash(v) PROVE worker'[w] = worker[w]
  BY <1>0, <1>1 DEF WorkerStep, Claim, Begin, Send, AnswerIsLost, Record, RecordFails, Abandon, Close, Crash
<1>2. ASSUME \/ \E r \in Replies : Accept(r)
             \/ \E s \in Senders, r \in Replies : BeginResend(s, r)
             \/ \E s \in Senders : EndResend(s)
             \/ \E v \in Workers : BecomeLeader(v) \/ Requeue(v)
             \/ \E j \in 1 .. MaxJobs : LeaseRunsOut(j) \/ LeaseIsOverrun(j)
             \/ LockIsLost \/ UNCHANGED replyVars
      PROVE  worker' = worker
  BY <1>2 DEF Accept, BeginResend, EndResend, BecomeLeader, Requeue, LeaseRunsOut, LeaseIsOverrun,
     LockIsLost, replyVars
<1> QED BY <1>1, <1>2 DEF RepliesNext

\* A text leaves, whether its answer comes back or not.
Leaves(w) == Send(w, TRUE) \/ AnswerIsLost(w)

\* Texts that left stay on record, and only a call adds one.
LEMMA CopiesStep ==
  ASSUME WorkInv, [RepliesNext]_replyVars, NEW r \in Replies
  PROVE  /\ \/ copies'[r] = copies[r]
            \/ \E w \in Workers : /\ Leaves(w) /\ ReplyOf(w) = r
                                 /\ copies'[r] = Append(copies[r], worker[w].text)
         /\ \A i \in DOMAIN copies[r] : i \in DOMAIN copies'[r] /\ copies'[r][i] = copies[r][i]
<1>0. copies \in [Replies -> Seq(0 .. MaxResends)]
  BY DEF WorkInv, RepliesTypeOK
<1>1. \/ copies' = copies
      \/ \E w \in Workers : /\ Leaves(w)
                           /\ copies' = [copies EXCEPT ![ReplyOf(w)] = Append(@, worker[w].text)]
  BY DEF RepliesNext, replyVars, Accept, BeginResend, EndResend, BecomeLeader, WorkerStep, Claim,
     Begin, Record,
         RecordFails, Abandon, Close, Requeue, LeaseRunsOut, LeaseIsOverrun, Crash, LockIsLost, Send,
     AnswerIsLost, Leaves, ReplyOf
<1>2. ASSUME NEW w \in Workers, Leaves(w),
             copies' = [copies EXCEPT ![ReplyOf(w)] = Append(@, worker[w].text)]
      PROVE  copies'[r] = copies[r] \/ (ReplyOf(w) = r /\ copies'[r] = Append(copies[r], worker[w].text))
  BY <1>0, <1>2
<1>3. ASSUME NEW w \in Workers, copies'[r] = Append(copies[r], worker[w].text)
      PROVE  \A i \in DOMAIN copies[r] : i \in DOMAIN copies'[r] /\ copies'[r][i] = copies[r][i]
  <2>1. copies[r] \in Seq(0 .. MaxResends) /\ worker[w].text \in 0 .. MaxResends
    BY <1>0 DEF WorkInv, RepliesTypeOK, WorkerStates
  <2> QED BY <1>3, <2>1
<1> QED BY <1>1, <1>2, <1>3

\* A busy worker is about the same reply after the step.
LEMMA SameReply ==
  ASSUME RepliesAssumption, WorkInv, [RepliesNext]_replyVars, NEW w \in Workers, worker[w].pc # "idle",
         worker'[w].job = worker[w].job
  PROVE  ReplyOf(w)' = ReplyOf(w) /\ ReplyOf(w) \in Replies
<1>1. Grows
  BY WorkStep
<1>2. worker[w].job \in DOMAIN jobs /\ ReplyOf(w) \in Replies
  BY AboutAReply DEF WorkInv
<1> QED BY <1>1, <1>2 DEF Grows, ReplyOf

\* What a worker sends stays to be sent until it records the outcome.
LEMMA SendsStep ==
  ASSUME RepliesAssumption, WorkInv, Undisturbed, [RepliesNext]_replyVars
  PROVE  SendsWhatIsToBeSent'
<1> DEFINE Sends(w) ==
      /\ worker[w].pc \in {"sending", "answered"} => reply[ReplyOf(w)].status = "sending"
      /\ worker[w].pc = "sending" => worker[w].text = reply[ReplyOf(w)].text
      /\ worker[w].pc = "answered" /\ worker[w].outcome = "sent" =>
             \E i \in DOMAIN copies[ReplyOf(w)] : copies[ReplyOf(w)][i] = reply[ReplyOf(w)].text
<1> SUFFICES ASSUME NEW w \in Workers PROVE Sends(w)'
  BY DEF SendsWhatIsToBeSent
<1>0. worker \in [Workers -> WorkerStates] /\ Sends(w)
  BY DEF WorkInv, RepliesTypeOK, Undisturbed, SendsWhatIsToBeSent
<1>1. CASE worker'[w].pc \notin {"sending", "answered"}
  BY <1>1
<1>2. CASE worker'[w] = worker[w] /\ worker[w].pc \in {"sending", "answered"}
  <2>1. PICK r \in Replies : r = ReplyOf(w) /\ r = ReplyOf(w)'
    BY <1>2, SameReply
  <2>2. reply'[r] = reply[r]
    <3>1. ASSUME NEW v \in Workers, Record(v) \/ Abandon(v) PROVE FALSE
      <4>1. worker[v].pc \in {"answered", "abandoning"} /\ worker'[v].pc = "closing"
        BY <1>0, <3>1 DEF Record, Abandon, WorkerStates
      <4>2. v = w
        BY <1>2, <4>1, OnlyOneWorks
      <4> QED BY <1>2, <4>1, <4>2
    <3>2. reply[r].status = "sending"
      BY <1>0, <1>2, <2>1
    <3> QED BY <3>1, <3>2, RowChangesStep DEF RowChanges
  <2>3. \A i \in DOMAIN copies[r] : i \in DOMAIN copies'[r] /\ copies'[r][i] = copies[r][i]
    BY CopiesStep
  <2> QED BY <1>0, <1>2, <2>1, <2>2, <2>3
<1>3. ASSUME NEW c \in worker[w].batch, Begin(w, c) PROVE Sends(w)'
  <2>1. PICK r : r = jobs[c[1]].reply
    OBVIOUS
  <2>2. reply' = reply /\ jobs' = jobs
    BY <1>3 DEF Begin
  <2>3. \/ worker'[w].pc = "closing"
        \/ /\ worker'[w].pc = "sending" /\ worker'[w].job = c[1]
           /\ worker'[w].text = reply[r].text /\ reply[r].status = "sending"
        \/ /\ worker'[w].pc = "answered" /\ worker'[w].job = c[1]
           /\ worker'[w].outcome = "failed" /\ reply[r].status = "sending"
    BY <1>0, <1>3, <2>1 DEF Begin, WorkerStates
  <2> QED BY <2>1, <2>2, <2>3 DEF ReplyOf
<1>4. ASSUME NEW taken \in BOOLEAN, Send(w, taken) PROVE Sends(w)'
  <2>1. /\ worker[w].pc = "sending" /\ worker'[w].job = worker[w].job /\ worker'[w].pc = "answered"
        /\ worker'[w].outcome = "sent" => taken
        /\ reply' = reply
    BY <1>0, <1>4 DEF Send, WorkerStates
  <2>2. PICK r \in Replies : r = ReplyOf(w) /\ r = ReplyOf(w)'
    BY <2>1, SameReply
  <2>3. reply[r].status = "sending" /\ worker[w].text = reply[r].text
    BY <1>0, <2>1, <2>2
  <2>4. taken => \E i \in DOMAIN copies'[r] : copies'[r][i] = reply[r].text
    <3>1. taken => copies'[r] = Append(copies[r], worker[w].text)
      BY <1>4, <2>2 DEF Send, ReplyOf, WorkInv, RepliesTypeOK
    <3>2. copies[r] \in Seq(0 .. MaxResends) /\ worker[w].text \in 0 .. MaxResends
      BY <1>0 DEF WorkInv, RepliesTypeOK, WorkerStates
    <3> DEFINE sent == Append(copies[r], worker[w].text)
    <3>3. Len(copies[r]) + 1 \in DOMAIN sent /\ sent[Len(copies[r]) + 1] = worker[w].text
      BY <3>2
    <3> QED BY <2>3, <3>1, <3>3
  <2> QED BY <2>1, <2>2, <2>3, <2>4
<1>5. worker'[w].pc \in {"sending", "answered"} =>
        \/ worker'[w] = worker[w]
        \/ \E c \in worker[w].batch : Begin(w, c)
        \/ (\E taken \in BOOLEAN : Send(w, taken)) \/ AnswerIsLost(w)
  <2>1. (\/ Claim(w) \/ Record(w) \/ RecordFails(w)
         \/ Abandon(w) \/ Close(w) \/ Crash(w))
        => worker'[w].pc \notin {"sending", "answered"}
    BY <1>0 DEF Claim, Idle, Record, RecordFails, Abandon, Close, Crash, NoWork, WorkerStates
  <2> QED BY <2>1, WorkerChangesStep DEF WorkerStep
<1>6. CASE AnswerIsLost(w)
  <2>1. /\ worker[w].pc = "sending" /\ worker'[w].job = worker[w].job
        /\ worker'[w].pc = "answered" /\ worker'[w].outcome = "failed"
        /\ reply' = reply
    BY <1>0, <1>6 DEF AnswerIsLost, WorkerStates
  <2>2. PICK r \in Replies : r = ReplyOf(w) /\ r = ReplyOf(w)'
    BY <2>1, SameReply
  <2> QED BY <1>0, <2>1, <2>2
<1> QED BY <1>1, <1>2, <1>3, <1>4, <1>5, <1>6

\* What is to be sent again stays failed until it is.
LEMMA ResendsStep ==
  ASSUME RepliesAssumption, OneSender, WorkInv, Undisturbed, [RepliesNext]_replyVars
  PROVE  ResendsWhatFailed'
<1> SUFFICES ASSUME NEW s \in Senders, resend'[s] # 0
             PROVE  reply'[resend'[s]].status = "failed"
  BY DEF ResendsWhatFailed
<1>1. CASE resend'[s] = resend[s]
  <2>1. PICK r \in Replies : r = resend[s] /\ reply[r].status = "failed"
    BY <1>1 DEF WorkInv, RepliesTypeOK, Undisturbed, ResendsWhatFailed
  <2>2. ~ \E t \in Senders : resend[t] = r /\ resend'[t] = 0
    BY DEF OneSender
  <2>3. reply'[r] = reply[r]
    BY <2>1, <2>2, RowChangesStep DEF RowChanges
  <2> QED BY <1>1, <2>1, <2>3
<1>2. CASE \E r \in Replies : reply[r].status = "failed" /\ resend'[s] = r /\ reply' = reply
  BY <1>2
<1>3. \/ resend'[s] = resend[s]
      \/ resend'[s] = 0
      \/ \E r \in Replies : reply[r].status = "failed" /\ resend'[s] = r /\ reply' = reply
  BY DEF RepliesNext, replyVars, Accept, BeginResend, EndResend, BecomeLeader, WorkerStep, Claim,
     Begin, Send, AnswerIsLost, Record,
         RecordFails, Abandon, Close, Requeue, LeaseRunsOut, LeaseIsOverrun, Crash, LockIsLost, WorkInv, RepliesTypeOK
<1> QED BY <1>1, <1>2, <1>3

\* A row becomes sent by an outcome of its own text.
LEMMA ShownStep ==
  ASSUME RepliesAssumption, WorkInv, Undisturbed, [RepliesNext]_replyVars
  PROVE  SentAsShown'
<1> SUFFICES ASSUME NEW r \in Replies, reply'[r].status = "sent"
             PROVE  \E i \in DOMAIN copies'[r] : copies'[r][i] = reply'[r].text
  BY DEF SentAsShown
<1>1. SUFFICES \E i \in DOMAIN copies[r] : copies[r][i] = reply'[r].text
  BY CopiesStep
<1>2. CASE reply'[r] = reply[r]
  BY <1>2 DEF Undisturbed, SentAsShown
<1>3. ASSUME NEW w \in Workers, ReplyOf(w) = r, Record(w),
             reply'[r] = [reply[r] EXCEPT !.status = worker[w].outcome]
      PROVE  \E i \in DOMAIN copies[r] : copies[r][i] = reply'[r].text
  <2>1. reply[r] \in [status : Statuses, text : 0 .. MaxResends]
    BY DEF WorkInv, RepliesTypeOK
  <2>2. worker[w].outcome = "sent" /\ reply'[r].text = reply[r].text
    BY <1>3, <2>1
  <2>3. worker[w].pc = "answered"
    BY <1>3 DEF Record
  <2> QED BY <1>3, <2>2, <2>3 DEF Undisturbed, SendsWhatIsToBeSent
<1> QED BY <1>2, <1>3, RowChangesStep DEF RowChanges

\* A fault is all that can take the record of a delivery away.
LEMMA DeliveredStays ==
  ASSUME RepliesAssumption, WorkInv, Undisturbed, [RepliesNext]_replyVars, faults' = faults,
         NEW r \in Replies, Delivered(r)
  PROVE  Delivered(r)'
<1>0. /\ worker \in [Workers -> WorkerStates]
      /\ reply \in [Replies -> [status : Statuses, text : 0 .. MaxResends]] /\ faults \in Nat
  BY DEF WorkInv, RepliesTypeOK
<1>1. CASE reply[r].status = "sent"
  <2>1. reply'[r] = reply[r]
    BY <1>1, RowChangesStep DEF RowChanges
  <2> QED BY <1>1, <2>1 DEF Delivered
<1>2. ASSUME NEW w \in Workers, worker[w].pc = "answered", worker[w].outcome = "sent", ReplyOf(w) = r
      PROVE  Delivered(r)'
  <2>1. CASE worker'[w] = worker[w]
    <3>1. ReplyOf(w)' = r
      BY <1>2, <2>1, SameReply
    <3> QED BY <1>2, <2>1, <3>1 DEF Delivered
  <2>2. CASE Record(w)
    <3>1. reply'[r].status = "sent"
      BY <1>0, <1>2, <2>2 DEF Record, ReplyOf
    <3> QED BY <3>1 DEF Delivered
  <2>3. ~Claim(w) /\ ~Close(w) /\ ~Abandon(w) /\ ~RecordFails(w) /\ ~Crash(w)
    BY <1>0, <1>2 DEF Claim, Idle, Close, Abandon, RecordFails, Crash
  <2>4. /\ ~ \E c \in worker[w].batch : Begin(w, c)
        /\ ~ \E taken \in BOOLEAN : Send(w, taken)
        /\ ~AnswerIsLost(w)
    BY <1>2 DEF Begin, Send, AnswerIsLost
  <2> QED BY <2>1, <2>2, <2>3, <2>4, WorkerChangesStep DEF WorkerStep
<1> QED BY <1>1, <1>2 DEF Delivered

\* A copy is added for a reply that has no delivery on record.
LEMMA PaidStep ==
  ASSUME RepliesAssumption, WorkInv, Undisturbed, [RepliesNext]_replyVars
  PROVE  CopiesArePaidFor'
<1> SUFFICES ASSUME NEW r \in Replies
             PROVE  Len(copies'[r]) <= IF Delivered(r)' THEN faults' + 1 ELSE faults'
  BY DEF CopiesArePaidFor, CopiesOf
<1>0. /\ copies[r] \in Seq(0 .. MaxResends) /\ Len(copies[r]) \in Nat /\ faults \in Nat
      /\ worker \in [Workers -> WorkerStates]
  BY DEF WorkInv, RepliesTypeOK
<1>1. /\ Len(copies[r]) <= faults + 1
      /\ ~Delivered(r) => Len(copies[r]) <= faults
  BY <1>0 DEF Undisturbed, CopiesArePaidFor, CopiesOf
<1>2. \/ faults' = faults
      \/ faults' = faults + 1 /\ copies' = copies
      \/ \E w \in Workers : AnswerIsLost(w)
  BY DEF RepliesNext, replyVars, Accept, BeginResend, EndResend, BecomeLeader, WorkerStep, Claim,
     Begin, Send, AnswerIsLost, Record,
         RecordFails, Abandon, Close, Requeue, LeaseRunsOut, LeaseIsOverrun, Crash, LockIsLost
<1>3. CASE faults' = faults + 1 /\ copies' = copies
  BY <1>0, <1>1, <1>3
<1>4. CASE faults' = faults /\ copies'[r] = copies[r]
  <2>1. Delivered(r) => Delivered(r)'
    BY <1>4, DeliveredStays
  <2> QED BY <1>0, <1>1, <1>4, <2>1
\* Whose text leaves has no delivery on record, so every copy so far is paid for.
<1>5. ASSUME NEW w \in Workers, Leaves(w), ReplyOf(w) = r,
             copies'[r] = Append(copies[r], worker[w].text)
      PROVE  Len(copies'[r]) <= faults + 1
  <2>1. worker[w].pc = "sending" /\ worker[w].text \in 0 .. MaxResends
    BY <1>0, <1>5 DEF Leaves, Send, AnswerIsLost, WorkerStates
  <2>2. ~Delivered(r)
    <3>1. reply[r].status = "sending"
      BY <1>5, <2>1 DEF Undisturbed, SendsWhatIsToBeSent
    <3>2. \A v \in Workers : worker[v].pc = "answered" => v = w
      BY <2>1, OnlyOneWorks
    <3> QED BY <2>1, <3>1, <3>2 DEF Delivered
  <2>3. Len(copies'[r]) = Len(copies[r]) + 1
    BY <1>0, <1>5, <2>1
  <2> QED BY <1>0, <1>1, <2>2, <2>3
\* An answer that comes back puts the delivery on record.
<1>6. ASSUME NEW w \in Workers, Send(w, TRUE), ReplyOf(w) = r
      PROVE  Delivered(r)' /\ faults' = faults
  <2>1. /\ worker[w].pc = "sending" /\ worker'[w].pc = "answered" /\ worker'[w].outcome = "sent"
        /\ worker'[w].job = worker[w].job /\ faults' = faults
    BY <1>0, <1>6 DEF Send, WorkerStates
  <2>2. ReplyOf(w)' = r
    BY <1>6, <2>1, SameReply
  <2> QED BY <2>1, <2>2 DEF Delivered
\* One that is lost is a fault.
<1>7. ASSUME NEW w \in Workers, AnswerIsLost(w)
      PROVE  faults' = faults + 1 /\ Len(copies'[r]) <= faults + 1
  <2>1. /\ faults' = faults + 1
        /\ copies' = [copies EXCEPT ![ReplyOf(w)] = Append(@, worker[w].text)]
    BY <1>7 DEF AnswerIsLost, ReplyOf
  <2>2. CASE ReplyOf(w) = r
    <3>1. copies'[r] = Append(copies[r], worker[w].text)
      BY <2>1, <2>2 DEF WorkInv, RepliesTypeOK
    <3> QED BY <1>5, <1>7, <2>1, <2>2, <3>1 DEF Leaves
  <2>3. CASE ReplyOf(w) # r
    BY <1>1, <2>1, <2>3
  <2> QED BY <2>1, <2>2, <2>3
<1>8. ASSUME NEW w \in Workers, Leaves(w), ReplyOf(w) = r,
             copies'[r] = Append(copies[r], worker[w].text)
      PROVE  Len(copies'[r]) <= IF Delivered(r)' THEN faults' + 1 ELSE faults'
  <2>1. CASE Send(w, TRUE)
    BY <1>5, <1>6, <1>8, <2>1
  <2>2. CASE AnswerIsLost(w)
    <3>1. faults' = faults + 1 /\ Len(copies'[r]) <= faults + 1 /\ Len(copies'[r]) \in Nat
      <4>1. copies'[r] \in Seq(0 .. MaxResends)
        BY WorkStep DEF WorkInv, RepliesTypeOK
      <4> QED BY <1>7, <2>2, <4>1
    <3> QED BY <1>0, <3>1
  <2> QED BY <1>8, <2>1, <2>2 DEF Leaves
<1>9. ASSUME NEW w \in Workers, AnswerIsLost(w)
      PROVE  Len(copies'[r]) <= IF Delivered(r)' THEN faults' + 1 ELSE faults'
  <2>1. Len(copies'[r]) \in Nat
    <3>1. copies'[r] \in Seq(0 .. MaxResends)
      BY WorkStep DEF WorkInv, RepliesTypeOK
    <3> QED BY <3>1
  <2> QED BY <1>0, <1>7, <1>9, <2>1
<1> QED BY <1>2, <1>3, <1>4, <1>8, <1>9, CopiesStep

\* A break of the leader's connection is for good, and nothing else disturbs.
LEMMA UndisturbedStep ==
  ASSUME RepliesAssumption, OneSender, WorkInv, [RepliesNext]_replyVars, UndisturbedSoFar
  PROVE  UndisturbedSoFar'
<1>1. SUFFICES ASSUME broken' = 0 PROVE Undisturbed'
  BY DEF UndisturbedSoFar
<1>2. broken \in Nat /\ faults \in Nat
  BY DEF WorkInv, RepliesTypeOK
<1>3. broken' = broken \/ broken' = broken + 1
  BY DEF RepliesNext, replyVars, Accept, BeginResend, EndResend, BecomeLeader, WorkerStep, Claim,
     Begin, Send, AnswerIsLost,
         Record, RecordFails, Abandon, Close, Requeue, LeaseRunsOut, LeaseIsOverrun, Crash, LockIsLost
<1>4. broken' = broken /\ Undisturbed
  BY <1>1, <1>2, <1>3 DEF UndisturbedSoFar
<1> QED BY <1>4, LeaderStep, SendsStep, ResendsStep, PaidStep, ShownStep DEF Undisturbed

\* Nothing was sent at first.
LEMMA UndisturbedInit == RepliesAssumption /\ RepliesInit => Undisturbed
<1> SUFFICES ASSUME RepliesAssumption, RepliesInit PROVE Undisturbed
  OBVIOUS
<1>1. OneLeader /\ SendsWhatIsToBeSent /\ ResendsWhatFailed /\ SentAsShown
  BY DEF RepliesInit, NoWork, OneLeader, SendsWhatIsToBeSent, ResendsWhatFailed, SentAsShown
<1>2. CopiesArePaidFor
  BY DEF RepliesInit, NoWork, CopiesArePaidFor, CopiesOf, Delivered
<1> QED BY <1>1, <1>2 DEF Undisturbed

\* The invariant of the copies, when requests to send again do not overlap.
LEMMA CopiesInvariance ==
  ASSUME RepliesAssumption, OneSender
  PROVE  RepliesSpec => [](WorkInv /\ UndisturbedSoFar)
<1>1. RepliesInit => WorkInv /\ UndisturbedSoFar
  BY WorkInit, UndisturbedInit DEF UndisturbedSoFar
<1>2. WorkInv /\ UndisturbedSoFar /\ [RepliesNext]_replyVars => WorkInv' /\ UndisturbedSoFar'
  BY WorkStep, UndisturbedStep
<1> QED BY <1>1, <1>2, PTL DEF RepliesSpec

\* EveryFurtherCopyTakesAFault of external_replies (deliver_reply): while no leader's connection
\* broke, a reply leaves once, and once more at most for each crash, failed commit and lost answer, when
\* requests to send again do not overlap: with two of them it is false (README).
THEOREM FurtherCopiesTakeFaults ==
  ASSUME RepliesAssumption, OneSender
  PROVE  RepliesSpec => []EveryFurtherCopyTakesAFault
<1>1. WorkInv /\ UndisturbedSoFar => EveryFurtherCopyTakesAFault
  <2> SUFFICES ASSUME WorkInv, Undisturbed, NEW r \in Replies PROVE CopiesOf(r) <= 1 + faults
    BY DEF EveryFurtherCopyTakesAFault, UndisturbedSoFar
  <2>1. Len(copies[r]) \in Nat /\ faults \in Nat
    BY DEF WorkInv, RepliesTypeOK
  <2> QED BY <2>1 DEF Undisturbed, CopiesArePaidFor, CopiesOf
<1> QED BY <1>1, CopiesInvariance, PTL

\* WhatIsShownAsSentWasSent (deliver_reply): the text that a row shows as sent left, although
\* it may have been replaced by another one while the job of the first was still open.
THEOREM ShownTextsWereSent ==
  ASSUME RepliesAssumption, OneSender
  PROVE  RepliesSpec => []WhatIsShownAsSentWasSent
<1>1. WorkInv /\ UndisturbedSoFar => WhatIsShownAsSentWasSent
  BY DEF UndisturbedSoFar, Undisturbed, SentAsShown, WhatIsShownAsSentWasSent
<1> QED BY <1>1, CopiesInvariance, PTL
=============================================================================
