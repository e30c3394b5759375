---------------------------- MODULE WorkRequests ----------------------------
(***************************************************************************)
(* One work request, the task it sent out and the rows that say who holds  *)
(* that task (modules/work/requests.py, modules/work/request_lifecycle.py, *)
(* modules/work/assignments.py, platform/work_tasks.py).                   *)
(*                                                                         *)
(* Two doors lead to the same rows.  The door of the request locks the     *)
(* request, reads the review of its latest round without a lock, and locks *)
(* the task last; the door of the assignment locks the task and its row,   *)
(* and never the request.  The requester's answer to a report of finished  *)
(* work locks nothing before it writes the task.  Commands of sessions in  *)
(* Begin and End steps may therefore meet; every other command is one      *)
(* step, taken while the rows it locks are free.                           *)
(***************************************************************************)
EXTENDS Integers, Sequences, FiniteSets

CONSTANTS Sessions,     \* commands that may be under way at the same time
          MaxRounds,    \* bound: rounds of the request
          MaxRows,      \* bound: assignment rows of the task
          MaxVersion    \* bound: versions at which a command may still begin

ASSUME RequestsAssumption ==
    /\ Sessions # {} /\ MaxRounds \in Nat \ {0} /\ MaxRows \in Nat \ {0} /\ MaxVersion \in Nat \ {0}

VARIABLES request,    \* work_requests: state and version
          reviews,    \* the review of each round
          item,       \* the one decision item of the request
          task,       \* tasks: state, version and the round its title and dates come from
          rows,       \* task_assignments, oldest first; the first is the request's own
          proposal,   \* the cancellation proposed for the task
          material,   \* where the file attached to the request is bound
          txn,        \* what each session has read
          overruled   \* history: an answer to a report was written over a cancelled task

vars == <<request, reviews, item, task, rows, proposal, material, txn, overruled>>

Answers    == {"accept", "reject", "negotiate"}
Revisions  == {"amend", "resubmit"}
AtRequest  == Answers \cup Revisions \cup {"withdraw"}
AtTask     == {"activate", "decline"}
AtReport   == {"confirm", "rework"}
Cancelling == {"rejected", "withdrawn", "cancelled_by_agreement"}

Requests == [state : {"pending", "negotiating", "accepted"} \cup Cancelling, version : Nat]
Reviews  == {"pending", "decided", "superseded", "cancelled"}
Items    == {"open", "awaiting_revision", "resolved"}
Tasks    == [state : {"open", "reported", "done", "cancelled"}, version : Nat]
Rows     == [kind : {"request_effect", "direct"}, supersedes : 0 .. MaxRows,
             status : {"pending", "active", "declined", "superseded", "ended", "cancelled"}]
Txns     == [command : {"none", "attach"} \cup AtRequest \cup AtTask \cup AtReport, version : Nat,
             round : 0 .. MaxRounds, review : Reviews \cup {"none"}, item : Items \cup {"none"}]

NoTxn == [command |-> "none", version |-> 0, round |-> 0, review |-> "none", item |-> "none"]

\* create: the request, its question and its task are sent out in one transaction.
Init ==
    /\ request = [state |-> "pending", version |-> 1]
    /\ reviews = <<"pending">>
    /\ item = "open"
    /\ task = [state |-> "open", version |-> 1]
    /\ rows = <<[kind |-> "request_effect", supersedes |-> 0, status |-> "pending"]>>
    /\ proposal = "none"
    /\ material = {}
    /\ txn = [s \in Sessions |-> NoTxn]
    /\ overruled = FALSE

-----------------------------------------------------------------------------
(* Reading the rows.                                                       *)

Round == Len(reviews)

RowsIn(status) == {r \in DOMAIN rows : rows[r].status = status}

\* current_assignment_for and pending_assignment_for.
Held    == RowsIn("active") # {}
Offered == RowsIn("pending") # {}

\* Nobody else holds the row lock of the request, or of the task.
RequestFree == \A s \in Sessions : txn[s].command \notin AtRequest
TaskFree    == \A s \in Sessions : txn[s].command \notin AtTask

\* _decision_target and withdraw_work_request: an answer is still wanted.
Judgeable == request.state \in {"pending", "negotiating"}

\* Under the request's lock.  The receipt of an answer given before is looked for
\* without it (_decision_receipt): returning it is no step, and a command that read
\* before that answer was committed goes on.
May(command) ==
    CASE command \in Answers \cup {"withdraw"} -> Judgeable
      [] command = "amend" -> request.state = "pending"
      [] command = "resubmit" -> request.state = "negotiating"

Moved(row, state) == [row EXCEPT !.state = state, !.version = @ + 1]
Bumped(row)       == [row EXCEPT !.version = @ + 1]

\* Rows that are active or pending end without anyone having judged them.
Ended ==
    [r \in DOMAIN rows |-> IF rows[r].status \in {"active", "pending"}
                           THEN [rows[r] EXCEPT !.status = "ended"] ELSE rows[r]]

\* What a command reads of the question and of the review of its latest round.
Read(command) == [command |-> command, version |-> 0, round |-> Round,
                  review |-> reviews[Round], item |-> item]

\* A row object writes a column only when its value differs from the one it loaded.
Written(loaded, value) == IF loaded = value THEN item ELSE value

-----------------------------------------------------------------------------
(* The door of the request.                                                *)

\* The request is locked and checked, then the question and its latest review
\* are read as they are committed now.
BeginRequestCommand(s, command) ==
    /\ txn[s].command = "none"
    /\ RequestFree
    /\ request.version <= MaxVersion /\ task.version <= MaxVersion
    /\ May(command)
    /\ command \in Revisions => Round < MaxRounds
    /\ txn' = [txn EXCEPT ![s] = Read(command)]
    /\ UNCHANGED <<request, reviews, item, task, rows, proposal, material, overruled>>

\* record_decision: nothing is recorded when no review was pending.
RecordDecision(s) ==
    LET t == txn[s]
        becomes == IF t.command = "negotiate" THEN "awaiting_revision" ELSE "resolved"
    IN  IF t.review = "pending"
        THEN /\ reviews' = [reviews EXCEPT ![t.round] = "decided"]
             /\ item' = Written(t.item, becomes)
        ELSE UNCHANGED <<reviews, item>>

\* accept: accept_request_assignment activates the request's own row if it still
\* waits; the material of the request is bound to the task.
EndAccept(s) ==
    /\ txn[s].command = "accept" /\ TaskFree
    /\ request' = Moved(request, "accepted")
    /\ RecordDecision(s)
    /\ IF rows[1].status = "pending"
       THEN rows' = [rows EXCEPT ![1].status = "active"] /\ task' = Bumped(task)
       ELSE UNCHANGED <<rows, task>>
    /\ material' = IF "request" \in material THEN material \cup {"task"} ELSE material
    /\ txn' = [txn EXCEPT ![s] = NoTxn]
    /\ UNCHANGED <<proposal, overruled>>

\* Mutant: a task that is finished is left as it is.
CloseUnfinishedTask ==
    IF task.state # "open" THEN UNCHANGED <<task, rows>>
    ELSE task' = Moved(task, "cancelled") /\ rows' = Ended

\* close_request_task.
CloseTask ==
    IF task.state = "cancelled" THEN UNCHANGED <<task, rows>>
    ELSE task' = Moved(task, "cancelled") /\ rows' = Ended

EndReject(s) ==
    /\ txn[s].command = "reject" /\ TaskFree
    /\ request' = Moved(request, "rejected")
    /\ RecordDecision(s)
    /\ CloseTask
    /\ txn' = [txn EXCEPT ![s] = NoTxn]
    /\ UNCHANGED <<proposal, material, overruled>>

EndNegotiate(s) ==
    /\ txn[s].command = "negotiate"
    /\ request' = Moved(request, "negotiating")
    /\ RecordDecision(s)
    /\ txn' = [txn EXCEPT ![s] = NoTxn]
    /\ UNCHANGED <<task, rows, proposal, material, overruled>>

\* Mutant: the review of the earlier round stays open.
EndReviseOnly(s) ==
    /\ txn[s].command \in Revisions
    /\ request' = Moved(request, "pending")
    /\ reviews' = Append(reviews, "pending")
    /\ item' = Written(txn[s].item, "open")
    /\ txn' = [txn EXCEPT ![s] = NoTxn]
    /\ UNCHANGED <<task, rows, proposal, material, overruled>>

\* amend and resubmit, _open_round: a new round with a review of its own takes
\* the place of an earlier one that waited.  The task keeps what it was sent with.
EndRevise(s) ==
    LET t == txn[s]
        earlier == IF t.review = "pending" THEN [reviews EXCEPT ![t.round] = "superseded"] ELSE reviews
    IN  /\ t.command \in Revisions
        /\ request' = Moved(request, "pending")
        /\ reviews' = Append(earlier, "pending")
        /\ item' = Written(t.item, "open")
        /\ txn' = [txn EXCEPT ![s] = NoTxn]
        /\ UNCHANGED <<task, rows, proposal, material, overruled>>

EndWithdraw(s) ==
    LET t == txn[s]
    IN  /\ t.command = "withdraw" /\ TaskFree
        /\ request' = Moved(request, "withdrawn")
        /\ reviews' = IF t.review = "pending" THEN [reviews EXCEPT ![t.round] = "cancelled"] ELSE reviews
        /\ item' = Written(t.item, "resolved")
        /\ CloseTask
        /\ txn' = [txn EXCEPT ![s] = NoTxn]
        /\ UNCHANGED <<proposal, material, overruled>>

\* add_evidence: the basis of a review that waits, under the request's lock.
AddEvidence ==
    /\ RequestFree
    /\ request.version < MaxVersion
    /\ reviews[Round] = "pending"
    /\ request' = Bumped(request)
    /\ UNCHANGED <<reviews, item, task, rows, proposal, material, txn, overruled>>

\* attach_material: the request is read without a lock ...
BeginAttach(s) ==
    /\ txn[s].command = "none"
    /\ Judgeable
    /\ request.version < MaxVersion
    /\ txn' = [txn EXCEPT ![s] = [NoTxn EXCEPT !.command = "attach", !.version = request.version]]
    /\ UNCHANGED <<request, reviews, item, task, rows, proposal, material, overruled>>

\* ... and the version that follows the one read is written.
EndAttach(s) ==
    /\ txn[s].command = "attach" /\ RequestFree
    /\ request' = [request EXCEPT !.version = txn[s].version + 1]
    /\ material' = material \cup {"request"}
    /\ txn' = [txn EXCEPT ![s] = NoTxn]
    /\ UNCHANGED <<reviews, item, task, rows, proposal, overruled>>

\* detach_material, alone: the file stays with the task that adopted it.
Detach ==
    /\ RequestFree /\ Judgeable
    /\ "request" \in material
    /\ request.version < MaxVersion
    /\ request' = Bumped(request)
    /\ material' = material \ {"request"}
    /\ UNCHANGED <<reviews, item, task, rows, proposal, txn, overruled>>

-----------------------------------------------------------------------------
(* The door of the assignment.                                             *)

\* _pending_target and decide on the request's own row: the task and the row are
\* locked, the review of the request's latest round is only read.
BeginAnswerRow(s, command) ==
    /\ txn[s].command = "none"
    /\ TaskFree
    /\ task.version <= MaxVersion
    /\ rows[1].status = "pending"
    /\ reviews[Round] = "pending"
    /\ txn' = [txn EXCEPT ![s] = Read(command)]
    /\ UNCHANGED <<request, reviews, item, task, rows, proposal, material, overruled>>

EndAnswerRow(s) ==
    LET t == txn[s]
    IN  /\ t.command \in AtTask
        /\ reviews' = [reviews EXCEPT ![t.round] = "decided"]
        /\ item' = Written(t.item, "resolved")
        /\ IF t.command = "activate"
           THEN rows' = [rows EXCEPT ![1].status = "active"] /\ UNCHANGED task
           ELSE rows' = [rows EXCEPT ![1].status = "declined"] /\ task' = Moved(task, "cancelled")
        /\ txn' = [txn EXCEPT ![s] = NoTxn]
        /\ UNCHANGED <<request, proposal, material, overruled>>

\* accept of a direct row: the holder it was to replace steps down in the same step.
AcceptRow(r) ==
    LET former == rows[r].supersedes
        steppedDown == {k \in {former} \ {0} : rows[k].status = "active"}
    IN  /\ TaskFree
        /\ rows[r].kind = "direct" /\ rows[r].status = "pending"
        /\ rows' = [k \in DOMAIN rows |->
                        IF k = r THEN [rows[k] EXCEPT !.status = "active"]
                        ELSE IF k \in steppedDown THEN [rows[k] EXCEPT !.status = "superseded"]
                        ELSE rows[k]]
        /\ UNCHANGED <<request, reviews, item, task, proposal, material, txn, overruled>>

\* decline of a direct row: only the first offer of a task takes the task with it.
DeclineRow(r) ==
    /\ TaskFree
    /\ rows[r].kind = "direct" /\ rows[r].status = "pending"
    /\ rows' = [rows EXCEPT ![r].status = "declined"]
    /\ task' = IF rows[r].supersedes = 0 THEN Moved(task, "cancelled") ELSE task
    /\ UNCHANGED <<request, reviews, item, proposal, material, txn, overruled>>

\* cancel: the assigner takes an unanswered direct offer back, and the task with it.
CancelRow(r) ==
    /\ TaskFree
    /\ rows[r].kind = "direct" /\ rows[r].status = "pending"
    /\ rows' = [rows EXCEPT ![r].status = "cancelled"]
    /\ task' = Moved(task, "cancelled")
    /\ UNCHANGED <<request, reviews, item, proposal, material, txn, overruled>>

\* Mutant: an offer that names itself as the one it replaces.
OfferOfItself(former) == Append(rows, [kind |-> "direct", supersedes |-> Len(rows) + 1, status |-> "pending"])

Offer(former) == Append(rows, [kind |-> "direct", supersedes |-> former, status |-> "pending"])

\* Mutant: the holder steps down when a change is proposed.
ReassignAtOnce ==
    /\ TaskFree
    /\ Len(rows) < MaxRows /\ task.version <= MaxVersion
    /\ ~Offered
    /\ rows' = Append([r \in DOMAIN rows |-> IF rows[r].status = "active"
                                             THEN [rows[r] EXCEPT !.status = "superseded"] ELSE rows[r]],
                      [kind |-> "direct", supersedes |-> 0, status |-> "pending"])
    /\ task' = Bumped(task)
    /\ UNCHANGED <<request, reviews, item, proposal, material, txn, overruled>>

\* reassign and hand_to: one offer at a time; the holder, if any, goes on holding.
\* The state of the task is not asked for.
Reassign ==
    /\ TaskFree
    /\ Len(rows) < MaxRows /\ task.version <= MaxVersion
    /\ ~Offered
    /\ \/ ~Held /\ rows' = Offer(0)
       \/ \E r \in RowsIn("active") : rows' = Offer(r)
    /\ task' = Bumped(task)
    /\ UNCHANGED <<request, reviews, item, proposal, material, txn, overruled>>

-----------------------------------------------------------------------------
(* The task.                                                               *)

\* submit_completion: the holder reports the work as finished.
Report ==
    /\ TaskFree /\ Held
    /\ task.state = "open" /\ task.version <= MaxVersion
    /\ task' = Moved(task, "reported")
    /\ UNCHANGED <<request, reviews, item, rows, proposal, material, txn, overruled>>

\* The requester's answer to a report (TaskDeliveryActionHandler.execute): the task is read
\* and checked without a lock ...
BeginAnswerReport(s, command) ==
    /\ txn[s].command = "none"
    /\ task.state = "reported" /\ task.version <= MaxVersion
    /\ txn' = [txn EXCEPT ![s] = [NoTxn EXCEPT !.command = command, !.version = task.version]]
    /\ UNCHANGED <<request, reviews, item, task, rows, proposal, material, overruled>>

\* ... and accept_delivery or request_delivery_changes writes it, whatever it has
\* become by then, as soon as its row is free.
EndAnswerReport(s) ==
    LET t == txn[s]
    IN  /\ t.command \in AtReport /\ TaskFree
        /\ task' = [state |-> IF t.command = "confirm" THEN "done" ELSE "open", version |-> t.version + 1]
        /\ overruled' = (overruled \/ task.state = "cancelled")
        /\ txn' = [txn EXCEPT ![s] = NoTxn]
        /\ UNCHANGED <<request, reviews, item, rows, proposal, material>>

\* propose: the requester proposes to cancel, whatever became of the task.
Propose ==
    /\ TaskFree
    /\ proposal = "none"
    /\ proposal' = "pending"
    /\ UNCHANGED <<request, reviews, item, task, rows, material, txn, overruled>>

\* respond_to_proposal and settle_by_agreement: the holder agrees, the task is
\* cancelled, and its request ends whatever its state is.  The task is locked
\* first, the request last.
AgreeCancel ==
    /\ TaskFree /\ RequestFree
    /\ proposal = "pending" /\ Held
    /\ task.version <= MaxVersion
    /\ proposal' = "agreed"
    /\ task' = Moved(task, "cancelled")
    /\ IF request.state = "cancelled_by_agreement"
       THEN UNCHANGED <<request, rows, item>>
       ELSE /\ request' = Moved(request, "cancelled_by_agreement")
            /\ rows' = Ended
            /\ item' = IF item = "open" THEN "resolved" ELSE item
    /\ UNCHANGED <<reviews, material, txn, overruled>>

\* The transaction of a session is rolled back: a deadlock, a lost connection.
Abort(s) ==
    /\ txn[s].command # "none"
    /\ txn' = [txn EXCEPT ![s] = NoTxn]
    /\ UNCHANGED <<request, reviews, item, task, rows, proposal, material, overruled>>

Next ==
    \/ \E s \in Sessions :
          \/ \E c \in AtRequest : BeginRequestCommand(s, c)
          \/ \E c \in AtTask : BeginAnswerRow(s, c)
          \/ EndAccept(s) \/ EndReject(s) \/ EndNegotiate(s) \/ EndRevise(s) \/ EndWithdraw(s)
          \/ EndAnswerRow(s)
          \/ BeginAttach(s) \/ EndAttach(s)
          \/ (\E c \in AtReport : BeginAnswerReport(s, c)) \/ EndAnswerReport(s)
          \/ Abort(s)
    \/ \E r \in DOMAIN rows : AcceptRow(r) \/ DeclineRow(r) \/ CancelRow(r)
    \/ AddEvidence \/ Detach \/ Reassign \/ Report \/ Propose \/ AgreeCancel

Spec == Init /\ [][Next]_vars

-----------------------------------------------------------------------------
(* Properties.                                                             *)

\* Every row keeps its type.
TypeOK ==
    /\ request \in Requests
    /\ reviews \in Seq(Reviews) /\ Round \in 1 .. MaxRounds
    /\ item \in Items
    /\ task \in Tasks
    /\ rows \in Seq(Rows) /\ Len(rows) \in 1 .. MaxRows
    /\ \A r \in DOMAIN rows : rows[r].supersedes < r
    /\ proposal \in {"none", "pending", "agreed"}
    /\ material \subseteq {"request", "task"}
    /\ txn \in [Sessions -> Txns]
    /\ overruled \in BOOLEAN

\* A task has one holder and one open offer at most, and an offer to replace a
\* holder names the one who holds (reassign, decide: "the active holder is never
\* zero or two").
OneHolderAndOneOffer ==
    /\ Cardinality(RowsIn("active")) <= 1
    /\ Cardinality(RowsIn("pending")) <= 1
    /\ \A r \in RowsIn("pending") : Held => rows[r].supersedes \in RowsIn("active")

\* Work that somebody holds is not left without a holder while it goes on: a
\* change of holder is one step, and one that is declined changes nothing.
HeldWorkKeepsAHolder == [][Held /\ task'.state # "cancelled" => Held']_vars

\* At most one review waits for an answer, and it is the latest round's
\* (_open_round), however a revision and an answer at the other door interleave.
OnlyTheLatestRoundWaits == \A n \in 1 .. Round - 1 : reviews[n] # "pending"

\* A request that was rejected, withdrawn or cancelled by agreement has a cancelled
\* task, also one that was reported, finished or is held by somebody who came later,
\* unless an answer to a report, which had read the task before, was written over the
\* cancellation (accept_delivery, request_delivery_changes).
ClosedRequestHasClosedTask == request.state \in Cancelling /\ ~overruled => task.state = "cancelled"

\* A request that ended never asks again: no late answer, revision or attached
\* file brings it back.
EndedRequestStaysEnded == [][request.state \in Cancelling => request'.state \in Cancelling]_vars

\* Work that is held is cancelled only by agreement (_require_cancellable).
HeldWorkEndsByAgreement ==
    [][Held /\ task.state # "cancelled" /\ task'.state = "cancelled"
          => request'.state = "cancelled_by_agreement"]_vars

=============================================================================
