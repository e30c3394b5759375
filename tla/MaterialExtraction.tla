------------------------- MODULE MaterialExtraction -------------------------
(***************************************************************************)
(* The extraction of one material and the deliveries of its job            *)
(* (bootstrap/material_worker.py, platform/material_extraction.py,         *)
(* modules/work/material_extraction.py).                                   *)
(*                                                                         *)
(* Two leases meet here.  The transport leases the job to a delivery, as   *)
(* in DurableJobs; the extraction row carries an attempt of its own, with  *)
(* an owner token and a heartbeat.  A delivery is a parent, which keeps    *)
(* both leases alive, and a child process, which claims the row, parses    *)
(* and publishes, and which may outlive its parent.                        *)
(*                                                                         *)
(* A delivery is named by the job's attempt_count, and so is its token.    *)
(* Time passes in ticks of a heartbeat interval: between two ticks a       *)
(* parent that is alive has beaten and its child has claimed, or the tick  *)
(* is a stall, which is a fault.                                           *)
(***************************************************************************)
EXTENDS Integers

CONSTANTS MaxAttempts,        \* material_queue_max_attempts
          Visibility,         \* material_queue_visibility_timeout, in ticks
          PurgeMeetsResult,   \* a result may be published in the middle of a purge
          OnTimeDeliveries,   \* bound: deliveries before material_total_timeout_seconds are over
          MaxDeliveries,      \* bound: all deliveries
          MaxFaults           \* bound: dead or failing parents, dead children and stalls

ASSUME MaterialAssumption ==
    /\ MaxAttempts \in Nat \ {0} /\ Visibility \in Nat \ {0}
    /\ PurgeMeetsResult \in BOOLEAN
    /\ MaxDeliveries \in Nat /\ OnTimeDeliveries \in 0 .. MaxDeliveries /\ MaxFaults \in Nat

VARIABLES row,      \* material_extractions
          content,  \* blocks and chunks of the extraction exist
          job,      \* the durable job of the extraction
          parent,   \* the worker's side of each delivery
          child,    \* the process of each delivery, or the result it left
          overdue,  \* the total time since the request is over
          purging,  \* a purge has deleted what there was and not yet committed
          faults    \* faults so far

vars == <<row, content, job, parent, child, overdue, purging, faults>>

Deliveries == 1 .. MaxDeliveries
StaleAfter == IF Visibility \div 2 > 1 THEN Visibility \div 2 ELSE 1

\* "completed" stands for partial as well, "failed" for unsupported and too_large.
Open    == {"queued", "running"}
Over    == {"completed", "failed", "purged"}
Results == {"skipped", "contended", "completed", "failed", "retry", "stale"}
Live    == {"starting", "parsing"}

Rows    == [status : Open \cup Over, attempts : 0 .. MaxDeliveries,
            owner : 0 .. MaxDeliveries, age : 0 .. StaleAfter]
Jobs    == [state : {"queued", "running", "completed", "failed"},
            attempts : 0 .. MaxDeliveries, left : 0 .. Visibility, wait : 0 .. StaleAfter]
Parents == [pc : {"none", "watching", "timing", "closing", "gone", "abandoned"}, due : BOOLEAN,
            status : Results \cup {"none"}]
Children == [pc : {"none", "gone", "dead"} \cup Live \cup Results, attempt : 0 .. MaxDeliveries]

NoParent == [pc |-> "none", due |-> FALSE, status |-> "none"]
NoChild  == [pc |-> "none", attempt |-> 0]

\* The upload wrote the row and enqueued its job in one transaction.
Init ==
    /\ row = [status |-> "queued", attempts |-> 0, owner |-> 0, age |-> 0]
    /\ content = FALSE
    /\ job = [state |-> "queued", attempts |-> 0, left |-> 0, wait |-> 0]
    /\ parent = [n \in Deliveries |-> NoParent]
    /\ child = [n \in Deliveries |-> NoChild]
    /\ overdue = FALSE
    /\ purging = FALSE
    /\ faults = 0

-----------------------------------------------------------------------------
(* The two fences.                                                         *)

\* The transport's: the job runs under this delivery's token and lease.
Fenced(n) == job.state = "running" /\ job.attempts = n /\ job.left > 0

\* The row's: running, under this attempt of this owner.
Running(n, attempt) == row.status = "running" /\ row.attempts = attempt /\ row.owner = n

Ended(status) == [row EXCEPT !.status = status, !.owner = 0, !.age = 0]

ExtendedJob == [job EXCEPT !.left = Visibility]

\* A job of this delivery leaves "running"; without the fence nothing is written.
Closed(n, state, delay) ==
    IF Fenced(n) THEN [job EXCEPT !.state = state, !.left = 0, !.wait = delay] ELSE job

Watched(n) == parent[n].pc \in {"watching", "timing"}

Gone == [NoParent EXCEPT !.pc = "gone"]

\* terminate: a process that is alive is killed; a result nobody collects is lost.
Terminated(n) == [child EXCEPT ![n] = [NoChild EXCEPT !.pc = "gone"]]

\* The child ends and leaves this result to its parent, if there is one.
Left(n, result) == [child EXCEPT ![n] = [NoChild EXCEPT !.pc = IF Watched(n) THEN result ELSE "gone"]]

-----------------------------------------------------------------------------
(* The worker's side of a delivery.                                        *)

\* _claim_jobs, and the start of the child.
ClaimJob ==
    LET n == job.attempts + 1
    IN  /\ \/ job.state = "queued" /\ job.wait = 0
           \/ job.state = "running" /\ job.left = 0
        /\ n <= IF overdue THEN MaxDeliveries ELSE OnTimeDeliveries
        /\ job' = [state |-> "running", attempts |-> n, left |-> Visibility, wait |-> 0]
        /\ parent' = [parent EXCEPT ![n] = [pc |-> "watching", due |-> FALSE, status |-> "none"]]
        /\ child' = [child EXCEPT ![n].pc = "starting"]
        /\ UNCHANGED <<row, content, overdue, purging, faults>>

\* Mutant: the heartbeat keeps the job and forgets the row.
HeartbeatOfJobOnly(n) ==
    /\ Watched(n) /\ parent[n].due
    /\ Fenced(n)
    /\ job' = ExtendedJob
    /\ parent' = [parent EXCEPT ![n].due = FALSE]
    /\ UNCHANGED <<row, content, child, overdue, purging, faults>>

\* _heartbeat: without the job's lease, or with another attempt in the row,
\* the delivery is lost and its child killed.  The row is compared with the
\* delivery's own number, not with the attempt its child claimed.
Heartbeat(n) ==
    /\ Watched(n) /\ parent[n].due
    /\ \/ /\ Fenced(n) /\ row.status = "queued"
          /\ job' = ExtendedJob
          /\ parent' = [parent EXCEPT ![n].due = FALSE]
          /\ UNCHANGED <<row, child>>
       \/ /\ Fenced(n) /\ row.status \in Over
          /\ job' = ExtendedJob
          /\ parent' = [parent EXCEPT ![n] = [pc |-> "closing", due |-> FALSE, status |-> "completed"]]
          /\ child' = Terminated(n)
          /\ UNCHANGED row
       \/ /\ Fenced(n) /\ Running(n, n)
          /\ job' = ExtendedJob
          /\ row' = [row EXCEPT !.age = 0]
          /\ parent' = [parent EXCEPT ![n] = [pc |-> "timing", due |-> FALSE, status |-> "none"]]
          /\ UNCHANGED child
       \/ /\ ~Fenced(n) \/ (row.status = "running" /\ ~Running(n, n))
          /\ parent' = [parent EXCEPT ![n] = Gone]
          /\ child' = Terminated(n)
          /\ UNCHANGED <<row, job>>
    /\ UNCHANGED <<content, overdue, purging, faults>>

\* The child left a result: the lease is extended once more, or the result dropped.
Collect(n) ==
    /\ Watched(n)
    /\ child[n].pc \in Results
    /\ \/ /\ Fenced(n)
          /\ job' = ExtendedJob
          /\ parent' = [parent EXCEPT ![n] = [pc |-> "closing", due |-> FALSE, status |-> child[n].pc]]
       \/ /\ ~Fenced(n)
          /\ parent' = [parent EXCEPT ![n] = Gone]
          /\ UNCHANGED job
    /\ child' = Terminated(n)
    /\ UNCHANGED <<row, content, overdue, purging, faults>>

\* Mutant: a delivery that met another owner is archived as done.
FinishTransportOfContended(n) ==
    /\ parent[n].pc = "closing"
    /\ job' = IF parent[n].status \in {"retry", "stale"} THEN Closed(n, "queued", 0)
              ELSE Closed(n, "completed", 0)
    /\ parent' = [parent EXCEPT ![n] = Gone]
    /\ UNCHANGED <<row, content, child, overdue, purging, faults>>

\* Mutant: a contended delivery waits for a whole lease.
FinishTransportAfterLease(n) ==
    /\ parent[n].pc = "closing"
    /\ job' = CASE parent[n].status = "retry"     -> Closed(n, "queued", 1)
                [] parent[n].status = "contended" -> Closed(n, "queued", Visibility)
                [] parent[n].status = "stale"     -> Closed(n, "queued", 0)
                [] OTHER                          -> Closed(n, "completed", 0)
    /\ parent' = [parent EXCEPT ![n] = Gone]
    /\ UNCHANGED <<row, content, child, overdue, purging, faults>>

\* _finish_transport: hand the job back, at once or later, or archive it.
FinishTransport(n) ==
    /\ parent[n].pc = "closing"
    /\ job' = CASE parent[n].status = "retry"     -> Closed(n, "queued", 1)
                [] parent[n].status = "contended" -> Closed(n, "queued", StaleAfter)
                [] parent[n].status = "stale"     -> Closed(n, "queued", 0)
                [] OTHER                          -> Closed(n, "completed", 0)
    /\ parent' = [parent EXCEPT ![n] = Gone]
    /\ UNCHANGED <<row, content, child, overdue, purging, faults>>

\* _abandon and _time_out: the row fails if it still is this delivery's, and
\* the job fails in any case, by a fence of its own.
FailDelivery(n, end) ==
    /\ row' = IF Running(n, n) THEN Ended("failed") ELSE row
    /\ content' = (content /\ ~Running(n, n))
    /\ job' = Closed(n, "failed", 0)
    /\ parent' = [parent EXCEPT ![n] = [NoParent EXCEPT !.pc = end]]
    /\ UNCHANGED <<overdue, purging>>

\* The child ended without a result.
Abandon(n) ==
    /\ Watched(n) /\ child[n].pc = "dead"
    /\ FailDelivery(n, "abandoned")
    /\ child' = Terminated(n)
    /\ UNCHANGED faults

\* The stage's time runs from the first heartbeat that found the row running.
TimeOut(n) ==
    /\ parent[n].pc = "timing" /\ child[n].pc \in Live
    /\ FailDelivery(n, "gone")
    /\ child' = Terminated(n)
    /\ UNCHANGED faults

\* _deliver: any exception of the parent, out of a heartbeat, an extension or the
\* end of the transport, abandons the delivery.  A child that is alive lives on.
ParentErrs(n) ==
    /\ parent[n].pc \in {"watching", "timing", "closing"}
    /\ faults < MaxFaults
    /\ faults' = faults + 1
    /\ FailDelivery(n, "abandoned")
    /\ child' = IF child[n].pc \in Live THEN child ELSE Terminated(n)

-----------------------------------------------------------------------------
(* The child.                                                              *)

\* Nobody keeps the row alive.
Takeable(n) == row.status = "queued" \/ row.age >= StaleAfter

\* process: claim the row, or report that it is over or held by a live owner.
\* An actor without access, or a request that is overdue, fails the new attempt.
ClaimRow(n) ==
    /\ child[n].pc = "starting"
    /\ \/ /\ row.status \in Over
          /\ child' = Left(n, "skipped")
          /\ UNCHANGED <<row, content>>
       \/ /\ row.status \in Open /\ ~Takeable(n)
          /\ child' = Left(n, "contended")
          /\ UNCHANGED <<row, content>>
       \/ /\ row.status \in Open /\ Takeable(n)
          /\ ~overdue
          /\ row' = [status |-> "running", attempts |-> row.attempts + 1, owner |-> n, age |-> 0]
          /\ child' = [child EXCEPT ![n] = [pc |-> "parsing", attempt |-> row.attempts + 1]]
          /\ UNCHANGED content
       \/ /\ row.status \in Open /\ Takeable(n)
          /\ row' = [Ended("failed") EXCEPT !.attempts = @ + 1]
          /\ content' = FALSE
          /\ child' = Left(n, "failed")
    /\ UNCHANGED <<job, parent, overdue, purging, faults>>

\* finish: publish under the row's fence, or hand the row back for a retry.
Publish(n, outcome) ==
    LET mine == Running(n, child[n].attempt) /\ row.age < StaleAfter
        retry == outcome = "transient" /\ row.attempts < MaxAttempts
        result == IF outcome = "completed" THEN "completed" ELSE "failed"
    IN  /\ child[n].pc = "parsing"
        /\ purging => PurgeMeetsResult
        /\ \/ /\ ~mine
              /\ child' = Left(n, "stale")
              /\ UNCHANGED <<row, content>>
           \/ /\ mine /\ retry
              /\ row' = Ended("queued")
              /\ child' = Left(n, "retry")
              /\ UNCHANGED content
           \/ /\ mine /\ ~retry
              /\ row' = Ended(result)
              /\ content' = (result = "completed")
              /\ child' = Left(n, result)
        /\ UNCHANGED <<job, parent, overdue, purging, faults>>

-----------------------------------------------------------------------------
(* A purge of the file, in two statements of one transaction.              *)

\* Mutant: the purge marks the row and leaves what it says.
BeginPurgeOfBytes ==
    /\ row.status # "purged" /\ ~purging
    /\ purging' = TRUE
    /\ UNCHANGED <<row, content, job, parent, child, overdue, faults>>

\* The blocks and chunks that are committed go.
BeginPurge ==
    /\ row.status # "purged" /\ ~purging
    /\ content' = FALSE
    /\ purging' = TRUE
    /\ UNCHANGED <<row, job, parent, child, overdue, faults>>

\* Then the row, whatever its status has become, and the commit.
EndPurge ==
    /\ purging
    /\ row' = [row EXCEPT !.status = "purged"]
    /\ purging' = FALSE
    /\ UNCHANGED <<content, job, parent, child, overdue, faults>>

-----------------------------------------------------------------------------
(* Time and faults.                                                        *)

\* A parent missed a beat, or its child a whole interval before its claim.
Stalled == \E n \in Deliveries : Watched(n) /\ (parent[n].due \/ child[n].pc = "starting")

Tick ==
    /\ IF Stalled THEN faults < MaxFaults /\ faults' = faults + 1 ELSE UNCHANGED faults
    /\ row' = [row EXCEPT !.age = IF row.status = "running" /\ @ < StaleAfter THEN @ + 1 ELSE @]
    /\ job' = [job EXCEPT !.left = IF @ > 0 THEN @ - 1 ELSE 0, !.wait = IF @ > 0 THEN @ - 1 ELSE 0]
    /\ parent' = [n \in Deliveries |-> [parent[n] EXCEPT !.due = Watched(n)]]
    /\ UNCHANGED <<content, child, overdue, purging>>

TotalTimeOver ==
    /\ ~overdue
    /\ overdue' = TRUE
    /\ UNCHANGED <<row, content, job, parent, child, purging, faults>>

\* The worker process dies; its child lives on or dies with it.
ParentDies(n) ==
    /\ parent[n].pc \in {"watching", "timing", "closing"}
    /\ faults < MaxFaults
    /\ faults' = faults + 1
    /\ parent' = [parent EXCEPT ![n] = Gone]
    /\ \/ child' = Terminated(n)
       \/ UNCHANGED child
    /\ UNCHANGED <<row, content, job, overdue, purging>>

\* The child is killed or leaves by an exception, before its claim, while it parses,
\* or between the commit of what it did and the sending of its result.
ChildDies(n) ==
    /\ child[n].pc \in Live \cup Results
    /\ faults < MaxFaults
    /\ faults' = faults + 1
    /\ child' = Left(n, "dead")
    /\ UNCHANGED <<row, content, job, parent, overdue, purging>>

\* The parent's loop looks for a result before it beats.
CloseDelivery(n) == Collect(n) \/ FinishTransport(n) \/ Abandon(n)

ChildStep(n) == ClaimRow(n) \/ \E o \in {"completed", "failed", "transient"} : Publish(n, o)

Next ==
    \/ ClaimJob
    \/ \E n \in Deliveries :
           Heartbeat(n) \/ CloseDelivery(n) \/ TimeOut(n) \/ ChildStep(n)
           \/ ParentErrs(n) \/ ParentDies(n) \/ ChildDies(n)
    \/ BeginPurge \/ EndPurge
    \/ Tick \/ TotalTimeOver

Spec == Init /\ [][Next]_vars

\* Workers poll, parents beat and collect, children end by themselves, a purge
\* that began commits, time passes and runs out.  Nothing is asked of purges
\* and of the stage's time limit.
Fairness ==
    /\ WF_vars(ClaimJob) /\ WF_vars(Tick) /\ WF_vars(TotalTimeOver) /\ WF_vars(EndPurge)
    /\ \A n \in Deliveries :
           WF_vars(Heartbeat(n)) /\ WF_vars(CloseDelivery(n)) /\ WF_vars(ChildStep(n))

FairSpec == Spec /\ Fairness

-----------------------------------------------------------------------------
(* Properties.                                                             *)

\* Every row and every process keeps its type.
TypeOK ==
    /\ row \in Rows
    /\ content \in BOOLEAN
    /\ job \in Jobs
    /\ parent \in [Deliveries -> Parents]
    /\ child \in [Deliveries -> Children]
    /\ overdue \in BOOLEAN /\ purging \in BOOLEAN
    /\ faults \in 0 .. MaxFaults

\* What a material says can be found only by a completed extraction: no late
\* child publishes into a row that failed, was taken over or was purged
\* (purge_attachment: "Bytes, blocks and chunks go").
ContentOnlyOfCompleted == content => row.status = "completed"

\* An abandoned delivery failed the job of an extraction that is open, and nothing
\* delivers it again.
Stranded == job.state = "failed" /\ row.status \in Open /\ parent[job.attempts].pc = "abandoned"

\* A job is closed only when its extraction is over or its delivery was abandoned:
\* no contended, stale, retried or timed-out delivery, and none that finds the row
\* over, archives or fails work that somebody has still to do.
ClosedJobHasClosedRow == job.state \in {"completed", "failed"} => row.status \in Over \/ Stranded

\* Work that nothing disturbed is kept: while no worker died or stalled and the
\* file is not purged, no delivery finds its row held by another or its own
\* attempt stale, however long it parses and however often it retries.
UndisturbedWorkIsKept ==
    (faults = 0 /\ row.status # "purged") =>
        \A n \in Deliveries : child[n].pc \notin {"contended", "stale"}

\* Every extraction ends, through dead parents, orphaned children, stalls and
\* retries, and stays over, whatever older children and parents still write; only
\* an abandoned delivery may leave it open, with its job failed.
ExtractionEnds == <>[](row.status \in Over \/ Stranded)
=============================================================================
