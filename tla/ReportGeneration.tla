-------------------------- MODULE ReportGeneration --------------------------
(***************************************************************************)
(* One generation of a daily report and the deliveries of its job          *)
(* (bootstrap/report_worker.py, modules/reports/application.py,            *)
(* platform/reports.py).                                                   *)
(*                                                                         *)
(* What must not happen is that the provider is called again while nobody  *)
(* knows how an earlier call ended.  The generation therefore carries a    *)
(* fence of its own beside the job's lease, and remembers durably that a   *)
(* call was begun, just before it is made.                                 *)
(*                                                                         *)
(* A delivery is a parent, which beats for both leases, and an isolated    *)
(* child, which claims the generation and calls the provider.  Deliveries  *)
(* are numbered over all jobs of the generation, and the number stands for *)
(* the lease token; the attempt is the job's own count, which begins again *)
(* with every job.  Time passes in heartbeat intervals.                    *)
(***************************************************************************)
EXTENDS Integers

CONSTANTS MaxAttempts,     \* report_queue_max_attempts
          Visibility,      \* report_queue_visibility_timeout, in heartbeat intervals
          MaxRequests,     \* bound: requests of the owner
          MaxDeliveries,   \* bound: deliveries of all jobs
          MaxFaults        \* bound: dead or failing parents, dead children and stalls

ASSUME ReportAssumption ==
    /\ MaxAttempts \in Nat \ {0} /\ Visibility \in Nat \ {0}
    /\ MaxRequests \in Nat \ {0} /\ MaxDeliveries \in Nat /\ MaxFaults \in Nat

VARIABLES generation,  \* daily_report_generations
          used,        \* attempt numbers that have a row in daily_report_generation_attempts
          started,     \* the node of the provider call has an execution that is not completed
          job,         \* the durable job of the generation
          delivered,   \* deliveries so far
          requests,    \* requests so far
          parent,      \* the worker's side of each delivery
          child,       \* the process of each delivery, or the result it left
          lost,        \* history: calls whose answer nobody recorded
          faults       \* faults so far

vars == <<generation, used, started, job, delivered, requests, parent, child, lost, faults>>

Deliveries == 1 .. MaxDeliveries
HalfVisibility == IF Visibility \div 2 > 1 THEN Visibility \div 2 ELSE 1

Open    == {"queued", "running"}
Over    == {"completed", "failed", "needs_verification"}
Results == {"completed", "needs_verification", "failed", "contended", "stale", "retry"}
Live    == {"starting", "claimed", "ready", "calling"}

\* How a delivery ends: with the result of its child, with a beat that found the
\* generation in other hands, or abandoned, with the job handed back or failed.
Endings == Results \cup {"overtaken", "returned", "abandoned"}

Generations == [state : Open \cup Over, token : 0 .. MaxDeliveries, age : 0 .. Visibility + 1]
Jobs        == [state : {"queued", "running", "completed", "failed"}, attempt : 0 .. MaxDeliveries,
                token : 0 .. MaxDeliveries, left : 0 .. Visibility, wait : 0 .. Visibility]
Parents     == [pc : {"none", "watching", "beating", "losing", "closing", "gone"}, due : BOOLEAN,
                status : Endings \cup {"none"}]
Children    == [pc : {"none", "gone", "dead"} \cup Live \cup Results, attempt : 0 .. MaxDeliveries]

NoParent == [pc |-> "none", due |-> FALSE, status |-> "none"]
NoChild  == [pc |-> "none", attempt |-> 0]
NewJob   == [state |-> "queued", attempt |-> 0, token |-> 0, left |-> 0, wait |-> 0]

\* The first request wrote the generation and enqueued its job.
Init ==
    /\ generation = [state |-> "queued", token |-> 0, age |-> 0]
    /\ used = {}
    /\ started = FALSE
    /\ job = NewJob
    /\ delivered = 0
    /\ requests = 1
    /\ parent = [n \in Deliveries |-> NoParent]
    /\ child = [n \in Deliveries |-> NoChild]
    /\ lost = {}
    /\ faults = 0

-----------------------------------------------------------------------------
(* The two fences, and what is written under them.                         *)

JobOpen == job.state \in {"queued", "running"}

\* extend_lease and _fenced_update of the transport.
Fenced(n) == job.state = "running" /\ job.token = n /\ job.left > 0

\* _require_generation_lease.
Owned(n) == generation.state = "running" /\ generation.token = n

\* retry_generation, fail_generation, complete_generation, mark_generation_needs_verification.
Ended(state) == [state |-> state, token |-> 0, age |-> 0]

\* Mutant: a lease is prolonged from its end and not from now.
Prolonged == [job EXCEPT !.left = @ + Visibility]

\* What extend_lease makes of the job.
Beaten == [job EXCEPT !.left = Visibility]

Closed(n, state, delay) ==
    IF Fenced(n) THEN [job EXCEPT !.state = state, !.token = 0, !.left = 0, !.wait = delay] ELSE job

Watched(n) == parent[n].pc \in {"watching", "beating"}

\* The child is no more; a call it was making ends without an answer.
Gone(n) == [child EXCEPT ![n] = [NoChild EXCEPT !.pc = "gone"]]
LostWith(n) == IF child[n].pc = "calling" THEN lost \cup {n} ELSE lost

\* The child ends and leaves this result to its parent, if there is one.
Left(n, result) ==
    LET heard == Watched(n) \/ parent[n].pc = "losing"
    IN  [child EXCEPT ![n] = [NoChild EXCEPT !.pc = IF heard THEN result ELSE "gone"]]

Closing(n, status) == [parent EXCEPT ![n] = [pc |-> "closing", due |-> FALSE, status |-> status]]

\* The heartbeat said no.
Losing(n, status) == [parent EXCEPT ![n] = [pc |-> "losing", due |-> FALSE, status |-> status]]

-----------------------------------------------------------------------------
(* The owner.                                                              *)

\* request_daily_report_draft for the date again: an open generation is given
\* a new job when its job is closed; one that needs verification is left alone.
Request ==
    /\ requests < MaxRequests
    /\ requests' = requests + 1
    /\ generation.state \in Open \cup {"needs_verification"}
    /\ job' = IF generation.state \in Open /\ ~JobOpen THEN NewJob ELSE job
    /\ UNCHANGED <<generation, used, started, delivered, parent, child, lost, faults>>

-----------------------------------------------------------------------------
(* The worker's side of a delivery.                                        *)

\* claim; a generation that is completed needs no child.
ClaimJob ==
    LET n == delivered + 1
    IN  /\ \/ job.state = "queued" /\ job.wait = 0
           \/ job.state = "running" /\ job.left = 0
        /\ n <= MaxDeliveries
        /\ delivered' = n
        /\ job' = [state |-> "running", attempt |-> job.attempt + 1, token |-> n,
                   left |-> Visibility, wait |-> 0]
        /\ IF generation.state = "completed"
           THEN parent' = Closing(n, "completed") /\ UNCHANGED child
           ELSE /\ parent' = [parent EXCEPT ![n] = [NoParent EXCEPT !.pc = "watching"]]
                /\ child' = [child EXCEPT ![n] = [pc |-> "starting", attempt |-> job.attempt + 1]]
        /\ UNCHANGED <<generation, used, started, requests, lost, faults>>

\* _heartbeat, its first two transactions: the job's lease, and a look at the
\* generation.  One that nobody has claimed yet needs no beat of its own.
BeatJob(n) ==
    /\ parent[n].pc = "watching" /\ parent[n].due
    /\ child[n].pc \in Live
    /\ \/ /\ Fenced(n) /\ generation.state = "queued"
          /\ job' = Beaten
          /\ parent' = [parent EXCEPT ![n].due = FALSE]
       \/ /\ Fenced(n) /\ generation.state # "queued"
          /\ job' = Beaten
          /\ parent' = [parent EXCEPT ![n].pc = "beating"]
       \/ /\ ~Fenced(n)
          /\ parent' = Losing(n, "failed")
          /\ UNCHANGED job
    /\ UNCHANGED <<generation, used, started, delivered, requests, child, lost, faults>>

\* Its third: the generation's heartbeat, or its time limits.  A generation
\* that is no longer this delivery's own loses the delivery, unless completed: an
\* orphan may hold it, or its own child may just have handed it back.
BeatGeneration(n) ==
    /\ parent[n].pc = "beating"
    /\ \/ /\ Owned(n)
          /\ generation' = [generation EXCEPT !.age = 0]
          /\ parent' = [parent EXCEPT ![n] = [NoParent EXCEPT !.pc = "watching"]]
       \/ /\ Owned(n)
          /\ generation' = Ended("needs_verification")
          /\ parent' = Losing(n, "failed")
       \/ /\ ~Owned(n)
          /\ parent' = IF generation.state = "completed"
                       THEN [parent EXCEPT ![n] = [NoParent EXCEPT !.pc = "watching"]]
                       ELSE Losing(n, "overtaken")
          /\ UNCHANGED generation
    /\ UNCHANGED <<used, started, job, delivered, requests, child, lost, faults>>

\* terminate and _time_out: the child is killed, a generation this delivery
\* still owns needs verification, and the job will fail.
TimeOut(n) ==
    /\ parent[n].pc = "losing"
    /\ child' = Gone(n) /\ lost' = LostWith(n)
    /\ generation' = IF Owned(n) THEN Ended("needs_verification") ELSE generation
    /\ parent' = Closing(n, parent[n].status)
    /\ UNCHANGED <<used, started, job, delivered, requests, faults>>

\* The child left a result: the lease is extended once more, or the result dropped.
Collect(n) ==
    /\ parent[n].pc = "watching"
    /\ child[n].pc \in Results
    /\ IF Fenced(n)
       THEN job' = Beaten /\ parent' = Closing(n, child[n].pc)
       ELSE parent' = [parent EXCEPT ![n] = [NoParent EXCEPT !.pc = "gone"]] /\ UNCHANGED job
    /\ child' = Gone(n)
    /\ UNCHANGED <<generation, used, started, delivered, requests, lost, faults>>

\* _abandon and abandon_generation: a generation this delivery owns is handed back
\* if no call was begun, or needs verification; in every other case the job fails.
GiveUp(n) ==
    \/ /\ Owned(n) /\ ~started
       /\ generation' = Ended("queued")
       /\ parent' = Closing(n, "returned")
    \/ /\ Owned(n) /\ started
       /\ generation' = Ended("needs_verification")
       /\ parent' = Closing(n, "abandoned")
    \/ /\ ~Owned(n)
       /\ parent' = Closing(n, "abandoned")
       /\ UNCHANGED generation

\* The child left no result.
Abandon(n) ==
    /\ parent[n].pc = "watching" /\ child[n].pc = "dead"
    /\ GiveUp(n)
    /\ child' = Gone(n)
    /\ UNCHANGED <<used, started, job, delivered, requests, lost, faults>>

\* _deliver: any other exception of the parent abandons the delivery too.  A child
\* that is alive lives on, unless the exception came after its end.
ParentErrs(n) ==
    /\ \/ parent[n].pc \in {"watching", "beating", "losing"}
       \/ parent[n].pc = "closing" /\ parent[n].status \notin {"returned", "abandoned"}
    /\ faults < MaxFaults
    /\ faults' = faults + 1
    /\ GiveUp(n)
    /\ IF child[n].pc \in Live /\ parent[n].pc # "losing"
       THEN UNCHANGED <<child, lost>>
       ELSE child' = Gone(n) /\ lost' = LostWith(n)
    /\ UNCHANGED <<used, started, job, delivered, requests>>

\* Mutant: a delivery that met another owner gives the job up.
FinishDroppingContended(n) ==
    /\ parent[n].pc = "closing"
    /\ job' = IF parent[n].status \in {"retry", "returned"} THEN Closed(n, "queued", 1)
              ELSE Closed(n, IF parent[n].status = "completed" THEN "completed" ELSE "failed", 0)
    /\ parent' = [parent EXCEPT ![n].pc = "gone"]
    /\ UNCHANGED <<generation, used, started, delivered, requests, child, lost, faults>>

\* The end of a delivery: the job is handed back, at once or later, or closed.
Finish(n) ==
    /\ parent[n].pc = "closing"
    /\ job' = CASE parent[n].status \in {"retry", "returned"} -> Closed(n, "queued", 1)
                [] parent[n].status = "contended" -> Closed(n, "queued", HalfVisibility)
                [] parent[n].status = "stale"     -> Closed(n, "queued", 0)
                [] parent[n].status = "completed" -> Closed(n, "completed", 0)
                [] OTHER                          -> Closed(n, "failed", 0)
    /\ parent' = [parent EXCEPT ![n].pc = "gone"]
    /\ UNCHANGED <<generation, used, started, delivered, requests, child, lost, faults>>

-----------------------------------------------------------------------------
(* The child.                                                              *)

\* The generation's heartbeat is a little younger than the job's lease, so that
\* a whole visibility after it the row may count as alive or as deserted.
Alive    == generation.state = "running" /\ generation.age <= Visibility
Deserted == generation.state = "running" /\ generation.age >= Visibility

\* Mutant: a generation that was deserted is taken over, whatever was begun in it.
ClaimWithoutVerification(n) ==
    /\ child[n].pc = "starting"
    /\ \/ /\ generation.state \in Over
          /\ child' = Left(n, IF generation.state = "completed" THEN "completed" ELSE "failed")
          /\ UNCHANGED <<generation, used>>
       \/ /\ Alive
          /\ child' = Left(n, "contended")
          /\ UNCHANGED <<generation, used>>
       \/ /\ (generation.state = "queued" \/ Deserted) /\ child[n].attempt \notin used
          /\ used' = used \cup {child[n].attempt}
          /\ generation' = [state |-> "running", token |-> n, age |-> 0]
          /\ child' = [child EXCEPT ![n].pc = "claimed"]
    /\ UNCHANGED <<started, job, delivered, requests, parent, lost, faults>>

\* generation_input and claim_generation, under the generation's lock.  An
\* attempt number that was used before breaks a unique key: the whole claim is
\* rolled back and the delivery counts as stale.
Claim(n) ==
    LET attempt == child[n].attempt
        ClaimFor(state) == [state |-> state, token |-> IF state = "running" THEN n ELSE 0, age |-> 0]
    IN  /\ child[n].pc = "starting"
        /\ \/ /\ generation.state \in Over
              /\ child' = Left(n, IF generation.state = "completed" THEN "completed" ELSE "failed")
              /\ UNCHANGED <<generation, used>>
           \/ /\ Alive
              /\ child' = Left(n, "contended")
              /\ UNCHANGED <<generation, used>>
           \/ /\ Deserted /\ started
              /\ generation' = Ended("needs_verification")
              /\ child' = Left(n, "needs_verification")
              /\ UNCHANGED used
           \/ /\ generation.state = "queued" \/ (Deserted /\ ~started)
              /\ attempt \in used
              /\ child' = Left(n, "stale")
              /\ UNCHANGED <<generation, used>>
           \/ /\ generation.state = "queued" \/ (Deserted /\ ~started)
              /\ attempt \notin used
              /\ used' = used \cup {attempt}
              /\ \/ /\ generation' = ClaimFor("running")
                    /\ child' = [child EXCEPT ![n].pc = "claimed"]
                 \/ /\ generation' = ClaimFor("failed")       \* the owner lost access
                    /\ child' = Left(n, "failed")
        /\ UNCHANGED <<started, job, delivered, requests, parent, lost, faults>>

\* _process between the claim and the call: attempts that are used up fail the
\* generation, and its own heartbeat may find the total time over.
Prepare(n) ==
    /\ child[n].pc = "claimed"
    /\ \/ /\ ~Owned(n)
          /\ child' = Left(n, "stale")
          /\ UNCHANGED generation
       \/ /\ Owned(n) /\ child[n].attempt > MaxAttempts
          /\ generation' = Ended("failed")
          /\ child' = Left(n, "failed")
       \/ /\ Owned(n) /\ child[n].attempt <= MaxAttempts
          /\ \/ /\ generation' = [generation EXCEPT !.age = 0]
                /\ child' = [child EXCEPT ![n].pc = "ready"]
             \/ /\ generation' = Ended("needs_verification")
                /\ child' = Left(n, "failed")
    /\ UNCHANGED <<used, started, job, delivered, requests, parent, lost, faults>>

\* execute_generation up to the commit before the provider call.  Anything that
\* fails here ends the generation.
BeginCall(n) ==
    /\ child[n].pc = "ready"
    /\ \/ /\ ~Owned(n)
          /\ child' = Left(n, "stale")
          /\ UNCHANGED <<generation, started>>
       \/ /\ Owned(n)
          /\ started' = TRUE
          /\ child' = [child EXCEPT ![n].pc = "calling"]
          /\ UNCHANGED generation
       \/ /\ Owned(n)
          /\ generation' = Ended("failed")
          /\ child' = Left(n, "failed")
          /\ UNCHANGED started
    /\ UNCHANGED <<used, job, delivered, requests, parent, lost, faults>>

\* The rest of execute_generation and _record_failure: the call answers, is
\* refused for the moment, ends in doubt, or answers with nothing of use.
EndCall(n, answer) ==
    LET retry == answer = "unavailable" /\ child[n].attempt < MaxAttempts
        ending == CASE answer = "body"      -> "completed"
                    [] answer = "uncertain" -> "needs_verification"
                    [] retry                -> "queued"
                    [] OTHER                -> "failed"
        result == IF retry THEN "retry" ELSE ending
    IN  /\ child[n].pc = "calling"
        /\ lost' = IF answer = "uncertain" \/ (answer = "body" /\ ~Owned(n)) THEN lost \cup {n} ELSE lost
        /\ IF Owned(n)
           THEN generation' = Ended(ending) /\ child' = Left(n, result)
           ELSE child' = Left(n, "stale") /\ UNCHANGED generation
        /\ UNCHANGED <<used, started, job, delivered, requests, parent, faults>>

-----------------------------------------------------------------------------
(* Time and faults.                                                        *)

\* A parent missed a beat, or a child took an interval before its call.
Stalled == \E n \in Deliveries : parent[n].due \/ child[n].pc \in Live \ {"calling"}

Tick ==
    /\ IF Stalled THEN faults < MaxFaults /\ faults' = faults + 1 ELSE UNCHANGED faults
    /\ generation' = [generation EXCEPT
                         !.age = IF generation.state = "running" /\ @ <= Visibility THEN @ + 1 ELSE @]
    /\ job' = [job EXCEPT !.left = IF @ > 0 THEN @ - 1 ELSE 0, !.wait = IF @ > 0 THEN @ - 1 ELSE 0]
    /\ parent' = [n \in Deliveries |-> [parent[n] EXCEPT !.due = Watched(n)]]
    /\ UNCHANGED <<used, started, delivered, requests, child, lost>>

\* The worker process dies; its child lives on or dies with it.
ParentDies(n) ==
    /\ parent[n].pc \in {"watching", "beating", "losing", "closing"}
    /\ faults < MaxFaults
    /\ faults' = faults + 1
    /\ parent' = [parent EXCEPT ![n] = [NoParent EXCEPT !.pc = "gone"]]
    /\ \/ child' = Gone(n) /\ lost' = LostWith(n)
       \/ child[n].pc \in Live /\ UNCHANGED <<child, lost>>
    /\ UNCHANGED <<generation, used, started, job, delivered, requests>>

\* The child is killed or leaves by an exception, or never starts; it may also end
\* between the commit of what it did and the sending of its result.
ChildDies(n) ==
    /\ child[n].pc \in Live \cup Results
    /\ faults < MaxFaults
    /\ faults' = faults + 1
    /\ child' = Left(n, "dead") /\ lost' = LostWith(n)
    /\ UNCHANGED <<generation, used, started, job, delivered, requests, parent>>

Answers == {"body", "unavailable", "uncertain", "unusable"}

ParentStep(n) ==
    BeatJob(n) \/ BeatGeneration(n) \/ TimeOut(n) \/ Collect(n) \/ Abandon(n) \/ Finish(n)

ChildStep(n) == Claim(n) \/ Prepare(n) \/ BeginCall(n) \/ \E a \in Answers : EndCall(n, a)

Next ==
    \/ Request
    \/ ClaimJob
    \/ \E n \in Deliveries :
           ParentStep(n) \/ ChildStep(n) \/ ParentErrs(n) \/ ParentDies(n) \/ ChildDies(n)
    \/ Tick

Spec == Init /\ [][Next]_vars

\* The worker polls and its parents beat, children end by themselves (a provider
\* call has a timeout of its own) and time passes; the owner owes nothing.
Fairness ==
    /\ WF_vars(ClaimJob) /\ WF_vars(Tick)
    /\ \A n \in Deliveries : WF_vars(ParentStep(n)) /\ WF_vars(ChildStep(n))

FairSpec == Spec /\ Fairness

-----------------------------------------------------------------------------
(* Properties.                                                             *)

\* Every row and every process keeps its type.
TypeOK ==
    /\ generation \in Generations
    /\ used \subseteq 1 .. MaxDeliveries
    /\ started \in BOOLEAN
    /\ job \in Jobs
    /\ delivered \in 0 .. MaxDeliveries
    /\ requests \in 1 .. MaxRequests
    /\ parent \in [Deliveries -> Parents]
    /\ child \in [Deliveries -> Children]
    /\ lost \subseteq Deliveries
    /\ faults \in 0 .. MaxFaults

\* The provider is never called while another call of the generation is under
\* way or ended without an answer, whichever workers, children and leases were
\* lost ("the provider must not be called again": claim_generation, _abandon).
NoCallIsRepeatedInDoubt ==
    [][\A n \in Deliveries :
          (child[n].pc # "calling" /\ child'[n].pc = "calling") =>
              (lost = {} /\ \A m \in Deliveries : child[m].pc # "calling")]_vars

\* A call without an answer ends in front of a person: the generation is never
\* handed back, failed or completed by a later delivery.
DoubtIsKept == lost # {} => generation.state \in {"running", "needs_verification"}

\* The job of an open generation was failed by a delivery that was abandoned, or whose
\* beat found the generation in other hands or handed back by its own child.  Only an
\* orphan or a new request goes on with it.
Stranded ==
    /\ ~JobOpen /\ generation.state \in Open
    /\ parent[delivered].status \in {"abandoned", "overtaken"}

\* A job is closed only when its generation is over or stranded: no delivery that
\* was contended, stale, handed back or out of time gives up a report that is still
\* wanted, and none archives it.
ClosedJobHasClosedGeneration == ~JobOpen => generation.state \in Over \/ Stranded

\* Every generation ends, through lost leases, dead workers and retries, and stays
\* over, whatever orphans still write; or it is stranded until its owner asks again.
GenerationEnds == <>[](generation.state \in Over \/ Stranded)
=============================================================================
