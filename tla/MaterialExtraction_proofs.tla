---------------------- MODULE MaterialExtraction_proofs ----------------------
(***************************************************************************)
(* Proofs about MaterialExtraction, for every lease, every number of       *)
(* attempts, deliveries and faults.                                        *)
(*                                                                         *)
(* The invariant has a part for every run, one for runs without a fault so *)
(* far (NothingDisturbed) and one for runs with one fault at most          *)
(* (TheOneFault): what a delivery may conclude from its own number depends *)
(* on how often the clocks of the two leases have come apart.              *)
(***************************************************************************)
EXTENDS MaterialExtraction, FiniteSets, FiniteSetTheorems, TLAPS

-----------------------------------------------------------------------------
(* The inductive invariant.                                                *)

\* A row that a heartbeat has just found is not yet stale when the next one is due, as
\* with the worker's heartbeat at a third of a lease that is stale after half of it.
RowOutlastsABeat == StaleAfter > 1 /\ Visibility > 1

\* Children that have not looked at the row yet, or do not exist.
Unclaimed == {n \in Deliveries : child[n].pc \in {"none", "starting"}}

\* A delivery claims the row once.
EachClaimsOnce ==
    /\ row.attempts + Cardinality(Unclaimed) <= MaxDeliveries
    /\ row.owner # 0 => row.owner \notin Unclaimed
    /\ \A n \in Deliveries : n > job.attempts => parent[n].pc = "none" /\ child[n].pc = "none"

\* Nothing is published while a purge is under way.
ContentStands ==
    PurgeMeetsResult = FALSE /\ content = TRUE => row.status = "completed" /\ purging = FALSE

\* Who says that an extraction is over says so of one that is.
OverIsTrue ==
    /\ \A n \in Deliveries :
          /\ child[n].pc \in {"skipped", "completed", "failed"} => row.status \in Over
          /\ parent[n].pc = "closing" /\ parent[n].status \notin {"retry", "contended", "stale"} =>
                row.status \in Over
    /\ job.state = "completed" => row.status \in Over

\* The age of a row whose parent beats in time.
Young(n) == row.age = 0 \/ (row.age = 1 /\ parent[n].due)

\* Without a fault the job and the row count alike, and only the delivery that holds
\* the job has a child.
InStep(n) ==
    /\ child[n].pc \notin {"none", "gone"} => Watched(n) /\ child[n].pc \notin {"contended", "stale", "dead"}
    /\ Watched(n) => /\ n = job.attempts /\ job.state = "running"
                     /\ job.left = IF parent[n].due THEN Visibility - 1 ELSE Visibility
    /\ child[n].pc = "starting" => /\ ~parent[n].due /\ parent[n].pc # "timing" /\ row.status # "running"
                                   /\ row.status = "queued" => row.attempts + 1 = n
    /\ child[n].pc = "parsing" => Running(n, n) /\ child[n].attempt = n /\ Young(n)

Undisturbed == faults = 0 /\ row.status # "purged"

NothingDisturbed ==
    Undisturbed =>
        /\ \A n \in Deliveries : InStep(n)
        /\ row.status = "running" => \E n \in Deliveries : child[n].pc = "parsing"
        /\ row.status = "queued" =>
              row.attempts = job.attempts \/ \E n \in Deliveries : child[n].pc = "starting"

\* One fault at most.
OneFault == MaxFaults <= 1

OthersClaimed(n) == \A m \in Deliveries \ {n} : child[m].pc # "starting"

\* A delivery whose time may run out still holds the row, and nobody will take it.
MayTimeOut(n) ==
    (Watched(n) /\ Fenced(n) /\ row.status \notin Over) =>
        ((parent[n].pc = "timing" /\ child[n].pc \in Live) =>
            /\ child[n].pc = "parsing" /\ Running(n, n)
            /\ OthersClaimed(n) \/ (faults > 0 /\ Young(n)))

TheOneFault ==
    OneFault =>
        /\ \A n \in Deliveries : MayTimeOut(n)
        /\ job.state = "failed" =>
              row.status \in Over \/ (job.attempts \in Deliveries /\ parent[job.attempts].pc = "abandoned")

IndInv ==
    /\ TypeOK /\ EachClaimsOnce /\ ContentStands /\ OverIsTrue
    /\ RowOutlastsABeat => NothingDisturbed /\ TheOneFault

-----------------------------------------------------------------------------
(* What the operators of the model yield.                                  *)

\* The bounds are numbers, and a row is not stale at once.
LEMMA Bounds ==
  /\ MaxDeliveries \in Nat /\ MaxFaults \in Nat /\ Visibility \in Nat /\ Visibility > 0
  /\ StaleAfter \in Nat /\ StaleAfter >= 1
  /\ Deliveries = 1 .. MaxDeliveries
<1>1. Visibility \in Nat /\ Visibility > 0 /\ Visibility \div 2 \in Int
  BY MaterialAssumption
<1> QED BY <1>1, MaterialAssumption DEF StaleAfter, Deliveries

\* A result is left to a parent that waits for it.
LEMMA LeavingAResult ==
  ASSUME TypeOK, NEW n \in Deliveries, NEW result \in Results \cup {"dead"}
  PROVE  /\ Left(n, result) \in [Deliveries -> Children]
         /\ Left(n, result)[n].pc = IF Watched(n) THEN result ELSE "gone"
         /\ \A m \in Deliveries \ {n} : Left(n, result)[m] = child[m]
<1> DEFINE c == [NoChild EXCEPT !.pc = IF Watched(n) THEN result ELSE "gone"]
<1>1. c \in Children /\ c.pc = IF Watched(n) THEN result ELSE "gone"
  BY Bounds DEF Children, NoChild, Results
<1>2. Left(n, result) = [child EXCEPT ![n] = c] /\ child \in [Deliveries -> Children]
  BY DEF Left, TypeOK
<1> HIDE DEF c
<1> QED BY <1>1, <1>2

\* A child that is killed is gone, whatever it left.
LEMMA Killing ==
  ASSUME TypeOK, NEW n \in Deliveries
  PROVE  /\ Terminated(n) \in [Deliveries -> Children] /\ Terminated(n)[n].pc = "gone"
         /\ \A m \in Deliveries \ {n} : Terminated(n)[m] = child[m]
<1> DEFINE c == [NoChild EXCEPT !.pc = "gone"]
<1>1. c \in Children /\ c.pc = "gone"
  BY Bounds DEF Children, NoChild
<1>2. Terminated(n) = [child EXCEPT ![n] = c] /\ child \in [Deliveries -> Children]
  BY DEF Terminated, TypeOK
<1> HIDE DEF c
<1> QED BY <1>1, <1>2

\* The row after an attempt has ended.
LEMMA EndingAnAttempt ==
  ASSUME TypeOK, NEW status \in Open \cup Over
  PROVE  /\ Ended(status) \in Rows /\ Ended(status).status = status
         /\ Ended(status).attempts = row.attempts /\ Ended(status).owner = 0 /\ Ended(status).age = 0
<1>1. row \in Rows /\ 0 \in 0 .. MaxDeliveries /\ 0 \in 0 .. StaleAfter
  BY Bounds DEF TypeOK
<1> QED BY <1>1 DEF Ended, Rows

\* Closing a job under its fence.
LEMMA ClosingAJob ==
  ASSUME TypeOK, NEW n \in Deliveries, NEW state \in {"queued", "completed", "failed"}, NEW delay \in 0 .. StaleAfter
  PROVE  /\ Closed(n, state, delay) \in Jobs /\ Closed(n, state, delay).attempts = job.attempts
         /\ Closed(n, state, delay).state = IF Fenced(n) THEN state ELSE job.state
         /\ ~ Fenced(n) => Closed(n, state, delay) = job
<1> DEFINE j == [job EXCEPT !.state = state, !.left = 0, !.wait = delay]
<1>1. job \in Jobs /\ 0 \in 0 .. Visibility
  BY Bounds DEF TypeOK
<1>2. j \in Jobs /\ j.attempts = job.attempts /\ j.state = state
  BY <1>1 DEF Jobs
<1>3. Closed(n, state, delay) = IF Fenced(n) THEN j ELSE job
  BY DEF Closed
<1> HIDE DEF j
<1> QED BY <1>1, <1>2, <1>3

\* Extending its lease.
LEMMA ExtendingAJob ==
  ASSUME TypeOK
  PROVE  /\ ExtendedJob \in Jobs /\ ExtendedJob.attempts = job.attempts
         /\ ExtendedJob.state = job.state /\ ExtendedJob.left = Visibility
BY Bounds DEF ExtendedJob, TypeOK, Jobs

\* A parent that is gone.
LEMMA GoneParent == Gone \in Parents /\ Gone.pc = "gone"
BY DEF Gone, NoParent, Parents

\* The ways in which a parent gives its delivery up.
GivesUp(n) == Abandon(n) \/ TimeOut(n) \/ ParentErrs(n)

\* What giving a delivery up changes.
LEMMA Failing ==
  ASSUME TypeOK, NEW n \in Deliveries, GivesUp(n)
  PROVE  /\ parent[n].pc \notin {"none", "gone", "abandoned"}
         /\ row' \in Rows /\ row'.attempts = row.attempts
         /\ Running(n, n) => row'.status = "failed" /\ row'.owner = 0 /\ ~ content'
         /\ ~ Running(n, n) => row' = row /\ content' = content
         /\ content' \in BOOLEAN
         /\ job' \in Jobs /\ job'.attempts = job.attempts
         /\ job'.state = IF Fenced(n) THEN "failed" ELSE job.state
         /\ ~ Fenced(n) => job' = job
         /\ parent' \in [Deliveries -> Parents]
         /\ parent'[n].pc = "abandoned" \/ (parent'[n].pc = "gone" /\ TimeOut(n))
         /\ \A m \in Deliveries \ {n} : parent'[m] = parent[m] /\ child'[m] = child[m]
         /\ child' \in [Deliveries -> Children]
         /\ child'[n].pc = "gone" \/ (child[n].pc \in Live /\ child'[n] = child[n])
         /\ \/ faults' = faults /\ child'[n].pc = "gone" /\ ~ ParentErrs(n) /\ Watched(n)
            \/ faults < MaxFaults /\ faults' = faults + 1 /\ ParentErrs(n)
         /\ UNCHANGED <<overdue, purging>>
<1>1. /\ row \in Rows /\ content \in BOOLEAN /\ parent \in [Deliveries -> Parents]
      /\ child \in [Deliveries -> Children] /\ 0 \in 0 .. StaleAfter /\ faults \in Nat
  BY Bounds DEF TypeOK
<1>2. /\ Ended("failed") \in Rows /\ Ended("failed").status = "failed"
      /\ Ended("failed").attempts = row.attempts /\ Ended("failed").owner = 0
  BY EndingAnAttempt DEF Over
<1>3. /\ parent[n].pc \notin {"none", "gone", "abandoned"}
      /\ \/ /\ FailDelivery(n, "abandoned") /\ child' = Terminated(n) /\ faults' = faults /\ Abandon(n)
            /\ Watched(n) /\ child[n].pc = "dead"
         \/ /\ FailDelivery(n, "gone") /\ child' = Terminated(n) /\ faults' = faults /\ TimeOut(n)
            /\ Watched(n) /\ child[n].pc \in Live
         \/ /\ FailDelivery(n, "abandoned") /\ ParentErrs(n) /\ faults < MaxFaults /\ faults' = faults + 1
            /\ child' = IF child[n].pc \in Live THEN child ELSE Terminated(n)
  BY DEF GivesUp, Abandon, TimeOut, ParentErrs, Watched
<1>4. PICK end \in {"abandoned", "gone"} :
          /\ FailDelivery(n, end)
          /\ end = "abandoned" \/ TimeOut(n)
  BY <1>3
<1>5. /\ row' = IF Running(n, n) THEN Ended("failed") ELSE row
      /\ content' = (content /\ ~ Running(n, n))
      /\ job' = Closed(n, "failed", 0) /\ parent' = [parent EXCEPT ![n] = [NoParent EXCEPT !.pc = end]]
      /\ UNCHANGED <<overdue, purging>>
  BY <1>4 DEF FailDelivery
<1>6. /\ job' \in Jobs /\ job'.attempts = job.attempts
      /\ job'.state = IF Fenced(n) THEN "failed" ELSE job.state
      /\ ~ Fenced(n) => job' = job
  BY <1>1, <1>5, ClosingAJob
<1>7. /\ child' \in [Deliveries -> Children]
      /\ child'[n].pc = "gone" \/ (child[n].pc \in Live /\ child'[n] = child[n])
      /\ \A m \in Deliveries \ {n} : child'[m] = child[m]
  BY <1>1, <1>3, Killing
<1>8. /\ parent' \in [Deliveries -> Parents] /\ parent'[n].pc = end
      /\ \A m \in Deliveries \ {n} : parent'[m] = parent[m]
  <2>1. [NoParent EXCEPT !.pc = end] \in Parents /\ [NoParent EXCEPT !.pc = end].pc = end
    BY <1>4 DEF NoParent, Parents
  <2> QED BY <1>1, <1>5, <2>1
<1>9. \/ faults' = faults /\ child'[n].pc = "gone" /\ ~ ParentErrs(n) /\ Watched(n)
      \/ faults < MaxFaults /\ faults' = faults + 1 /\ ParentErrs(n)
  <2>1. ParentErrs(n) => faults' = faults + 1
    BY DEF ParentErrs
  <2> QED BY <1>1, <1>3, <2>1, Killing
<1>10. /\ row' \in Rows /\ row'.attempts = row.attempts /\ content' \in BOOLEAN
       /\ Running(n, n) => row'.status = "failed" /\ row'.owner = 0 /\ ~ content'
       /\ ~ Running(n, n) => row' = row /\ content' = content
  <2>1. Running(n, n) \in BOOLEAN
    BY DEF Running
  <2> QED BY <1>1, <1>2, <1>5, <2>1
<1> QED BY <1>3, <1>4, <1>5, <1>6, <1>7, <1>8, <1>9, <1>10

-----------------------------------------------------------------------------
(* What each step changes.                                                 *)

\* A claim of the job.
LEMMA ClaimingTheJob ==
  ASSUME TypeOK, ClaimJob
  PROVE  LET n == job.attempts + 1
         IN  /\ n \in Deliveries /\ job' \in Jobs /\ job'.state = "running" /\ job'.attempts = n
             /\ job'.left = Visibility
             /\ job.state = "queued" \/ (job.state = "running" /\ job.left = 0)
             /\ parent' \in [Deliveries -> Parents] /\ parent'[n].pc = "watching" /\ parent'[n].due = FALSE
             /\ child' \in [Deliveries -> Children] /\ child'[n].pc = "starting"
             /\ \A m \in Deliveries \ {n} : parent'[m] = parent[m] /\ child'[m] = child[m]
             /\ UNCHANGED <<row, content, overdue, purging, faults>>
<1> DEFINE n == job.attempts + 1
           p == [pc |-> "watching", due |-> FALSE, status |-> "none"]
           c == [child[n] EXCEPT !.pc = "starting"]
<1>1. job.attempts \in 0 .. MaxDeliveries /\ parent \in [Deliveries -> Parents] /\ child \in [Deliveries -> Children]
  BY DEF TypeOK, Jobs
<1>2. n \in Deliveries
  <2>1. n <= MaxDeliveries
    BY <1>1, MaterialAssumption DEF ClaimJob
  <2> QED BY <1>1, <2>1, Bounds
<1>3. /\ job' = [state |-> "running", attempts |-> n, left |-> Visibility, wait |-> 0]
      /\ parent' = [parent EXCEPT ![n] = p] /\ child' = [child EXCEPT ![n].pc = "starting"]
      /\ job.state = "queued" \/ (job.state = "running" /\ job.left = 0)
      /\ UNCHANGED <<row, content, overdue, purging, faults>>
  BY DEF ClaimJob
<1>4. p \in Parents /\ p.pc = "watching" /\ p.due = FALSE
  BY DEF Parents
<1> HIDE DEF n, p
<1>5. child[n] \in Children /\ c \in Children /\ c.pc = "starting"
  BY <1>1, <1>2 DEF Children, Live
<1>6. child' = [child EXCEPT ![n] = c]
  BY <1>3
<1> HIDE DEF c
<1>7. job' \in Jobs
  BY <1>2, <1>3, Bounds DEF Jobs
<1> QED BY <1>1, <1>2, <1>3, <1>4, <1>5, <1>6, <1>7 DEF n

\* A heartbeat, in its four outcomes.
LEMMA Beating ==
  ASSUME TypeOK, NEW n \in Deliveries, Heartbeat(n)
  PROVE  /\ Watched(n) /\ parent[n].due
         /\ \/ /\ Fenced(n) /\ row.status = "queued" /\ parent'[n] = [parent[n] EXCEPT !.due = FALSE]
               /\ parent'[n].pc = parent[n].pc /\ job' = ExtendedJob /\ UNCHANGED <<row, child>>
            \/ /\ Fenced(n) /\ row.status \in Over /\ parent'[n].status = "completed"
               /\ parent'[n].pc = "closing" /\ job' = ExtendedJob /\ row' = row /\ child' = Terminated(n)
            \/ /\ Fenced(n) /\ Running(n, n) /\ row' = [row EXCEPT !.age = 0]
               /\ parent'[n].pc = "timing" /\ job' = ExtendedJob /\ child' = child
            \/ /\ ~ Fenced(n) \/ (row.status = "running" /\ ~ Running(n, n))
               /\ parent'[n].pc = "gone" /\ child' = Terminated(n) /\ UNCHANGED <<row, job>>
         /\ parent'[n].pc # "gone" => parent'[n].due = FALSE
         /\ parent' \in [Deliveries -> Parents] /\ \A m \in Deliveries \ {n} : parent'[m] = parent[m]
         /\ UNCHANGED <<content, overdue, purging, faults>>
<1>1. parent \in [Deliveries -> Parents] /\ parent[n] \in Parents
  BY DEF TypeOK
<1> DEFINE p1 == [parent[n] EXCEPT !.due = FALSE]
           p2 == [pc |-> "closing", due |-> FALSE, status |-> "completed"]
           p3 == [pc |-> "timing", due |-> FALSE, status |-> "none"]
<1>2. /\ p1 \in Parents /\ p1.due = FALSE /\ p1.pc = parent[n].pc
      /\ p2 \in Parents /\ p2.due = FALSE /\ p2.pc = "closing" /\ p2.status = "completed"
      /\ p3 \in Parents /\ p3.due = FALSE /\ p3.pc = "timing"
  BY <1>1 DEF Parents, Results
<1>3. Watched(n) /\ parent[n].due /\ UNCHANGED <<content, overdue, purging, faults>>
  BY DEF Heartbeat
<1>4. \/ /\ Fenced(n) /\ row.status = "queued" /\ parent' = [parent EXCEPT ![n] = p1]
         /\ job' = ExtendedJob /\ UNCHANGED <<row, child>>
      \/ /\ Fenced(n) /\ row.status \in Over /\ parent' = [parent EXCEPT ![n] = p2]
         /\ job' = ExtendedJob /\ row' = row /\ child' = Terminated(n)
      \/ /\ Fenced(n) /\ Running(n, n) /\ row' = [row EXCEPT !.age = 0]
         /\ parent' = [parent EXCEPT ![n] = p3] /\ job' = ExtendedJob /\ child' = child
      \/ /\ ~ Fenced(n) \/ (row.status = "running" /\ ~ Running(n, n))
         /\ parent' = [parent EXCEPT ![n] = Gone] /\ child' = Terminated(n) /\ UNCHANGED <<row, job>>
  <2>1. [parent EXCEPT ![n].due = FALSE] = [parent EXCEPT ![n] = p1]
    BY <1>1
  <2> HIDE DEF p1, p2, p3
  <2> QED BY <2>1 DEF Heartbeat, p2, p3
<1>5. p1 = [parent[n] EXCEPT !.due = FALSE]
  OBVIOUS
<1> HIDE DEF p1, p2, p3
<1> QED BY <1>1, <1>2, <1>3, <1>4, <1>5, GoneParent

\* A claim of the row, in its four outcomes.
LEMMA ClaimingTheRow ==
  ASSUME TypeOK, NEW n \in Deliveries, ClaimRow(n)
  PROVE  /\ child[n].pc = "starting"
         /\ \/ row.status \in Over /\ child' = Left(n, "skipped") /\ UNCHANGED <<row, content>>
            \/ row.status \in Open /\ ~ Takeable(n) /\ child' = Left(n, "contended") /\ UNCHANGED <<row, content>>
            \/ /\ row.status \in Open /\ Takeable(n) /\ content' = content
               /\ row' = [status |-> "running", attempts |-> row.attempts + 1, owner |-> n, age |-> 0]
               /\ child' = [child EXCEPT ![n] = [pc |-> "parsing", attempt |-> row.attempts + 1]]
            \/ /\ row.status \in Open /\ ~ content' /\ content' \in BOOLEAN /\ child' = Left(n, "failed")
               /\ row'.status = "failed" /\ row'.attempts = row.attempts + 1 /\ row'.owner = 0 /\ row'.age = 0
               /\ row' = [Ended("failed") EXCEPT !.attempts = @ + 1]
         /\ UNCHANGED <<job, parent, overdue, purging, faults>>
<1>1. Ended("failed") \in Rows /\ Ended("failed").status = "failed" /\ Ended("failed").owner = 0
      /\ Ended("failed").attempts = row.attempts /\ Ended("failed").age = 0
  BY EndingAnAttempt DEF Over
<1>2. row' = [Ended("failed") EXCEPT !.attempts = @ + 1] =>
        row'.status = "failed" /\ row'.attempts = row.attempts + 1 /\ row'.owner = 0 /\ row'.age = 0
  BY <1>1 DEF Rows
<1> QED BY <1>2 DEF ClaimRow

\* The child's end, in its three outcomes.
LEMMA Publishing ==
  ASSUME TypeOK, NEW n \in Deliveries, NEW outcome \in {"completed", "failed", "transient"}, Publish(n, outcome)
  PROVE  LET mine == Running(n, child[n].attempt) /\ row.age < StaleAfter
         IN  /\ child[n].pc = "parsing" /\ (purging => PurgeMeetsResult)
             /\ \/ ~ mine /\ child' = Left(n, "stale") /\ UNCHANGED <<row, content>>
                \/ mine /\ row' = Ended("queued") /\ child' = Left(n, "retry") /\ content' = content
                \/ \E result \in {"completed", "failed"} :
                     mine /\ row' = Ended(result) /\ content' = (result = "completed") /\ child' = Left(n, result)
             /\ UNCHANGED <<job, parent, overdue, purging, faults>>
BY DEF Publish

\* The passing of time.
LEMMA Ticking ==
  ASSUME TypeOK, Tick
  PROVE  /\ IF Stalled THEN faults < MaxFaults /\ faults' = faults + 1 ELSE UNCHANGED faults
         /\ row' \in Rows /\ row'.status = row.status /\ row'.attempts = row.attempts /\ row'.owner = row.owner
         /\ row'.age = IF row.status = "running" /\ row.age < StaleAfter THEN row.age + 1 ELSE row.age
         /\ job' \in Jobs /\ job'.state = job.state /\ job'.attempts = job.attempts
         /\ job'.left = IF job.left > 0 THEN job.left - 1 ELSE 0
         /\ parent' \in [Deliveries -> Parents]
         /\ \A n \in Deliveries : /\ parent'[n].pc = parent[n].pc /\ parent'[n].status = parent[n].status
                                  /\ parent'[n].due = Watched(n)
         /\ UNCHANGED <<content, child, overdue, purging>>
<1>1. /\ row \in Rows /\ job \in Jobs /\ parent \in [Deliveries -> Parents]
      /\ parent' = [n \in Deliveries |-> [parent[n] EXCEPT !.due = Watched(n)]]
  BY DEF TypeOK, Tick
<1>2. ASSUME NEW n \in Deliveries
      PROVE  /\ parent'[n] \in Parents /\ parent'[n].pc = parent[n].pc /\ parent'[n].status = parent[n].status
             /\ parent'[n].due = Watched(n)
  <2>1. Watched(n) \in BOOLEAN
    BY DEF Watched
  <2> QED BY <1>1, <2>1 DEF Parents
<1>3. /\ row' \in Rows /\ row'.status = row.status /\ row'.attempts = row.attempts /\ row'.owner = row.owner
      /\ row'.age = IF row.status = "running" /\ row.age < StaleAfter THEN row.age + 1 ELSE row.age
  <2> DEFINE a == IF row.status = "running" /\ row.age < StaleAfter THEN row.age + 1 ELSE row.age
  <2>1. row' = [row EXCEPT !.age = a] /\ a \in 0 .. StaleAfter
    BY <1>1, Bounds DEF Tick, Rows
  <2> HIDE DEF a
  <2>2. row' \in Rows /\ row'.status = row.status /\ row'.attempts = row.attempts /\ row'.owner = row.owner
        /\ row'.age = a
    BY <1>1, <2>1 DEF Rows
  <2> QED BY <2>2 DEF a
<1>4. /\ job' \in Jobs /\ job'.state = job.state /\ job'.attempts = job.attempts
      /\ job'.left = IF job.left > 0 THEN job.left - 1 ELSE 0
  <2> DEFINE l == IF job.left > 0 THEN job.left - 1 ELSE 0
             w == IF job.wait > 0 THEN job.wait - 1 ELSE 0
  <2>1. job' = [job EXCEPT !.left = l, !.wait = w] /\ l \in 0 .. Visibility /\ w \in 0 .. StaleAfter
    BY <1>1, Bounds DEF Tick, Jobs
  <2> HIDE DEF l, w
  <2>2. job' \in Jobs /\ job'.state = job.state /\ job'.attempts = job.attempts /\ job'.left = l
    BY <1>1, <2>1 DEF Jobs
  <2> QED BY <2>2 DEF l
<1>5. parent' \in [Deliveries -> Parents]
  BY <1>1, <1>2
<1> QED BY <1>2, <1>3, <1>4, <1>5 DEF Tick

\* The collection of a result.
LEMMA Collecting ==
  ASSUME TypeOK, NEW n \in Deliveries, Collect(n)
  PROVE  /\ Watched(n) /\ child[n].pc \in Results /\ child' = Terminated(n)
         /\ \/ Fenced(n) /\ job' = ExtendedJob /\ parent'[n].pc = "closing" /\ parent'[n].status = child[n].pc
            \/ ~ Fenced(n) /\ job' = job /\ parent'[n].pc = "gone"
         /\ parent' \in [Deliveries -> Parents] /\ \A m \in Deliveries \ {n} : parent'[m] = parent[m]
         /\ UNCHANGED <<row, content, overdue, purging, faults>>
<1> DEFINE p == [pc |-> "closing", due |-> FALSE, status |-> child[n].pc]
<1>1. parent \in [Deliveries -> Parents]
  BY DEF TypeOK
<1>2. /\ Watched(n) /\ child[n].pc \in Results /\ child' = Terminated(n)
      /\ \/ Fenced(n) /\ job' = ExtendedJob /\ parent' = [parent EXCEPT ![n] = p]
         \/ ~ Fenced(n) /\ job' = job /\ parent' = [parent EXCEPT ![n] = Gone]
      /\ UNCHANGED <<row, content, overdue, purging, faults>>
  BY DEF Collect
<1>3. p \in Parents /\ p.pc = "closing" /\ p.status = child[n].pc
  BY <1>2 DEF Parents
<1> HIDE DEF p
<1> QED BY <1>1, <1>2, <1>3, GoneParent

\* The end of the transport: handed back, or archived.
LEMMA FinishingTheTransport ==
  ASSUME TypeOK, NEW n \in Deliveries, FinishTransport(n)
  PROVE  /\ parent[n].pc = "closing" /\ parent'[n].pc = "gone"
         /\ job' \in Jobs /\ job'.attempts = job.attempts
         /\ \/ job'.state \in {job.state, "queued"}
            \/ Fenced(n) /\ parent[n].status \notin {"retry", "contended", "stale"} /\ job'.state = "completed"
         /\ Fenced(n) \/ job' = job
         /\ parent' \in [Deliveries -> Parents] /\ \A m \in Deliveries \ {n} : parent'[m] = parent[m]
         /\ UNCHANGED <<row, content, child, overdue, purging, faults>>
<1>1. parent[n].pc = "closing" /\ parent \in [Deliveries -> Parents] /\ parent' = [parent EXCEPT ![n] = Gone]
  BY DEF FinishTransport, TypeOK
<1>2. 0 \in 0 .. StaleAfter /\ 1 \in 0 .. StaleAfter /\ StaleAfter \in 0 .. StaleAfter
  BY Bounds
<1>3. \/ \E delay \in 0 .. StaleAfter : job' = Closed(n, "queued", delay)
      \/ parent[n].status \notin {"retry", "contended", "stale"} /\ job' = Closed(n, "completed", 0)
  BY <1>2 DEF FinishTransport
<1>4. CASE \E delay \in 0 .. StaleAfter : job' = Closed(n, "queued", delay)
  BY <1>1, <1>4, ClosingAJob, GoneParent DEF FinishTransport
<1>5. CASE parent[n].status \notin {"retry", "contended", "stale"} /\ job' = Closed(n, "completed", 0)
  BY <1>1, <1>2, <1>5, ClosingAJob, GoneParent DEF FinishTransport
<1> QED BY <1>3, <1>4, <1>5

\* The death of a parent or of a child.
LEMMA Dying ==
  ASSUME TypeOK, NEW n \in Deliveries, ParentDies(n) \/ ChildDies(n)
  PROVE  /\ faults < MaxFaults /\ faults' = faults + 1
         /\ \/ /\ parent[n].pc \notin {"none", "gone"} /\ parent'[n].pc = "gone"
               /\ child' = Terminated(n) \/ child' = child
            \/ /\ child[n].pc \in Live \cup Results /\ child' = Left(n, "dead") /\ parent' = parent
         /\ parent' \in [Deliveries -> Parents] /\ \A m \in Deliveries \ {n} : parent'[m] = parent[m]
         /\ UNCHANGED <<row, content, job, overdue, purging>>
<1>1. parent \in [Deliveries -> Parents]
  BY DEF TypeOK
<1>2. CASE ParentDies(n)
  BY <1>1, <1>2, GoneParent DEF ParentDies
<1>3. CASE ChildDies(n)
  BY <1>1, <1>3 DEF ChildDies
<1> QED BY <1>2, <1>3

\* The steps, one by one.
LEMMA Steps ==
  ASSUME [Next]_vars
  PROVE  \/ ClaimJob \/ BeginPurge \/ EndPurge \/ Tick \/ TotalTimeOver \/ UNCHANGED vars
         \/ \E n \in Deliveries :
               \/ Heartbeat(n) \/ Collect(n) \/ FinishTransport(n) \/ ParentDies(n) \/ ChildDies(n)
               \/ GivesUp(n)
               \/ ClaimRow(n) \/ \E o \in {"completed", "failed", "transient"} : Publish(n, o)
BY DEF Next, CloseDelivery, ChildStep, GivesUp

-----------------------------------------------------------------------------
(* Types, and the count of claims.                                         *)

\* Before the first delivery nothing has been done.
LEMMA Beginning == Init => IndInv
<1> SUFFICES ASSUME Init PROVE IndInv
  OBVIOUS
<1>1. /\ row.status = "queued" /\ row.attempts = 0 /\ row.owner = 0 /\ row.age = 0 /\ content = FALSE
      /\ job.state = "queued" /\ job.attempts = 0
      /\ parent = [n \in Deliveries |-> NoParent] /\ child = [n \in Deliveries |-> NoChild]
      /\ overdue = FALSE /\ purging = FALSE /\ faults = 0
  BY DEF Init
<1>2. NoParent.pc = "none" /\ NoChild.pc = "none"
  BY DEF NoParent, NoChild
<1>3. TypeOK
  <2>1. row \in Rows /\ job \in Jobs
    BY Bounds DEF Init, Rows, Jobs, Open
  <2>2. NoParent \in Parents /\ NoChild \in Children
    BY Bounds DEF NoParent, NoChild, Parents, Children
  <2>3. parent \in [Deliveries -> Parents] /\ child \in [Deliveries -> Children] /\ faults \in 0 .. MaxFaults
    BY <1>1, <2>2, Bounds
  <2> QED BY <1>1, <2>1, <2>3 DEF TypeOK
<1>4. EachClaimsOnce
  <2>1. Unclaimed = 1 .. MaxDeliveries
    BY <1>1, <1>2, Bounds DEF Unclaimed
  <2>2. Cardinality(Unclaimed) = MaxDeliveries
    BY <2>1, Bounds, FS_Interval
  <2> QED BY <1>1, <1>2, <2>2, Bounds DEF EachClaimsOnce
<1>5. ContentStands /\ OverIsTrue
  BY <1>1, <1>2 DEF ContentStands, OverIsTrue
<1>6. NothingDisturbed /\ TheOneFault
  BY <1>1, <1>2 DEF NothingDisturbed, InStep, Watched, TheOneFault, MayTimeOut
<1> QED BY <1>3, <1>4, <1>5, <1>6 DEF IndInv


\* No step makes a child that has claimed fresh again, and each claim takes one that is.
LEMMA Claims ==
  ASSUME TypeOK, EachClaimsOnce, [Next]_vars
  PROVE  /\ Unclaimed' \subseteq Unclaimed
         /\ \/ row'.attempts = row.attempts
            \/ /\ row'.attempts = row.attempts + 1
               /\ \E n \in Unclaimed : n \notin Unclaimed'
<1> DEFINE Fewer == \A m \in Deliveries : child'[m].pc \in {"none", "starting"} => child[m].pc \in {"none", "starting"}
<1>1. SUFFICES /\ Fewer
               /\ \/ row'.attempts = row.attempts
                  \/ /\ row'.attempts = row.attempts + 1
                     /\ \E n \in Deliveries : child[n].pc = "starting" /\ child'[n].pc \notin {"none", "starting"}
  BY DEF Unclaimed
<1>2. row \in Rows /\ row.attempts \in Nat /\ child \in [Deliveries -> Children]
  BY Bounds DEF TypeOK, Rows
<1>3. CASE ClaimJob
  <2> DEFINE n == job.attempts + 1
  <2>1. /\ n \in Deliveries /\ child'[n].pc = "starting" /\ row' = row
        /\ \A m \in Deliveries \ {n} : child'[m] = child[m]
    BY <1>3, ClaimingTheJob
  <2>2. n > job.attempts
    BY DEF TypeOK, Jobs
  <2>3. child[n].pc = "none"
    BY <2>1, <2>2 DEF EachClaimsOnce
  <2> HIDE DEF n
  <2> QED BY <2>1, <2>3
<1>4. CASE BeginPurge \/ TotalTimeOver \/ UNCHANGED vars
  BY <1>4 DEF BeginPurge, TotalTimeOver, vars
<1>5. CASE EndPurge
  BY <1>2, <1>5 DEF EndPurge, Rows
<1>6. CASE Tick
  BY <1>6, Ticking
<1>7. ASSUME NEW n \in Deliveries, Heartbeat(n) PROVE Fewer /\ row'.attempts = row.attempts
  <2>1. row' = row \/ row' = [row EXCEPT !.age = 0]
    BY <1>7, Beating
  <2>2. row'.attempts = row.attempts
    BY <1>2, <2>1 DEF Rows
  <2>3. child' = child \/ child' = Terminated(n)
    BY <1>7, Beating
  <2>4. Fewer
    BY <2>3, Killing
  <2> QED BY <2>2, <2>4
<1>8. ASSUME NEW n \in Deliveries, Collect(n) PROVE Fewer /\ row'.attempts = row.attempts
  BY <1>8, Collecting, Killing
<1>9. ASSUME NEW n \in Deliveries, FinishTransport(n) PROVE Fewer /\ row'.attempts = row.attempts
  BY <1>9, FinishingTheTransport
<1>10. ASSUME NEW n \in Deliveries, ParentDies(n) \/ ChildDies(n) PROVE Fewer /\ row'.attempts = row.attempts
  <2>1. Left(n, "dead")[n].pc \notin {"none", "starting"}
    BY LeavingAResult
  <2> QED BY <1>10, <2>1, Dying, Killing, LeavingAResult
<1>11. ASSUME NEW n \in Deliveries, GivesUp(n) PROVE Fewer /\ row'.attempts = row.attempts
  BY <1>11, Failing
<1>12. ASSUME NEW n \in Deliveries, ClaimRow(n)
       PROVE  /\ Fewer
              /\ \/ row'.attempts = row.attempts
                 \/ /\ row'.attempts = row.attempts + 1
                    /\ child[n].pc = "starting" /\ child'[n].pc \notin {"none", "starting"}
  <2>1. \A result \in {"skipped", "contended", "failed"} :
           /\ Left(n, result)[n].pc \notin {"none", "starting"}
           /\ \A m \in Deliveries \ {n} : Left(n, result)[m] = child[m]
    BY LeavingAResult DEF Results
  <2>2. CASE child' = [child EXCEPT ![n] = [pc |-> "parsing", attempt |-> row.attempts + 1]]
    <3>1. child'[n].pc = "parsing" /\ \A m \in Deliveries \ {n} : child'[m] = child[m]
      BY <1>2, <2>2
    <3> QED BY <1>2, <1>12, <2>1, <3>1, ClaimingTheRow
  <2>3. CASE \E result \in {"skipped", "contended", "failed"} : child' = Left(n, result)
    BY <1>2, <1>12, <2>1, <2>3, ClaimingTheRow
  <2> QED BY <1>12, <2>2, <2>3, ClaimingTheRow
<1>13. ASSUME NEW n \in Deliveries, NEW o \in {"completed", "failed", "transient"}, Publish(n, o)
       PROVE  Fewer /\ row'.attempts = row.attempts
  <2>1. \A result \in {"stale", "retry", "completed", "failed"} :
           /\ Left(n, result)[n].pc \notin {"none", "starting"}
           /\ \A m \in Deliveries \ {n} : Left(n, result)[m] = child[m]
    BY LeavingAResult DEF Results
  <2>2. \A status \in {"queued", "completed", "failed"} : Ended(status).attempts = row.attempts
    BY EndingAnAttempt DEF Open, Over
  <2>3. \E result \in {"stale", "retry", "completed", "failed"} : child' = Left(n, result)
    BY <1>13, Publishing
  <2>4. row' = row \/ \E status \in {"queued", "completed", "failed"} : row' = Ended(status)
    BY <1>13, Publishing
  <2> QED BY <2>1, <2>2, <2>3, <2>4
<1> HIDE DEF Fewer
<1> QED BY <1>3, <1>4, <1>5, <1>6, <1>7, <1>8, <1>9, <1>10, <1>11, <1>12, <1>13, Steps

\* So the row counts no more attempts than there are deliveries.
LEMMA AttemptsAreBounded ==
  ASSUME TypeOK, EachClaimsOnce, [Next]_vars
  PROVE  row'.attempts + Cardinality(Unclaimed') <= MaxDeliveries /\ row'.attempts \in 0 .. MaxDeliveries
<1>1. IsFiniteSet(Deliveries) /\ Unclaimed \subseteq Deliveries
  BY Bounds, FS_Interval DEF Unclaimed
<1>2. IsFiniteSet(Unclaimed)
  BY <1>1, FS_Subset
<1>3. Cardinality(Unclaimed) \in Nat /\ row.attempts \in Nat
  BY <1>2, FS_CardinalityType, Bounds DEF TypeOK, Rows
<1>4. row.attempts + Cardinality(Unclaimed) <= MaxDeliveries
  BY DEF EachClaimsOnce
<1>5. /\ Unclaimed' \subseteq Unclaimed
      /\ \/ row'.attempts = row.attempts
         \/ row'.attempts = row.attempts + 1 /\ \E n \in Unclaimed : n \notin Unclaimed'
  BY Claims
<1>6. IsFiniteSet(Unclaimed') /\ Cardinality(Unclaimed') <= Cardinality(Unclaimed) /\ Cardinality(Unclaimed') \in Nat
  <2> DEFINE U == Unclaimed'
  <2>1. U \in SUBSET Unclaimed
    BY <1>5
  <2> HIDE DEF U
  <2>2. IsFiniteSet(U) /\ Cardinality(U) <= Cardinality(Unclaimed) /\ Cardinality(U) \in Nat
    BY <1>2, <2>1, FS_Subset, FS_CardinalityType
  <2> QED BY <2>2 DEF U
<1>7. CASE row'.attempts = row.attempts
  BY <1>3, <1>4, <1>6, <1>7, Bounds
<1>8. CASE row'.attempts = row.attempts + 1 /\ \E n \in Unclaimed : n \notin Unclaimed'
  <2> DEFINE U == Unclaimed'
  <2>1. PICK n \in Unclaimed : n \notin U
    BY <1>8
  <2>2. U \in SUBSET (Unclaimed \ {n})
    BY <1>5, <2>1
  <2> HIDE DEF U
  <2>3. IsFiniteSet(Unclaimed \ {n}) /\ Cardinality(Unclaimed \ {n}) = Cardinality(Unclaimed) - 1
    BY <1>2, <2>1, FS_RemoveElement
  <2>4. Cardinality(U) <= Cardinality(Unclaimed) - 1
    BY <2>2, <2>3, FS_Subset
  <2>5. Cardinality(Unclaimed') <= Cardinality(Unclaimed) - 1
    BY <2>4 DEF U
  <2> QED BY <1>3, <1>4, <1>6, <1>8, <2>5, Bounds
<1> QED BY <1>5, <1>7, <1>8

\* Every step keeps the types.
LEMMA TypesAreKept ==
  ASSUME TypeOK, EachClaimsOnce, [Next]_vars
  PROVE  TypeOK'
<1>1. /\ row \in Rows /\ content \in BOOLEAN /\ job \in Jobs /\ parent \in [Deliveries -> Parents]
      /\ child \in [Deliveries -> Children] /\ overdue \in BOOLEAN /\ purging \in BOOLEAN /\ faults \in 0 .. MaxFaults
  BY DEF TypeOK
<1>2. row'.attempts \in 0 .. MaxDeliveries
  BY AttemptsAreBounded
<1>3. CASE ClaimJob
  BY <1>1, <1>3, ClaimingTheJob DEF TypeOK
<1>4. CASE BeginPurge \/ TotalTimeOver \/ UNCHANGED vars
  BY <1>1, <1>4 DEF BeginPurge, TotalTimeOver, vars, TypeOK
<1>5. CASE EndPurge
  <2>1. row' \in Rows
    BY <1>1, <1>5 DEF EndPurge, Rows, Over
  <2> QED BY <1>1, <1>5, <2>1 DEF EndPurge, TypeOK
<1>6. CASE Tick
  <2>1. faults' \in 0 .. MaxFaults
    BY <1>1, <1>6, Ticking, Bounds
  <2> QED BY <1>1, <1>6, <2>1, Ticking DEF TypeOK
<1>7. ASSUME NEW n \in Deliveries, Heartbeat(n) PROVE TypeOK'
  <2>1. row' \in Rows /\ job' \in Jobs /\ child' \in [Deliveries -> Children]
    <3>1. [row EXCEPT !.age = 0] \in Rows
      BY <1>1, Bounds DEF Rows
    <3> QED BY <1>1, <1>7, <3>1, Beating, Killing, ExtendingAJob
  <2> QED BY <1>1, <1>7, <2>1, Beating DEF TypeOK
<1>8. ASSUME NEW n \in Deliveries, Collect(n) PROVE TypeOK'
  BY <1>1, <1>8, Collecting, Killing, ExtendingAJob DEF TypeOK
<1>9. ASSUME NEW n \in Deliveries, FinishTransport(n) PROVE TypeOK'
  BY <1>1, <1>9, FinishingTheTransport DEF TypeOK
<1>10. ASSUME NEW n \in Deliveries, ParentDies(n) \/ ChildDies(n) PROVE TypeOK'
  <2>1. faults' \in 0 .. MaxFaults /\ child' \in [Deliveries -> Children]
    BY <1>1, <1>10, Dying, Killing, LeavingAResult, Bounds
  <2> QED BY <1>1, <1>10, <2>1, Dying DEF TypeOK
<1>11. ASSUME NEW n \in Deliveries, GivesUp(n) PROVE TypeOK'
  <2>1. faults' \in 0 .. MaxFaults
    BY <1>1, <1>11, Failing, Bounds
  <2> QED BY <1>1, <1>11, <2>1, Failing DEF TypeOK
<1>12. ASSUME NEW n \in Deliveries, ClaimRow(n) PROVE TypeOK'
  <2>1. \A result \in {"skipped", "contended", "failed"} : Left(n, result) \in [Deliveries -> Children]
    BY LeavingAResult DEF Results
  <2>2. /\ row' = [status |-> "running", attempts |-> row.attempts + 1, owner |-> n, age |-> 0] =>
              row' \in Rows /\ [pc |-> "parsing", attempt |-> row.attempts + 1] \in Children
    BY <1>2, Bounds DEF Rows, Children, Live, Open
  <2>3. row' = [Ended("failed") EXCEPT !.attempts = @ + 1] => row' \in Rows
    <3>1. Ended("failed") \in Rows /\ Ended("failed").attempts = row.attempts
      BY EndingAnAttempt DEF Over
    <3> QED BY <1>2, <3>1 DEF Rows
  <2>4. row' \in Rows /\ child' \in [Deliveries -> Children] /\ content' \in BOOLEAN
    BY <1>1, <1>12, <2>1, <2>2, <2>3, ClaimingTheRow
  <2> QED BY <1>1, <1>12, <2>4, ClaimingTheRow DEF TypeOK
<1>13. ASSUME NEW n \in Deliveries, NEW o \in {"completed", "failed", "transient"}, Publish(n, o) PROVE TypeOK'
  <2>1. \A result \in {"stale", "retry", "completed", "failed"} : Left(n, result) \in [Deliveries -> Children]
    BY LeavingAResult DEF Results
  <2>2. \A status \in {"queued", "completed", "failed"} : Ended(status) \in Rows
    BY EndingAnAttempt DEF Open, Over
  <2>3. row' \in Rows /\ child' \in [Deliveries -> Children] /\ content' \in BOOLEAN
    BY <1>1, <1>13, <2>1, <2>2, Publishing
  <2> QED BY <1>1, <1>13, <2>3, Publishing DEF TypeOK
<1> QED BY <1>3, <1>4, <1>5, <1>6, <1>7, <1>8, <1>9, <1>10, <1>11, <1>12, <1>13, Steps

-----------------------------------------------------------------------------
(* The parts of the invariant for every run.                               *)

\* The owner of the row has claimed it, and deliveries that are to come have done nothing.
LEMMA ClaimsStayCounted ==
  ASSUME TypeOK, EachClaimsOnce, [Next]_vars
  PROVE  EachClaimsOnce'
<1>1. row'.attempts + Cardinality(Unclaimed') <= MaxDeliveries
  BY AttemptsAreBounded
<1>2. Unclaimed' \subseteq Unclaimed
  BY Claims
<1>3. row \in Rows /\ child \in [Deliveries -> Children] /\ job.attempts \in Nat
  BY Bounds DEF TypeOK, Jobs
<1> DEFINE Owned  == row'.owner \in {0, row.owner} \/ (row'.owner \in Deliveries /\ row'.owner \notin Unclaimed')
           ToCome == \A m \in Deliveries : m > job'.attempts =>
                        m > job.attempts /\ parent'[m].pc = parent[m].pc /\ child'[m] = child[m]
<1>4. SUFFICES Owned /\ ToCome
  BY <1>1, <1>2 DEF EachClaimsOnce
<1>5. \A m \in Deliveries : m > job.attempts =>
         ~ Watched(m) /\ parent[m].pc = "none" /\ child[m].pc = "none"
  BY DEF EachClaimsOnce, Watched
<1>6. CASE ClaimJob
  <2>1. row' = row /\ job'.attempts = job.attempts + 1
        /\ \A m \in Deliveries \ {job.attempts + 1} : parent'[m] = parent[m] /\ child'[m] = child[m]
    BY <1>6, ClaimingTheJob
  <2> QED BY <1>3, <2>1, Bounds
<1>7. CASE BeginPurge \/ TotalTimeOver \/ UNCHANGED vars
  BY <1>7 DEF BeginPurge, TotalTimeOver, vars
<1>8. CASE EndPurge
  BY <1>3, <1>8 DEF EndPurge, Rows
<1>9. CASE Tick
  BY <1>9, Ticking
<1>10. ASSUME NEW n \in Deliveries, Heartbeat(n) PROVE Owned /\ ToCome
  <2>1. row' = row \/ row' = [row EXCEPT !.age = 0]
    BY <1>10, Beating
  <2>2. row'.owner = row.owner
    BY <1>3, <2>1 DEF Rows
  <2>3. job' = job \/ job' = ExtendedJob
    BY <1>10, Beating
  <2>4. child' = child \/ child' = Terminated(n)
    BY <1>10, Beating
  <2>5. ~ (n > job.attempts) /\ \A m \in Deliveries \ {n} : parent'[m] = parent[m]
    BY <1>5, <1>10, Beating
  <2> QED BY <2>2, <2>3, <2>4, <2>5, Killing, ExtendingAJob
<1>11. ASSUME NEW n \in Deliveries, Collect(n) PROVE Owned /\ ToCome
  BY <1>5, <1>11, Collecting, Killing, ExtendingAJob
<1>12. ASSUME NEW n \in Deliveries, FinishTransport(n) PROVE Owned /\ ToCome
  BY <1>5, <1>12, FinishingTheTransport
<1>13. ASSUME NEW n \in Deliveries, ParentDies(n) \/ ChildDies(n) PROVE Owned /\ ToCome
  <2>1. ~ (n > job.attempts)
    BY <1>5, <1>13, Dying DEF Live, Results
  <2> QED BY <1>13, <2>1, Dying, Killing, LeavingAResult
<1>14. ASSUME NEW n \in Deliveries, GivesUp(n) PROVE Owned /\ ToCome
  <2>1. ~ (n > job.attempts)
    BY <1>5, <1>14, Failing
  <2> QED BY <1>14, <2>1, Failing
<1>15. ASSUME NEW n \in Deliveries, ClaimRow(n) PROVE Owned /\ ToCome
  <2>1. child[n].pc = "starting" /\ job' = job /\ parent' = parent
    BY <1>15, ClaimingTheRow
  <2>2. \A result \in {"skipped", "contended", "failed"} :
           \A m \in Deliveries \ {n} : Left(n, result)[m] = child[m]
    BY LeavingAResult DEF Results
  <2>3. \A m \in Deliveries \ {n} : child'[m] = child[m]
    BY <1>3, <1>15, <2>2, ClaimingTheRow
  <2>4. ToCome
    BY <1>5, <2>1, <2>3
  <2>5. Owned
    <3>1. CASE row' = [status |-> "running", attempts |-> row.attempts + 1, owner |-> n, age |-> 0]
               /\ child' = [child EXCEPT ![n] = [pc |-> "parsing", attempt |-> row.attempts + 1]]
      <4>1. row'.owner = n /\ child'[n].pc = "parsing"
        BY <1>3, <3>1
      <4> QED BY <4>1 DEF Unclaimed
    <3>2. CASE row' = row \/ row'.owner = 0
      BY <3>2
    <3> QED BY <1>15, <3>1, <3>2, ClaimingTheRow
  <2> QED BY <2>4, <2>5
<1>16. ASSUME NEW n \in Deliveries, NEW o \in {"completed", "failed", "transient"}, Publish(n, o)
       PROVE  Owned /\ ToCome
  <2>1. child[n].pc = "parsing" /\ job' = job /\ parent' = parent
    BY <1>16, Publishing
  <2>2. \A result \in {"stale", "retry", "completed", "failed"} :
           \A m \in Deliveries \ {n} : Left(n, result)[m] = child[m]
    BY LeavingAResult DEF Results
  <2>3. \A status \in {"queued", "completed", "failed"} : Ended(status).owner = 0
    BY EndingAnAttempt DEF Open, Over
  <2>4. \A m \in Deliveries \ {n} : child'[m] = child[m]
    BY <1>16, <2>2, Publishing
  <2>5. row' = row \/ row'.owner = 0
    BY <1>16, <2>3, Publishing
  <2> QED BY <1>5, <2>1, <2>4, <2>5
<1> HIDE DEF Owned, ToCome
<1> QED BY <1>6, <1>7, <1>8, <1>9, <1>10, <1>11, <1>12, <1>13, <1>14, <1>15, <1>16, Steps

\* An extraction that is over stays over.
LEMMA OverStaysOver ==
  ASSUME TypeOK, [Next]_vars
  PROVE  row.status \in Over => row'.status \in {row.status, "purged"}
<1> SUFFICES ASSUME row.status \in Over PROVE row'.status \in {row.status, "purged"}
  OBVIOUS
<1>1. row.status # "running" /\ row.status \notin Open /\ row \in Rows
  BY DEF Over, Open, TypeOK
<1>2. \A n, a : ~ Running(n, a)
  BY <1>1 DEF Running
<1>3. CASE ClaimJob \/ BeginPurge \/ TotalTimeOver \/ UNCHANGED vars
  BY <1>3 DEF ClaimJob, BeginPurge, TotalTimeOver, vars
<1>4. CASE EndPurge
  BY <1>1, <1>4 DEF EndPurge, Rows
<1>5. CASE Tick
  BY <1>5, Ticking
<1>6. ASSUME NEW n \in Deliveries, Heartbeat(n) PROVE row' = row
  BY <1>2, <1>6, Beating
<1>7. ASSUME NEW n \in Deliveries, Collect(n) \/ FinishTransport(n) \/ ParentDies(n) \/ ChildDies(n) PROVE row' = row
  BY <1>7 DEF Collect, FinishTransport, ParentDies, ChildDies
<1>8. ASSUME NEW n \in Deliveries, GivesUp(n) PROVE row' = row
  BY <1>2, <1>8, Failing
<1>9. ASSUME NEW n \in Deliveries, ClaimRow(n) PROVE row' = row
  BY <1>1, <1>9, ClaimingTheRow
<1>10. ASSUME NEW n \in Deliveries, NEW o \in {"completed", "failed", "transient"}, Publish(n, o) PROVE row' = row
  BY <1>2, <1>10, Publishing
<1> QED BY <1>3, <1>4, <1>5, <1>6, <1>7, <1>8, <1>9, <1>10, Steps

\* What is published under the row's fence stands until it is purged.
LEMMA ContentKeepsStanding ==
  ASSUME TypeOK, ContentStands, [Next]_vars
  PROVE  ContentStands'
<1> SUFFICES ASSUME PurgeMeetsResult = FALSE, content' = TRUE PROVE row'.status = "completed" /\ purging' = FALSE
  BY DEF ContentStands
<1>1. content = TRUE => row.status = "completed" /\ purging = FALSE
  BY DEF ContentStands
<1>2. row \in Rows /\ \A n, a : Running(n, a) => row.status = "running"
  BY DEF TypeOK, Running
<1>3. CASE ClaimJob \/ TotalTimeOver \/ UNCHANGED vars
  BY <1>1, <1>3 DEF ClaimJob, TotalTimeOver, vars
<1>4. CASE BeginPurge \/ EndPurge
  BY <1>1, <1>4 DEF BeginPurge, EndPurge
<1>5. CASE Tick
  BY <1>1, <1>5, Ticking
<1>6. ASSUME NEW n \in Deliveries, Heartbeat(n) PROVE row'.status = "completed" /\ purging' = FALSE
  <2>1. content' = content /\ purging' = purging /\ (row' = row \/ Running(n, n))
    BY <1>6, Beating
  <2> QED BY <1>1, <1>2, <2>1
<1>7. ASSUME NEW n \in Deliveries, Collect(n) \/ FinishTransport(n) \/ ParentDies(n) \/ ChildDies(n)
      PROVE  row'.status = "completed" /\ purging' = FALSE
  BY <1>1, <1>7 DEF Collect, FinishTransport, ParentDies, ChildDies
<1>8. ASSUME NEW n \in Deliveries, GivesUp(n) PROVE row'.status = "completed" /\ purging' = FALSE
  BY <1>1, <1>8, Failing
<1>9. ASSUME NEW n \in Deliveries, ClaimRow(n) PROVE row'.status = "completed" /\ purging' = FALSE
  BY <1>1, <1>9, ClaimingTheRow DEF Open
<1>10. ASSUME NEW n \in Deliveries, NEW o \in {"completed", "failed", "transient"}, Publish(n, o)
       PROVE  row'.status = "completed" /\ purging' = FALSE
  <2>1. purging = FALSE /\ purging' = purging
    BY <1>10, Publishing DEF TypeOK
  <2>2. Ended("completed").status = "completed"
    BY EndingAnAttempt DEF Over
  <2> QED BY <1>1, <1>2, <1>10, <2>1, <2>2, Publishing
<1> QED BY <1>3, <1>4, <1>5, <1>6, <1>7, <1>8, <1>9, <1>10, Steps

\* Who says that the extraction is over has seen it so, or has ended it.
LEMMA OverStaysTrue ==
  ASSUME TypeOK, OverIsTrue, [Next]_vars
  PROVE  OverIsTrue'
<1> DEFINE Says(n)   == child[n].pc \in {"skipped", "completed", "failed"}
           Closes(n) == parent[n].pc = "closing" /\ parent[n].status \notin {"retry", "contended", "stale"}
           NoNews    == \A m \in Deliveries : (Says(m)' => Says(m)) /\ (Closes(m)' => Closes(m) \/ Says(m))
           NoClose   == job'.state = "completed" => job.state = "completed" \/ \E m \in Deliveries : Closes(m)
<1>1. SUFFICES \/ row'.status \in Over
               \/ NoNews /\ NoClose
  BY OverStaysOver DEF OverIsTrue, Over
<1>2. CASE ClaimJob
  <2> DEFINE n == job.attempts + 1
  <2>1. /\ n \in Deliveries /\ child'[n].pc = "starting" /\ parent'[n].pc = "watching" /\ job'.state = "running"
        /\ \A m \in Deliveries \ {n} : parent'[m] = parent[m] /\ child'[m] = child[m]
    BY <1>2, ClaimingTheJob
  <2> HIDE DEF n
  <2> QED BY <2>1
<1>3. CASE BeginPurge \/ TotalTimeOver \/ UNCHANGED vars
  BY <1>3 DEF BeginPurge, TotalTimeOver, vars
<1>4. CASE EndPurge
  BY <1>4 DEF EndPurge, Over, Rows, TypeOK
<1>5. CASE Tick
  BY <1>5, Ticking
<1>6. ASSUME NEW n \in Deliveries, Heartbeat(n) PROVE row'.status \in Over \/ (NoNews /\ NoClose)
  <2>1. CASE row.status \in Over
    BY <2>1, OverStaysOver DEF Over
  <2>2. CASE row.status \notin Over
    <3>1. parent'[n].pc # "closing"
      BY <1>6, <2>2, Beating DEF Watched
    <3>2. job'.state = job.state
      BY <1>6, Beating, ExtendingAJob
    <3>3. child' = child \/ child' = Terminated(n)
      BY <1>6, Beating
    <3>4. \A m \in Deliveries : child'[m] = child[m] \/ child'[m].pc = "gone"
      BY <3>3, Killing
    <3>5. \A m \in Deliveries \ {n} : parent'[m] = parent[m]
      BY <1>6, Beating
    <3> QED BY <3>1, <3>2, <3>4, <3>5
  <2> QED BY <2>1, <2>2
<1>7. ASSUME NEW n \in Deliveries, Collect(n) PROVE NoNews /\ NoClose
  BY <1>7, Collecting, Killing, ExtendingAJob DEF Results
<1>8. ASSUME NEW n \in Deliveries, FinishTransport(n) PROVE NoNews /\ NoClose
  BY <1>8, FinishingTheTransport
<1>9. ASSUME NEW n \in Deliveries, ParentDies(n) \/ ChildDies(n) PROVE NoNews /\ NoClose
  <2>1. \A m \in Deliveries : Says(m)' => Says(m)
    <3>1. Left(n, "dead")[n].pc \in {"dead", "gone"} /\ \A m \in Deliveries \ {n} : Left(n, "dead")[m] = child[m]
      BY LeavingAResult
    <3> QED BY <1>9, <3>1, Dying, Killing
  <2>2. \A m \in Deliveries : Closes(m)' => Closes(m)
    BY <1>9, Dying
  <2> QED BY <1>9, <2>1, <2>2, Dying
<1>10. ASSUME NEW n \in Deliveries, GivesUp(n) PROVE NoNews /\ NoClose
  BY <1>10, Failing
<1>11. ASSUME NEW n \in Deliveries, ClaimRow(n) PROVE row'.status \in Over \/ (NoNews /\ NoClose)
  <2>1. job' = job /\ parent' = parent
    BY <1>11, ClaimingTheRow
  <2>2. CASE row'.status \in Over
    BY <2>2
  <2>3. CASE row'.status \notin Over
    <3>1. \/ child' = Left(n, "contended")
          \/ child' = [child EXCEPT ![n] = [pc |-> "parsing", attempt |-> row.attempts + 1]]
      BY <1>11, <2>3, ClaimingTheRow DEF Over
    <3>2. child'[n].pc \in {"contended", "gone", "parsing"} /\ \A m \in Deliveries \ {n} : child'[m] = child[m]
      <4>1. Left(n, "contended")[n].pc \in {"contended", "gone"}
            /\ \A m \in Deliveries \ {n} : Left(n, "contended")[m] = child[m]
        BY LeavingAResult DEF Results
      <4> QED BY <3>1, <4>1 DEF TypeOK
    <3> QED BY <2>1, <3>2
  <2> QED BY <2>2, <2>3
<1>12. ASSUME NEW n \in Deliveries, NEW o \in {"completed", "failed", "transient"}, Publish(n, o)
       PROVE  row'.status \in Over \/ (NoNews /\ NoClose)
  <2>1. job' = job /\ parent' = parent
    BY <1>12, Publishing
  <2>2. CASE \E result \in {"completed", "failed"} : row' = Ended(result)
    BY <2>2, EndingAnAttempt DEF Over
  <2>3. CASE \E result \in {"stale", "retry"} : child' = Left(n, result)
    <3>1. child'[n].pc \in {"stale", "retry", "gone"} /\ \A m \in Deliveries \ {n} : child'[m] = child[m]
      BY <2>3, LeavingAResult DEF Results
    <3> QED BY <2>1, <3>1
  <2> QED BY <1>12, <2>2, <2>3, Publishing
<1> HIDE DEF NoNews, NoClose
<1> QED BY <1>2, <1>3, <1>4, <1>5, <1>6, <1>7, <1>8, <1>9, <1>10, <1>11, <1>12, Steps

-----------------------------------------------------------------------------
(* Runs without a fault.                                                   *)

\* What holds while nothing was disturbed: who is watched holds the job.
LEMMA Calm ==
  ASSUME TypeOK, RowOutlastsABeat, NothingDisturbed, Undisturbed
  PROVE  /\ \A n \in Deliveries : InStep(n)
         /\ \A n \in Deliveries : Watched(n) => n = job.attempts /\ Fenced(n)
         /\ \A n \in Deliveries : child[n].pc \notin {"none", "gone"} => Watched(n)
         /\ row.status = "running" => \E n \in Deliveries : child[n].pc = "parsing"
         /\ row.status = "queued" =>
               row.attempts = job.attempts \/ \E n \in Deliveries : child[n].pc = "starting"
         /\ row.status \in {"queued", "running", "completed", "failed"}
         /\ faults = 0
<1>1. row.status \in {"queued", "running", "completed", "failed"}
  BY DEF TypeOK, Rows, Open, Over, Undisturbed
<1>2. \A n \in Deliveries : Watched(n) => n = job.attempts /\ Fenced(n)
  BY Bounds DEF NothingDisturbed, InStep, Fenced, RowOutlastsABeat
<1> QED BY <1>1, <1>2 DEF NothingDisturbed, Undisturbed, InStep

\* The others have no child and no parent that watches one.
LEMMA NobodyElse ==
  ASSUME TypeOK, RowOutlastsABeat, NothingDisturbed, Undisturbed, NEW n \in Deliveries, Watched(n),
         NEW m \in Deliveries \ {n}
  PROVE  ~ Watched(m) /\ child[m].pc \in {"none", "gone"}
<1>1. ~ Watched(m)
  BY Calm
<1> QED BY <1>1, Calm

\* A step counts one fault at most.
LEMMA FaultsAreCounted ==
  ASSUME TypeOK, [Next]_vars
  PROVE  faults \in Nat /\ (faults' = faults \/ faults' = faults + 1)
<1>1. faults \in Nat
  BY Bounds DEF TypeOK
<1>2. CASE ClaimJob \/ BeginPurge \/ EndPurge \/ TotalTimeOver \/ UNCHANGED vars
  BY <1>1, <1>2 DEF ClaimJob, BeginPurge, EndPurge, TotalTimeOver, vars
<1>3. CASE Tick
  BY <1>1, <1>3, Ticking
<1>4. ASSUME NEW n \in Deliveries,
             Heartbeat(n) \/ Collect(n) \/ FinishTransport(n) \/ ClaimRow(n)
      PROVE  faults' = faults
  BY <1>4, Beating, Collecting, FinishingTheTransport, ClaimingTheRow
<1>5. ASSUME NEW n \in Deliveries, GivesUp(n) \/ ParentDies(n) \/ ChildDies(n)
      PROVE  faults' = faults \/ faults' = faults + 1
  BY <1>5, Failing, Dying
<1>6. ASSUME NEW n \in Deliveries, NEW o \in {"completed", "failed", "transient"}, Publish(n, o)
      PROVE  faults' = faults
  BY <1>6, Publishing
<1> QED BY <1>1, <1>2, <1>3, <1>4, <1>5, <1>6, Steps

\* Without a fault: before a step there was none either, and nothing was purged.
LEMMA WasUndisturbed ==
  ASSUME TypeOK, [Next]_vars, Undisturbed'
  PROVE  Undisturbed
<1>1. faults \in Nat /\ (faults' = faults \/ faults' = faults + 1)
  BY FaultsAreCounted
<1>2. faults = 0
  BY <1>1 DEF Undisturbed
<1> QED BY <1>2, OverStaysOver DEF Undisturbed, Over

\* The next delivery finds the row handed back, and its attempts one behind.
LEMMA ClaimOfJobIsQuiet ==
  ASSUME TypeOK, RowOutlastsABeat, NothingDisturbed, Undisturbed, ClaimJob
  PROVE  NothingDisturbed'
<1> DEFINE n == job.attempts + 1
<1>1. /\ n \in Deliveries /\ job'.state = "running" /\ job'.attempts = n /\ job'.left = Visibility
      /\ job.state = "queued" \/ job.left = 0
      /\ parent'[n].pc = "watching" /\ parent'[n].due = FALSE /\ child'[n].pc = "starting"
      /\ \A m \in Deliveries \ {n} : parent'[m] = parent[m] /\ child'[m] = child[m]
      /\ row' = row
  BY ClaimingTheJob
<1>2. \A m \in Deliveries : ~ Watched(m)
  BY <1>1, Calm DEF Fenced
<1>3. \A m \in Deliveries : child[m].pc \in {"none", "gone"}
  BY <1>2, Calm
<1>4. row.status # "running" /\ (row.status = "queued" => row.attempts + 1 = n)
  BY <1>3, Calm
<1>5. ASSUME NEW m \in Deliveries \ {n} PROVE InStep(m)'
  BY <1>1, <1>2, <1>3 DEF InStep, Watched
<1>6. ASSUME NEW m \in Deliveries, m = n PROVE InStep(m)'
  BY <1>1, <1>4, <1>6 DEF InStep, Watched
<1> QED BY <1>1, <1>4, <1>5, <1>6 DEF NothingDisturbed

\* A heartbeat finds the row as its child left it.
LEMMA HeartbeatIsQuiet ==
  ASSUME TypeOK, RowOutlastsABeat, NothingDisturbed, Undisturbed, NEW n \in Deliveries, Heartbeat(n)
  PROVE  NothingDisturbed'
<1>1. /\ Watched(n) /\ parent[n].due /\ n = job.attempts /\ Fenced(n) /\ InStep(n)
      /\ \A m \in Deliveries \ {n} : ~ Watched(m) /\ child[m].pc \in {"none", "gone"}
  BY Beating, Calm, NobodyElse
<1>2. row.status = "running" => child[n].pc = "parsing" /\ Running(n, n)
  BY <1>1, Calm DEF InStep
<1>3. child[n].pc # "starting"
  BY <1>1 DEF InStep
<1>4. row.status = "queued" => row.attempts = job.attempts
  <2>1. \A m \in Deliveries : child[m].pc # "starting"
    BY <1>1, <1>3
  <2> QED BY <2>1, Calm
<1>5. /\ job' = ExtendedJob /\ job'.attempts = job.attempts /\ job'.state = job.state /\ job'.left = Visibility
      /\ job.state = "running"
  BY <1>1, <1>2, Beating, ExtendingAJob DEF InStep
<1>6. ASSUME NEW m \in Deliveries \ {n} PROVE InStep(m)'
  <2>1. child' = child \/ child' = Terminated(n)
    BY Beating
  <2>2. parent'[m] = parent[m]
    BY Beating
  <2>3. child'[m] = child[m]
    BY <2>1, Killing
  <2> QED BY <1>1, <2>2, <2>3 DEF InStep, Watched
<1>7. CASE row.status = "queued" /\ parent'[n].pc = parent[n].pc /\ UNCHANGED <<row, child>>
  <2>1. parent'[n].due = FALSE
    BY <1>1, <1>7, Beating DEF Watched
  <2>2. InStep(n)'
    BY <1>1, <1>3, <1>5, <1>7, <2>1 DEF InStep, Watched, Running, Young
  <2> QED BY <1>4, <1>5, <1>6, <1>7, <2>2 DEF NothingDisturbed
<1>8. CASE row.status \in Over /\ parent'[n].pc = "closing" /\ row' = row /\ child' = Terminated(n)
  <2>1. child'[n].pc = "gone"
    BY <1>8, Killing
  <2>2. InStep(n)'
    BY <1>8, <2>1 DEF InStep, Watched
  <2> QED BY <1>6, <1>8, <2>2 DEF NothingDisturbed, Over
<1>9. CASE Running(n, n) /\ row' = [row EXCEPT !.age = 0] /\ parent'[n].pc = "timing" /\ child' = child
  <2>1. parent'[n].due = FALSE /\ child[n].pc = "parsing" /\ child[n].attempt = n
    BY <1>1, <1>2, <1>9, Beating DEF Running, InStep
  <2>2. row'.age = 0 /\ row'.status = row.status /\ row'.attempts = row.attempts /\ row'.owner = row.owner
    BY <1>9 DEF TypeOK, Rows
  <2>3. Running(n, n)' /\ Young(n)' /\ row'.status = "running"
    BY <1>9, <2>2 DEF Running, Young
  <2>4. InStep(n)'
    BY <1>1, <1>5, <1>9, <2>1, <2>3 DEF InStep, Watched
  <2> QED BY <1>6, <1>9, <2>1, <2>3, <2>4 DEF NothingDisturbed
<1> QED BY <1>1, <1>2, <1>7, <1>8, <1>9, Beating

\* What leaves the worker's side leaves nothing behind.
LEMMA ClosingIsQuiet ==
  ASSUME TypeOK, RowOutlastsABeat, NothingDisturbed, Undisturbed, NEW n \in Deliveries,
         Collect(n) \/ FinishTransport(n) \/ (GivesUp(n) /\ ~ ParentErrs(n))
  PROVE  NothingDisturbed'
<1>1. CASE Collect(n)
  <2>1. /\ Watched(n) /\ child[n].pc \in Results /\ n = job.attempts
        /\ \A m \in Deliveries \ {n} : ~ Watched(m) /\ child[m].pc \in {"none", "gone"}
    BY <1>1, Collecting, Calm, NobodyElse
  <2>2. /\ job'.attempts = job.attempts /\ row' = row /\ child'[n].pc = "gone" /\ parent'[n].pc \in {"closing", "gone"}
        /\ \A m \in Deliveries \ {n} : parent'[m] = parent[m] /\ child'[m] = child[m]
    BY <1>1, Collecting, ExtendingAJob, Killing
  <2>3. \A m \in Deliveries : child[m].pc \notin {"starting", "parsing"}
    BY <2>1 DEF Results
  <2>4. row.status # "running" /\ (row.status = "queued" => row.attempts = job.attempts)
    BY <2>3, Calm
  <2>5. \A m \in Deliveries : InStep(m)'
    BY <2>1, <2>2 DEF InStep, Watched
  <2> QED BY <2>2, <2>4, <2>5 DEF NothingDisturbed
<1>2. CASE FinishTransport(n)
  <2>1. /\ parent[n].pc = "closing" /\ parent'[n].pc = "gone" /\ job'.attempts = job.attempts
        /\ Fenced(n) \/ job' = job
        /\ \A m \in Deliveries \ {n} : parent'[m] = parent[m]
        /\ UNCHANGED <<row, child>>
    BY <1>2, FinishingTheTransport
  <2>2. ~ Watched(n) /\ child[n].pc \in {"none", "gone"}
    BY <2>1, Calm DEF Watched
  <2>3. ASSUME NEW m \in Deliveries PROVE InStep(m)'
    <3>1. CASE m = n
      BY <2>1, <2>2, <3>1 DEF InStep, Watched
    <3>2. CASE m # n /\ job' = job
      BY <2>1, <3>2, Calm DEF InStep, Watched, Running, Young
    <3>3. CASE m # n /\ Fenced(n)
      <4>1. ~ Watched(m) /\ child[m].pc \in {"none", "gone"}
        BY <3>3, Calm DEF Fenced
      <4> QED BY <2>1, <3>3, <4>1 DEF InStep, Watched
    <3> QED BY <2>1, <3>1, <3>2, <3>3
  <2> QED BY <2>1, <2>3, Calm DEF NothingDisturbed
<1>3. CASE GivesUp(n) /\ ~ ParentErrs(n)
  <2>1. /\ Watched(n) /\ n = job.attempts /\ InStep(n)
        /\ \A m \in Deliveries \ {n} : ~ Watched(m) /\ child[m].pc \in {"none", "gone"}
    BY <1>3, Failing, Calm, NobodyElse
  <2>2. child[n].pc = "parsing" /\ Running(n, n)
    BY <1>3, <2>1 DEF GivesUp, Abandon, TimeOut, InStep, Live
  <2>3. /\ row'.status = "failed" /\ parent'[n].pc \in {"gone", "abandoned"} /\ child'[n].pc = "gone"
        /\ \A m \in Deliveries \ {n} : parent'[m] = parent[m] /\ child'[m] = child[m]
    BY <1>3, <2>2, Failing
  <2>4. \A m \in Deliveries : InStep(m)'
    BY <2>1, <2>3 DEF InStep, Watched
  <2> QED BY <2>3, <2>4 DEF NothingDisturbed
<1> QED BY <1>1, <1>2, <1>3

\* The child claims a row that nobody runs.
LEMMA ClaimOfRowIsQuiet ==
  ASSUME TypeOK, RowOutlastsABeat, NothingDisturbed, Undisturbed, NEW n \in Deliveries, ClaimRow(n)
  PROVE  NothingDisturbed'
<1>1. /\ child[n].pc = "starting" /\ Watched(n) /\ n = job.attempts /\ InStep(n)
      /\ \A m \in Deliveries \ {n} : ~ Watched(m) /\ child[m].pc \in {"none", "gone"}
  BY ClaimingTheRow, Calm, NobodyElse
<1>2. /\ ~ parent[n].due /\ parent[n].pc # "timing" /\ row.status # "running"
      /\ row.status = "queued" => row.attempts + 1 = n
  BY <1>1 DEF InStep
<1>3. job' = job /\ parent' = parent /\ Watched(n)'
  BY <1>1, ClaimingTheRow DEF Watched
<1>4. \A result \in {"skipped", "contended", "failed"} :
         /\ Left(n, result)[n].pc = result
         /\ \A m \in Deliveries \ {n} : Left(n, result)[m] = child[m]
  BY <1>1, LeavingAResult DEF Results
<1>5. row.status \in Open => row.status = "queued" /\ Takeable(n)
  BY <1>2 DEF Open, Takeable
<1>6. CASE \E result \in {"skipped", "failed"} : row'.status \in Over /\ child' = Left(n, result)
  <2>1. row'.status \notin {"running", "queued"} /\ child'[n].pc \in {"skipped", "failed"}
        /\ \A m \in Deliveries \ {n} : child'[m] = child[m]
    BY <1>4, <1>6 DEF Over
  <2>2. InStep(n)'
    BY <1>1, <1>3, <2>1 DEF InStep, Watched
  <2>3. \A m \in Deliveries \ {n} : InStep(m)'
    BY <1>1, <1>3, <2>1 DEF InStep, Watched
  <2> QED BY <2>1, <2>2, <2>3 DEF NothingDisturbed
<1>7. CASE /\ row.status = "queued"
           /\ row' = [status |-> "running", attempts |-> row.attempts + 1, owner |-> n, age |-> 0]
           /\ child' = [child EXCEPT ![n] = [pc |-> "parsing", attempt |-> row.attempts + 1]]
  <2>1. /\ child'[n].pc = "parsing" /\ child'[n].attempt = n
        /\ \A m \in Deliveries \ {n} : child'[m] = child[m]
    BY <1>2, <1>7 DEF TypeOK
  <2>2. row'.status = "running" /\ Running(n, n)' /\ Young(n)'
    BY <1>2, <1>7 DEF Running, Young
  <2>3. InStep(n)'
    BY <1>1, <1>3, <2>1, <2>2 DEF InStep, Watched
  <2>4. \A m \in Deliveries \ {n} : InStep(m)'
    BY <1>1, <1>3, <2>1 DEF InStep, Watched
  <2> QED BY <2>1, <2>2, <2>3, <2>4 DEF NothingDisturbed
<1>8. row.status = "failed" \/ row'.status = "failed" => row'.status \in Over \/ row.status \in Over
  BY DEF Over
<1> QED BY <1>5, <1>6, <1>7, <1>8, ClaimingTheRow DEF Over

\* The child publishes under its own attempt, which is the row's.
LEMMA PublishIsQuiet ==
  ASSUME TypeOK, RowOutlastsABeat, NothingDisturbed, Undisturbed, NEW n \in Deliveries,
         NEW o \in {"completed", "failed", "transient"}, Publish(n, o)
  PROVE  NothingDisturbed'
<1>1. /\ child[n].pc = "parsing" /\ Watched(n) /\ n = job.attempts /\ InStep(n)
      /\ \A m \in Deliveries \ {n} : ~ Watched(m) /\ child[m].pc \in {"none", "gone"}
  BY Publishing, Calm, NobodyElse
<1>2. Running(n, n) /\ child[n].attempt = n /\ row.age <= 1
  BY <1>1, Bounds DEF InStep, Young
<1>3. row.age < StaleAfter /\ Running(n, child[n].attempt) /\ row.attempts = n
  BY <1>2, Bounds DEF RowOutlastsABeat, Running, TypeOK, Rows
<1>4. \A result \in {"retry", "completed", "failed"} :
         /\ Left(n, result)[n].pc = result
         /\ \A m \in Deliveries \ {n} : Left(n, result)[m] = child[m]
  BY <1>1, LeavingAResult DEF Results
<1>5. \A status \in {"queued", "completed", "failed"} :
         Ended(status).status = status /\ Ended(status).attempts = row.attempts
  BY EndingAnAttempt DEF Open, Over
<1>6. PICK result \in {"retry", "completed", "failed"}, status \in {"queued", "completed", "failed"} :
        child' = Left(n, result) /\ row' = Ended(status)
  BY <1>3, Publishing
<1>7. /\ job' = job /\ parent' = parent /\ Watched(n)'
      /\ row'.status = status /\ row'.attempts = n /\ child'[n].pc = result
      /\ \A m \in Deliveries \ {n} : child'[m] = child[m]
  BY <1>1, <1>3, <1>4, <1>5, <1>6, Publishing DEF Watched
<1>8. InStep(n)'
  BY <1>1, <1>7 DEF InStep, Watched
<1>9. \A m \in Deliveries \ {n} : InStep(m)'
  BY <1>1, <1>7 DEF InStep, Watched
<1> QED BY <1>1, <1>7, <1>8, <1>9 DEF NothingDisturbed

\* Without a stall a tick makes heartbeats due, and the row no older than an interval.
LEMMA TickIsQuiet ==
  ASSUME TypeOK, RowOutlastsABeat, NothingDisturbed, Undisturbed, Tick, Undisturbed'
  PROVE  NothingDisturbed'
<1>1. ~ Stalled
  BY Ticking, Calm DEF Undisturbed
<1>2. ASSUME NEW n \in Deliveries PROVE InStep(n)'
  <2>1. /\ InStep(n) /\ child' = child /\ parent'[n].pc = parent[n].pc /\ parent'[n].due = Watched(n)
        /\ job'.state = job.state /\ job'.attempts = job.attempts
        /\ job'.left = IF job.left > 0 THEN job.left - 1 ELSE 0
        /\ row'.status = row.status /\ row'.attempts = row.attempts /\ row'.owner = row.owner
    BY Ticking, Calm
  <2>2. CASE ~ Watched(n)
    BY <2>1, <2>2 DEF InStep, Watched
  <2>3. CASE Watched(n)
    <3>1. ~ parent[n].due /\ child[n].pc # "starting" /\ job.left = Visibility
      BY <1>1, <2>1, <2>3 DEF Stalled, InStep
    <3>2. job'.left = Visibility - 1 /\ Watched(n)' /\ parent'[n].due = TRUE
      BY <2>1, <2>3, <3>1, Bounds DEF Watched
    <3>3. child[n].pc = "parsing" => Running(n, n)' /\ Young(n)'
      <4> SUFFICES ASSUME child[n].pc = "parsing" PROVE Running(n, n)' /\ Young(n)'
        OBVIOUS
      <4>1. Running(n, n) /\ row.age = 0
        BY <2>1, <3>1 DEF InStep, Young
      <4>2. row'.age \in {0, 1}
        BY <4>1, Ticking
      <4> QED BY <2>1, <3>2, <4>1, <4>2 DEF Running, Young
    <3> QED BY <2>1, <2>3, <3>1, <3>2, <3>3 DEF InStep
  <2> QED BY <2>2, <2>3
<1> QED BY <1>2, Ticking, Calm DEF NothingDisturbed

\* So every step without a fault keeps the job and the row in step.
LEMMA NothingIsDisturbed ==
  ASSUME TypeOK, RowOutlastsABeat, NothingDisturbed, [Next]_vars
  PROVE  NothingDisturbed'
<1> SUFFICES ASSUME Undisturbed' PROVE NothingDisturbed'
  BY DEF NothingDisturbed
<1>1. Undisturbed
  BY WasUndisturbed
<1>2. faults \in Nat /\ faults' = 0
  BY Bounds DEF TypeOK, Undisturbed
<1>3. CASE BeginPurge \/ TotalTimeOver \/ UNCHANGED vars
  BY <1>1, <1>3, Calm DEF BeginPurge, TotalTimeOver, vars, NothingDisturbed, InStep, Watched, Running, Young
<1>4. ~ EndPurge
  BY DEF EndPurge, TypeOK, Rows, Undisturbed
<1>5. ASSUME NEW n \in Deliveries PROVE ~ (ParentDies(n) \/ ChildDies(n) \/ ParentErrs(n))
  BY <1>2, Dying DEF ParentErrs
<1>6. ASSUME NEW n \in Deliveries, NEW o \in {"completed", "failed", "transient"}, Publish(n, o)
      PROVE  NothingDisturbed'
  BY <1>1, <1>6, PublishIsQuiet
<1> QED BY <1>1, <1>3, <1>4, <1>5, <1>6, Steps, ClaimOfJobIsQuiet, HeartbeatIsQuiet, ClosingIsQuiet,
           ClaimOfRowIsQuiet, TickIsQuiet

-----------------------------------------------------------------------------
(* Runs with one fault.                                                    *)

\* A delivery keeps what lets its time run out, while its own side and the row are left alone.
LEMMA StillMayTimeOut ==
  ASSUME NEW m \in Deliveries, MayTimeOut(m), parent'[m] = parent[m], child'[m] = child[m], row' = row,
         faults > 0 => faults' > 0, Fenced(m)' => Fenced(m),
         \A k \in Deliveries : child[k].pc # "starting" => child'[k].pc # "starting"
  PROVE  MayTimeOut(m)'
<1>1. Watched(m)' = Watched(m) /\ OthersClaimed(m) => OthersClaimed(m)'
  BY DEF Watched, OthersClaimed
<1>2. Running(m, m)' = Running(m, m) /\ Young(m)' = Young(m)
  BY DEF Running, Young
<1> QED BY <1>1, <1>2 DEF MayTimeOut, Watched

\* The time of a delivery that nobody watches does not run.
LEMMA UnwatchedHasNoTime ==
  ASSUME NEW m \in Deliveries, parent'[m].pc \notin {"watching", "timing"}
  PROVE  MayTimeOut(m)'
BY DEF MayTimeOut, Watched

\* What may be used while an extraction is open and one fault may occur.
OpenWithOneFault ==
    /\ TypeOK /\ EachClaimsOnce /\ RowOutlastsABeat /\ NothingDisturbed
    /\ OneFault /\ row.status \notin Over /\ job.state # "failed"
    /\ \A m \in Deliveries : MayTimeOut(m)

\* A claim of the job leaves the lease to the new delivery, whose child has just started.
LEMMA ClaimOfJobMayTimeOut ==
  ASSUME OpenWithOneFault, ClaimJob
  PROVE  job'.state # "failed" /\ \A m \in Deliveries : MayTimeOut(m)'
<1> DEFINE n == job.attempts + 1
<1>1. /\ job'.state = "running" /\ job'.attempts = n /\ n \in Deliveries
      /\ parent'[n].pc = "watching" /\ child'[n].pc = "starting"
  BY ClaimingTheJob DEF OpenWithOneFault
<1>2. ASSUME NEW m \in Deliveries, m # n PROVE ~ Fenced(m)'
  BY <1>1, <1>2 DEF Fenced
<1>3. ASSUME NEW m \in Deliveries, m # n PROVE MayTimeOut(m)'
  BY <1>2, <1>3 DEF MayTimeOut
<1>4. ASSUME NEW m \in Deliveries, m = n PROVE MayTimeOut(m)'
  BY <1>1, <1>4 DEF MayTimeOut
<1> QED BY <1>1, <1>3, <1>4

\* A heartbeat that renews the row is that of its owner, which has claimed it; without
\* a fault nobody else is about to.
LEMMA HeartbeatMayTimeOut ==
  ASSUME OpenWithOneFault, NEW n \in Deliveries, Heartbeat(n)
  PROVE  job'.state # "failed" /\ \A m \in Deliveries : MayTimeOut(m)'
<1>1. /\ TypeOK /\ row \in Rows /\ row.status \notin Over /\ job.state # "failed" /\ Watched(n)
      /\ \A m \in Deliveries : MayTimeOut(m)
      /\ \A m \in Deliveries \ {n} : parent'[m] = parent[m]
      /\ faults' = faults /\ faults \in Nat
  <2>1. TypeOK /\ row.status \notin Over /\ job.state # "failed" /\ \A m \in Deliveries : MayTimeOut(m)
    BY DEF OpenWithOneFault
  <2>2. row \in Rows /\ faults \in Nat
    BY <2>1, Bounds DEF TypeOK
  <2>3. Watched(n) /\ faults' = faults /\ \A m \in Deliveries \ {n} : parent'[m] = parent[m]
    BY <2>1, Beating
  <2> QED BY <2>1, <2>2, <2>3
<1>2. /\ ExtendedJob.attempts = job.attempts /\ ExtendedJob.state = job.state
      /\ Terminated(n)[n].pc = "gone" /\ \A m \in Deliveries \ {n} : Terminated(n)[m] = child[m]
  BY <1>1, ExtendingAJob, Killing
<1>3. CASE parent'[n].pc = "gone" /\ child' = Terminated(n) /\ UNCHANGED <<row, job>>
  <2>1. ASSUME NEW m \in Deliveries \ {n} PROVE MayTimeOut(m)'
    <3>1. child'[m] = child[m] /\ \A k \in Deliveries : child[k].pc # "starting" => child'[k].pc # "starting"
      BY <1>2, <1>3
    <3>2. Fenced(m)' => Fenced(m)
      BY <1>3 DEF Fenced
    <3> QED BY <1>1, <1>3, <3>1, <3>2, StillMayTimeOut
  <2>2. MayTimeOut(n)'
    BY <1>3, UnwatchedHasNoTime
  <2> QED BY <1>1, <1>3, <2>1, <2>2
<1>4. ASSUME Fenced(n), job' = ExtendedJob
      PROVE  job'.state # "failed" /\ \A m \in Deliveries \ {n} : MayTimeOut(m)'
  <2>1. job'.attempts = n
    BY <1>2, <1>4 DEF Fenced
  <2> QED BY <1>1, <1>2, <1>4, <2>1 DEF MayTimeOut, Fenced
<1>5. CASE /\ Fenced(n) /\ row.status = "queued" /\ parent'[n].pc = parent[n].pc
           /\ job' = ExtendedJob /\ UNCHANGED <<row, child>>
  <2>1. ~ Running(n, n)
    BY <1>5 DEF Running
  <2>2. ~ (parent[n].pc = "timing" /\ child[n].pc \in Live)
    BY <1>1, <1>5, <2>1 DEF MayTimeOut
  <2>3. MayTimeOut(n)'
    BY <1>5, <2>2 DEF MayTimeOut
  <2> QED BY <1>4, <1>5, <2>3
<1>6. CASE /\ Fenced(n) /\ Running(n, n) /\ row' = [row EXCEPT !.age = 0]
           /\ parent'[n].pc = "timing" /\ job' = ExtendedJob /\ child' = child
  <2>1. /\ row'.age = 0 /\ row'.status = row.status /\ row'.attempts = row.attempts /\ row'.owner = row.owner
    BY <1>1, <1>6 DEF Rows
  <2>2. Running(n, n)' /\ Young(n)'
    BY <1>6, <2>1 DEF Running, Young
  <2>3. child[n].pc # "starting"
    <3>1. row.owner = n /\ n # 0
      BY <1>6, Bounds DEF Running
    <3> QED BY <3>1 DEF OpenWithOneFault, EachClaimsOnce, Unclaimed
  <2>4. OthersClaimed(n) \/ faults > 0
    <3> SUFFICES ASSUME faults = 0 PROVE OthersClaimed(n)
      BY <1>1
    <3>1. Undisturbed
      BY <1>1 DEF Undisturbed, Over
    <3>2. \A m \in Deliveries \ {n} : child[m].pc \in {"none", "gone"}
      BY <1>1, <3>1, NobodyElse DEF OpenWithOneFault
    <3> QED BY <3>2 DEF OthersClaimed
  <2>5. OthersClaimed(n)' = OthersClaimed(n)
    BY <1>6 DEF OthersClaimed
  <2>6. MayTimeOut(n)'
    BY <1>1, <1>6, <2>2, <2>3, <2>4, <2>5 DEF MayTimeOut, Live
  <2> QED BY <1>4, <1>6, <2>6
<1> QED BY <1>1, <1>3, <1>5, <1>6, Beating

\* A job that failed did so by a delivery that was abandoned.
NoneFailed == job'.state # "failed" \/ (job'.attempts \in Deliveries /\ parent'[job'.attempts].pc = "abandoned")

\* Whoever leaves the worker's side leaves the others as they were; whose time runs out
\* holds the row, and fails it.
LEMMA ClosingMayTimeOut ==
  ASSUME OpenWithOneFault, NEW n \in Deliveries,
         Collect(n) \/ FinishTransport(n) \/ GivesUp(n),
         row'.status \notin Over
  PROVE  NoneFailed /\ \A m \in Deliveries : MayTimeOut(m)'
<1>1. /\ TypeOK /\ row.status \notin Over /\ job.state # "failed"
      /\ \A m \in Deliveries : MayTimeOut(m)
  BY DEF OpenWithOneFault
<1>2. /\ parent'[n].pc \notin {"watching", "timing"} /\ job'.attempts = job.attempts
      /\ job' = job \/ Fenced(n)
      /\ \A m \in Deliveries \ {n} : parent'[m] = parent[m] /\ child'[m] = child[m]
      /\ child'[n] = child[n] \/ child'[n].pc = "gone"
      /\ faults > 0 => faults' > 0
  <2>1. CASE Collect(n)
    BY <1>1, <2>1, Collecting, ExtendingAJob, Killing
  <2>2. CASE FinishTransport(n)
    BY <1>1, <2>2, FinishingTheTransport
  <2>3. CASE GivesUp(n)
    <3>1. faults \in Nat
      BY <1>1, Bounds DEF TypeOK
    <3> QED BY <1>1, <2>3, <3>1, Failing
  <2> QED BY <2>1, <2>2, <2>3
<1>3. row' = row /\ NoneFailed
  <2>1. CASE Collect(n)
    BY <1>1, <2>1, Collecting, ExtendingAJob DEF NoneFailed
  <2>2. CASE FinishTransport(n)
    BY <1>1, <2>2, FinishingTheTransport DEF NoneFailed
  <2>3. CASE GivesUp(n)
    <3>1. ~ Running(n, n) /\ row' = row
      BY <1>1, <2>3, Failing DEF Over
    <3>2. CASE ~ Fenced(n)
      BY <1>1, <2>3, <3>1, <3>2, Failing DEF NoneFailed
    <3>3. CASE Fenced(n)
      <4>1. ~ TimeOut(n)
        BY <1>1, <3>1, <3>3 DEF MayTimeOut, TimeOut, Watched
      <4>2. parent'[n].pc = "abandoned" /\ job'.attempts = n
        BY <1>1, <2>3, <3>3, <4>1, Failing DEF Fenced
      <4> QED BY <3>1, <4>2 DEF NoneFailed
    <3> QED BY <3>2, <3>3
  <2> QED BY <2>1, <2>2, <2>3
<1>4. ASSUME NEW m \in Deliveries \ {n} PROVE MayTimeOut(m)'
  <2>1. \A k \in Deliveries : child[k].pc # "starting" => child'[k].pc # "starting"
    BY <1>2
  <2>2. Fenced(m)' => Fenced(m)
    BY <1>2 DEF Fenced
  <2> QED BY <1>1, <1>2, <1>3, <2>1, <2>2, StillMayTimeOut
<1>5. MayTimeOut(n)'
  BY <1>2, UnwatchedHasNoTime
<1> QED BY <1>3, <1>4, <1>5

\* A fault leaves every delivery as good a claim on the row as it had without one.
LEMMA DyingMayTimeOut ==
  ASSUME OpenWithOneFault, NEW n \in Deliveries, ParentDies(n) \/ ChildDies(n)
  PROVE  job'.state # "failed" /\ \A m \in Deliveries : MayTimeOut(m)'
<1>1. /\ TypeOK /\ row.status \notin Over /\ job.state # "failed" /\ RowOutlastsABeat /\ NothingDisturbed
      /\ \A m \in Deliveries : MayTimeOut(m)
  BY DEF OpenWithOneFault
<1>2. faults = 0 /\ MaxFaults = 1
  BY <1>1, Dying, Bounds DEF OpenWithOneFault, OneFault, TypeOK
<1>3. Undisturbed
  BY <1>1, <1>2 DEF Undisturbed, Over
<1>4. row' = row /\ job' = job /\ \A m \in Deliveries \ {n} : parent'[m] = parent[m]
  BY <1>1, Dying
<1>5. /\ \A m \in Deliveries : InStep(m)
      /\ \A m \in Deliveries : child[m].pc \notin {"none", "gone"} => Watched(m)
      /\ \A m \in Deliveries : Watched(m) => m = job.attempts
  BY <1>1, <1>3, Calm
<1>6. CASE parent'[n].pc = "gone" /\ (child' = Terminated(n) \/ child' = child)
  <2>1. MayTimeOut(n)'
    BY <1>6, UnwatchedHasNoTime
  <2>2. \A k \in Deliveries : child'[k] = child[k] \/ child'[k].pc = "gone"
    BY <1>1, <1>6, Killing
  <2>3. ASSUME NEW m \in Deliveries \ {n} PROVE MayTimeOut(m)'
    <3> SUFFICES ASSUME Watched(m), Fenced(m) PROVE MayTimeOut(m)'
      BY <1>4 DEF MayTimeOut, Watched, Fenced
    <3>1. child'[m] = child[m]
      BY <1>1, <1>6, Killing
    <3>2. parent[m].pc = "timing" /\ child[m].pc \in Live =>
             child[m].pc = "parsing" /\ Running(m, m) /\ OthersClaimed(m)
      BY <1>1, <1>2 DEF MayTimeOut
    <3>3. OthersClaimed(m) => OthersClaimed(m)'
      BY <2>2 DEF OthersClaimed
    <3>4. Running(m, m)' = Running(m, m)
      BY <1>4 DEF Running
    <3> QED BY <1>4, <3>1, <3>2, <3>3, <3>4 DEF MayTimeOut
  <2> QED BY <1>1, <1>4, <2>1, <2>3
<1>7. CASE child[n].pc \in Live \cup Results /\ child' = Left(n, "dead") /\ parent' = parent
  <2>1. Watched(n)
    BY <1>5, <1>7 DEF Live, Results
  <2>2. \A m \in Deliveries \ {n} : ~ Watched(m)
    BY <1>5, <2>1
  <2>3. child'[n].pc = "dead"
    BY <1>1, <1>7, <2>1, LeavingAResult
  <2>4. MayTimeOut(n)'
    BY <2>3 DEF MayTimeOut, Live
  <2>5. ASSUME NEW m \in Deliveries \ {n} PROVE MayTimeOut(m)'
    BY <1>7, <2>2, UnwatchedHasNoTime DEF Watched
  <2> QED BY <1>1, <1>4, <2>4, <2>5
<1> QED BY <1>1, <1>6, <1>7, Dying

\* A claim of the row takes nothing from a delivery that beats in time, and starts none
\* whose time may run out.
LEMMA ClaimOfRowMayTimeOut ==
  ASSUME OpenWithOneFault, NEW n \in Deliveries, ClaimRow(n), row'.status \notin Over
  PROVE  job'.state # "failed" /\ \A m \in Deliveries : MayTimeOut(m)'
<1>1. /\ TypeOK /\ row.status \notin Over /\ job.state # "failed" /\ RowOutlastsABeat
      /\ row \in Rows /\ child \in [Deliveries -> Children]
      /\ \A m \in Deliveries : MayTimeOut(m)
  BY DEF OpenWithOneFault, TypeOK
<1>2. child[n].pc = "starting" /\ job' = job /\ parent' = parent /\ faults' = faults
  BY <1>1, ClaimingTheRow
<1>3. CASE child' = Left(n, "contended") /\ row' = row
  <2>1. /\ child'[n].pc \in {"contended", "gone"}
        /\ \A m \in Deliveries \ {n} : child'[m] = child[m]
    BY <1>1, <1>3, LeavingAResult DEF Results
  <2>2. \A k \in Deliveries : child[k].pc # "starting" => child'[k].pc # "starting"
    BY <2>1
  <2>3. ASSUME NEW m \in Deliveries \ {n} PROVE MayTimeOut(m)'
    BY <1>1, <1>2, <1>3, <2>1, <2>2, StillMayTimeOut DEF Fenced
  <2>4. MayTimeOut(n)'
    BY <2>1 DEF MayTimeOut, Live
  <2> QED BY <1>1, <1>2, <2>3, <2>4
<1>4. CASE /\ Takeable(n)
           /\ row' = [status |-> "running", attempts |-> row.attempts + 1, owner |-> n, age |-> 0]
           /\ child' = [child EXCEPT ![n] = [pc |-> "parsing", attempt |-> row.attempts + 1]]
  <2>1. child'[n].pc = "parsing" /\ \A m \in Deliveries \ {n} : child'[m] = child[m]
    BY <1>1, <1>4
  <2>2. ASSUME NEW m \in Deliveries \ {n} PROVE MayTimeOut(m)'
    <3> SUFFICES ASSUME Watched(m), Fenced(m) PROVE MayTimeOut(m)'
      BY <1>2 DEF MayTimeOut, Watched, Fenced
    <3>1. ~ OthersClaimed(m)
      BY <1>2 DEF OthersClaimed
    <3>2. ~ (Running(m, m) /\ Young(m))
      BY <1>1, <1>4, Bounds DEF Running, Young, Takeable, RowOutlastsABeat
    <3>3. ~ (parent[m].pc = "timing" /\ child[m].pc \in Live)
      BY <1>1, <3>1, <3>2 DEF MayTimeOut
    <3> QED BY <1>2, <2>1, <3>3 DEF MayTimeOut
  <2>3. MayTimeOut(n)'
    <3> SUFFICES ASSUME Watched(n), Fenced(n) PROVE MayTimeOut(n)'
      BY <1>2 DEF MayTimeOut, Watched, Fenced
    <3>1. parent[n].pc # "timing"
      BY <1>1, <1>2 DEF MayTimeOut, Live
    <3> QED BY <1>2, <2>1, <3>1 DEF MayTimeOut
  <2> QED BY <1>1, <1>2, <2>2, <2>3
<1> QED BY <1>1, <1>3, <1>4, ClaimingTheRow DEF Over

\* A retry hands back the row of the child that gives it up, and of no other delivery.
LEMMA PublishMayTimeOut ==
  ASSUME OpenWithOneFault, NEW n \in Deliveries, NEW o \in {"completed", "failed", "transient"}, Publish(n, o),
         row'.status \notin Over
  PROVE  job'.state # "failed" /\ \A m \in Deliveries : MayTimeOut(m)'
<1>1. /\ TypeOK /\ row.status \notin Over /\ job.state # "failed"
      /\ \A m \in Deliveries : MayTimeOut(m)
  BY DEF OpenWithOneFault
<1>2. job' = job /\ parent' = parent /\ faults' = faults
  BY <1>1, Publishing
<1>3. \/ child' = Left(n, "stale") /\ row' = row
      \/ Running(n, child[n].attempt) /\ child' = Left(n, "retry")
  <2>1. \A result \in {"completed", "failed"} : Ended(result).status = result
    BY <1>1, EndingAnAttempt DEF Over
  <2> QED BY <1>1, <2>1, Publishing DEF Over
<1>4. /\ child'[n].pc \in {"stale", "retry", "gone"}
      /\ \A m \in Deliveries \ {n} : child'[m] = child[m]
  <2>1. \A result \in {"stale", "retry"} :
           /\ Left(n, result)[n].pc \in {result, "gone"}
           /\ \A m \in Deliveries \ {n} : Left(n, result)[m] = child[m]
    BY <1>1, LeavingAResult DEF Results
  <2> QED BY <1>3, <2>1
<1>5. \A k \in Deliveries : child[k].pc # "starting" => child'[k].pc # "starting"
  BY <1>4
<1>6. ASSUME NEW m \in Deliveries \ {n}, row' = row PROVE MayTimeOut(m)'
  BY <1>1, <1>2, <1>4, <1>5, <1>6, StillMayTimeOut DEF Fenced
<1>7. ASSUME NEW m \in Deliveries \ {n}, Running(n, child[n].attempt) PROVE MayTimeOut(m)'
  <2>1. ~ Running(m, m)
    BY <1>7 DEF Running
  <2> QED BY <1>1, <1>2, <1>4, <2>1 DEF MayTimeOut, Watched, Fenced
<1>8. MayTimeOut(n)'
  BY <1>4 DEF MayTimeOut, Live
<1> QED BY <1>1, <1>2, <1>3, <1>6, <1>7, <1>8

\* A tick that is a stall is the first fault, and finds the delivery alone with its row;
\* after the fault no tick is a stall, and the row of whoever beats stays young.
LEMMA TickMayTimeOut ==
  ASSUME OpenWithOneFault, Tick
  PROVE  job'.state # "failed" /\ \A m \in Deliveries : MayTimeOut(m)'
<1>1. /\ TypeOK /\ row.status \notin Over /\ job.state # "failed" /\ RowOutlastsABeat
      /\ \A m \in Deliveries : MayTimeOut(m)
  BY DEF OpenWithOneFault
<1>2. /\ child' = child /\ row'.status = row.status /\ row'.attempts = row.attempts /\ row'.owner = row.owner
      /\ job'.state = job.state /\ job'.attempts = job.attempts
      /\ job'.left = IF job.left > 0 THEN job.left - 1 ELSE 0
      /\ row'.age = IF row.status = "running" /\ row.age < StaleAfter THEN row.age + 1 ELSE row.age
  BY <1>1, Ticking
<1>3. faults \in Nat /\ (faults > 0 => ~ Stalled) /\ (faults > 0 => faults' > 0)
  <2>1. faults \in Nat /\ faults <= MaxFaults /\ MaxFaults \in Nat /\ MaxFaults <= 1
    BY <1>1, Bounds DEF OpenWithOneFault, OneFault, TypeOK
  <2>2. IF Stalled THEN faults < MaxFaults /\ faults' = faults + 1 ELSE UNCHANGED faults
    BY <1>1, Ticking
  <2> QED BY <2>1, <2>2
<1>4. ASSUME NEW m \in Deliveries, Watched(m), Fenced(m) PROVE MayTimeOut(m)'
  <2>1. parent'[m].pc = parent[m].pc /\ parent'[m].due = TRUE
    BY <1>1, <1>4, Ticking
  <2>2. Running(m, m)' = Running(m, m) /\ OthersClaimed(m)' = OthersClaimed(m)
    BY <1>2 DEF Running, OthersClaimed
  <2>3. ASSUME faults > 0, Young(m), Running(m, m) PROVE faults' > 0 /\ Young(m)'
    <3>1. ~ parent[m].due
      BY <1>3, <1>4, <2>3 DEF Stalled
    <3>2. row.age = 0 /\ row.status = "running"
      BY <2>3, <3>1 DEF Young, Running
    <3> QED BY <1>2, <1>3, <2>1, <2>3, <3>2, Bounds DEF Young
  <2> QED BY <1>1, <1>2, <1>4, <2>1, <2>2, <2>3 DEF MayTimeOut
<1>5. ASSUME NEW m \in Deliveries, ~ (Watched(m) /\ Fenced(m)) PROVE MayTimeOut(m)'
  <2>1. parent'[m].pc = parent[m].pc
    BY <1>1, Ticking
  <2>2. Fenced(m)' => Fenced(m)
    BY <1>1, <1>2 DEF Fenced, TypeOK, Jobs
  <2>3. Watched(m)' = Watched(m)
    BY <2>1 DEF Watched
  <2> QED BY <1>5, <2>2, <2>3 DEF MayTimeOut
<1> QED BY <1>1, <1>2, <1>4, <1>5

\* A job that failed by an abandoned delivery stays as it is.
LEMMA FailedStaysFailed ==
  ASSUME TypeOK, [Next]_vars, job.state = "failed", job.attempts \in Deliveries,
         parent[job.attempts].pc = "abandoned"
  PROVE  job'.state = "failed" /\ job'.attempts = job.attempts /\ parent'[job.attempts].pc = "abandoned"
<1>1. \A n \in Deliveries : ~ Fenced(n)
  BY DEF Fenced
<1>2. CASE BeginPurge \/ EndPurge \/ TotalTimeOver \/ UNCHANGED vars
  BY <1>2 DEF BeginPurge, EndPurge, TotalTimeOver, vars
<1>3. CASE Tick
  BY <1>3, Ticking
<1>4. ~ ClaimJob
  BY DEF ClaimJob
<1>5. ASSUME NEW n \in Deliveries, Heartbeat(n)
      PROVE  job' = job /\ parent'[job.attempts] = parent[job.attempts]
  BY <1>1, <1>5, Beating DEF Watched
<1>6. ASSUME NEW n \in Deliveries, Collect(n) \/ FinishTransport(n) \/ GivesUp(n)
      PROVE  job' = job /\ parent'[job.attempts] = parent[job.attempts]
  BY <1>1, <1>6, Collecting, FinishingTheTransport, Failing DEF Watched
<1>7. ASSUME NEW n \in Deliveries, ParentDies(n)
      PROVE  job' = job /\ parent'[job.attempts] = parent[job.attempts]
  BY <1>7 DEF ParentDies, TypeOK
<1>8. ASSUME NEW n \in Deliveries, ChildDies(n) \/ ClaimRow(n)
      PROVE  job' = job /\ parent' = parent
  BY <1>8, ClaimingTheRow DEF ChildDies
<1>9. ASSUME NEW n \in Deliveries, NEW o \in {"completed", "failed", "transient"}, Publish(n, o)
      PROVE  job' = job /\ parent' = parent
  BY <1>9, Publishing
<1> QED BY <1>2, <1>3, <1>4, <1>5, <1>6, <1>7, <1>8, <1>9, Steps

\* So with one fault, every step keeps what lets the time of a delivery run out, and
\* only an abandoned delivery fails the job of an extraction that is open.
LEMMA OneFaultIsBorne ==
  ASSUME TypeOK, EachClaimsOnce, RowOutlastsABeat, NothingDisturbed, TheOneFault, [Next]_vars
  PROVE  TheOneFault'
<1> SUFFICES ASSUME OneFault PROVE TheOneFault'
  BY DEF TheOneFault
<1>1. /\ \A m \in Deliveries : MayTimeOut(m)
      /\ job.state = "failed" =>
            row.status \in Over \/ (job.attempts \in Deliveries /\ parent[job.attempts].pc = "abandoned")
  BY DEF TheOneFault
<1>2. CASE row'.status \in Over
  BY <1>2 DEF TheOneFault, MayTimeOut
<1>3. CASE row'.status \notin Over
  <2>1. row.status \notin Over
    BY <1>3, OverStaysOver DEF Over
  <2>2. SUFFICES NoneFailed /\ \A m \in Deliveries : MayTimeOut(m)'
    BY DEF TheOneFault, NoneFailed
  <2>3. CASE job.state = "failed"
    <3>1. job'.state = "failed" /\ job'.attempts \in Deliveries /\ parent'[job'.attempts].pc = "abandoned"
      BY <1>1, <2>1, <2>3, FailedStaysFailed
    <3>2. \A m \in Deliveries : ~ Fenced(m)'
      BY <3>1 DEF Fenced
    <3> QED BY <3>1, <3>2 DEF NoneFailed, MayTimeOut
  <2>4. CASE job.state # "failed"
    <3>1. OpenWithOneFault
      BY <1>1, <2>1, <2>4 DEF OpenWithOneFault
    <3>2. CASE BeginPurge \/ TotalTimeOver \/ UNCHANGED vars
      <4>1. UNCHANGED <<row, job, parent, child, faults>>
        BY <3>2 DEF BeginPurge, TotalTimeOver, vars
      <4>2. ASSUME NEW m \in Deliveries PROVE MayTimeOut(m)'
        BY <1>1, <4>1, StillMayTimeOut DEF Fenced
      <4> QED BY <2>4, <4>1, <4>2 DEF NoneFailed
    <3>3. ~ EndPurge
      BY <1>3 DEF EndPurge, TypeOK, Rows, Over
    <3>4. ASSUME NEW n \in Deliveries, NEW o \in {"completed", "failed", "transient"}, Publish(n, o)
          PROVE  NoneFailed /\ \A m \in Deliveries : MayTimeOut(m)'
      BY <1>3, <3>1, <3>4, PublishMayTimeOut DEF NoneFailed
    <3>5. ASSUME NEW n \in Deliveries,
                 Heartbeat(n) \/ ParentDies(n) \/ ChildDies(n) \/ ClaimRow(n)
          PROVE  NoneFailed /\ \A m \in Deliveries : MayTimeOut(m)'
      BY <1>3, <3>1, <3>5, HeartbeatMayTimeOut, DyingMayTimeOut, ClaimOfRowMayTimeOut DEF NoneFailed
    <3>6. ASSUME NEW n \in Deliveries, Collect(n) \/ FinishTransport(n) \/ GivesUp(n)
          PROVE  NoneFailed /\ \A m \in Deliveries : MayTimeOut(m)'
      BY <1>3, <3>1, <3>6, ClosingMayTimeOut
    <3>7. CASE ClaimJob \/ Tick
      BY <3>1, <3>7, ClaimOfJobMayTimeOut, TickMayTimeOut DEF NoneFailed
    <3> QED BY <3>2, <3>3, <3>4, <3>5, <3>6, <3>7, Steps
  <2> QED BY <2>3, <2>4
<1> QED BY <1>2, <1>3

-----------------------------------------------------------------------------
(* The theorems.                                                           *)

\* Every step keeps the invariant.
LEMMA Stepping ==
  ASSUME IndInv, [Next]_vars
  PROVE  IndInv'
<1>1. TypeOK /\ EachClaimsOnce /\ ContentStands /\ OverIsTrue
      /\ (RowOutlastsABeat => NothingDisturbed /\ TheOneFault)
  BY DEF IndInv
<1>2. TypeOK'
  BY <1>1, TypesAreKept
<1>3. EachClaimsOnce'
  BY <1>1, ClaimsStayCounted
<1>4. ContentStands' /\ OverIsTrue'
  BY <1>1, ContentKeepsStanding, OverStaysTrue
<1>5. RowOutlastsABeat => NothingDisturbed' /\ TheOneFault'
  BY <1>1, NothingIsDisturbed, OneFaultIsBorne
<1>6. RowOutlastsABeat' = RowOutlastsABeat
  BY DEF RowOutlastsABeat, StaleAfter
<1> QED BY <1>2, <1>3, <1>4, <1>5, <1>6 DEF IndInv

\* The invariant holds in every run, for every lease and any number of faults.
THEOREM Invariance == Spec => []IndInv
<1>1. Init => IndInv
  BY Beginning
<1>2. IndInv /\ [Next]_vars => IndInv'
  BY Stepping
<1> QED BY <1>1, <1>2, PTL DEF Spec

\* TypeOK: rows, jobs and processes keep their types, however deliveries overlap.
THEOREM TypeCorrect == Spec => []TypeOK
<1>1. IndInv => TypeOK
  BY DEF IndInv
<1> QED BY <1>1, Invariance, PTL

\* ContentOnlyOfCompleted: what a material says is there only while its extraction is
\* completed, whatever dies or stalls (MaterialExtractionService.finish and fail,
\* purge_attachment), as long as nothing is published inside a purge.
THEOREM OnlyTheCompletedSaySomething ==
  PurgeMeetsResult = FALSE /\ Spec => []ContentOnlyOfCompleted
<1> SUFFICES ASSUME PurgeMeetsResult = FALSE PROVE Spec => []ContentOnlyOfCompleted
  OBVIOUS
<1>1. IndInv => ContentOnlyOfCompleted
  <2> SUFFICES ASSUME IndInv PROVE content = TRUE => row.status = "completed"
    BY DEF IndInv, TypeOK, ContentOnlyOfCompleted
  <2> QED BY DEF IndInv, ContentStands
<1> QED BY <1>1, Invariance, PTL

\* A job archived as done belongs to an extraction that is over.
ArchivedJobHasClosedRow == job.state = "completed" => row.status \in Over

\* ArchivedJobHasClosedRow: no delivery archives the job of an open extraction as done,
\* whatever dies, stalls or is purged, and however often (_finish_transport).
THEOREM WhatIsArchivedIsOver == Spec => []ArchivedJobHasClosedRow
<1>1. IndInv => ArchivedJobHasClosedRow
  BY DEF IndInv, OverIsTrue, ArchivedJobHasClosedRow
<1> QED BY <1>1, Invariance, PTL

\* Nothing but a purge changes the status of an extraction that is over.
OverIsFinal == row.status \in Over => row'.status \in {row.status, "purged"}

\* OverIsFinal: no late child claims or publishes into an extraction that is over, and no
\* late parent fails it (claim, finish, _abandon, _time_out).
THEOREM WhatIsOverStaysOver == Spec => [][OverIsFinal]_vars
<1>1. TypeOK /\ [Next]_vars => [OverIsFinal]_vars
  BY OverStaysOver DEF OverIsFinal
<1> QED BY <1>1, TypeCorrect, PTL DEF Spec

\* UndisturbedWorkIsKept: without a fault and a purge no child finds its row held by
\* another, or its attempt stale, for every lease and any number of retries
\* (_heartbeat, MaterialExtractionService.claim and finish).
THEOREM NoRivalWithoutAFault == RowOutlastsABeat /\ Spec => []UndisturbedWorkIsKept
<1> SUFFICES ASSUME RowOutlastsABeat PROVE Spec => []UndisturbedWorkIsKept
  OBVIOUS
<1>1. IndInv => UndisturbedWorkIsKept
  <2> SUFFICES ASSUME IndInv, faults = 0, row.status # "purged", NEW n \in Deliveries
               PROVE  child[n].pc \notin {"contended", "stale"}
    BY DEF UndisturbedWorkIsKept
  <2>1. InStep(n)
    BY DEF IndInv, NothingDisturbed, Undisturbed
  <2> QED BY <2>1 DEF InStep
<1> QED BY <1>1, Invariance, PTL

\* ClosedJobHasClosedRow: with one fault, wherever a parent dies or meets an exception, a
\* worker stalls or a child dies, no job is closed while its extraction is open unless its
\* delivery was abandoned (_abandon, _time_out, _finish_transport).
THEOREM OnlyAbandonmentLeavesWorkOpen ==
  RowOutlastsABeat /\ OneFault /\ Spec => []ClosedJobHasClosedRow
<1> SUFFICES ASSUME RowOutlastsABeat, OneFault PROVE Spec => []ClosedJobHasClosedRow
  OBVIOUS
<1>1. IndInv => ClosedJobHasClosedRow
  <2> SUFFICES ASSUME IndInv PROVE ClosedJobHasClosedRow
    OBVIOUS
  <2>1. row.status \in Open \cup Over
    BY DEF IndInv, TypeOK, Rows
  <2>2. /\ job.state = "completed" => row.status \in Over
        /\ job.state = "failed" => row.status \in Over \/ parent[job.attempts].pc = "abandoned"
    BY DEF IndInv, OverIsTrue, TheOneFault
  <2> QED BY <2>1, <2>2 DEF ClosedJobHasClosedRow, Stranded
<1> QED BY <1>1, Invariance, PTL
=============================================================================
