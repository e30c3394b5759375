----------------------- MODULE MeetingMinutes_proofs -----------------------
(***************************************************************************)
(* Proofs about the minutes of one meeting, for every number of workers,   *)
(* attempts, deliveries, batches, jobs and faults.                         *)
(***************************************************************************)
EXTENDS MeetingMinutes, TLAPS, FiniteSetTheorems

\* What the types rest on: a batch under way has a place in the AI track, a worker
\* has a job, an outcome to close it with, and attempts left while it composes.
BatchHasAPlace == "batch" \in serving => ai < MaxBatches

WorkIsKnown ==
    \A w \in Workers :
        /\ IF worker[w].pc = "idle" THEN worker[w] = NoWork ELSE worker[w].job \in DOMAIN jobs
        /\ worker[w].pc = "closing" <=> worker[w].outcome # "none"
        /\ worker[w].pc \in {"claimed", "hearing", "loading"} =>
               worker[w].tries = 0 /\ ~worker[w].renewed
        /\ worker[w].pc \in {"composing", "committing"} =>
               worker[w].tries < FinalAttempts \/ (worker[w].renewed /\ worker[w].tries = FinalAttempts)

Typing == TypeOK /\ BatchHasAPlace /\ WorkIsKnown

\* Who may still have the recording heard: a job nobody works on, a worker that
\* claimed one, and one whose delivery failed and may be handed back.
DueJobs    == {j \in DOMAIN jobs : Open(j) /\ (jobs[j].holder = Nobody \/ ~AtWork(j))}
DueWorkers == {w \in Workers : worker[w].pc \in {"claimed", "raised"} \/ worker[w].outcome = "queued"}

HearingsAreAccountedFor ==
    /\ IsFiniteSet(DueWorkers)
    /\ hearings + Cardinality(DueJobs) + Cardinality(DueWorkers) <= Len(jobs) + overruns + faults

\* The text was heard when minutes are composed of it.
ComposedOfTheHeard ==
    /\ text # "mixed"
    /\ \A w \in Workers : worker[w].pc \in {"loading", "composing", "committing"} => text = "heard"

IndInv == Typing /\ HearingsAreAccountedFor

-----------------------------------------------------------------------------
(* Types.                                                                  *)

\* What holds of one worker's row.
WorkerOK(row) ==
    /\ row \in WorkerStates
    /\ IF row.pc = "idle" THEN row = NoWork ELSE row.job \in DOMAIN jobs
    /\ row.pc = "closing" <=> row.outcome # "none"
    /\ row.pc \in {"claimed", "hearing", "loading"} => row.tries = 0 /\ ~row.renewed
    /\ row.pc \in {"composing", "committing"} =>
           row.tries < FinalAttempts \/ (row.renewed /\ row.tries = FinalAttempts)

\* A step of one worker that leaves him in order, and the rows of jobs alone.
LEMMA WorkerMoves ==
  ASSUME Typing, NEW w \in Workers, NEW row, WorkerOK(row),
         worker' = [worker EXCEPT ![w] = row], DOMAIN jobs' = DOMAIN jobs
  PROVE  worker' \in [Workers -> WorkerStates] /\ WorkIsKnown'
<1>1. \A v \in Workers : worker'[v] = IF v = w THEN row ELSE worker[v]
  BY DEF Typing, TypeOK
<1>2. worker' \in [Workers -> WorkerStates]
  BY DEF Typing, TypeOK, WorkerOK
<1>3. WorkIsKnown'
  BY <1>1 DEF Typing, WorkIsKnown, WorkerOK
<1> QED BY <1>2, <1>3

\* The rows a step may leave behind: moved on, closing, or idle.
LEMMA RowsInOrder ==
  ASSUME Typing, NEW w \in Workers
  PROVE  /\ WorkerOK(worker[w]) /\ WorkerOK(NoWork)
         /\ worker[w].pc # "idle" =>
               \A outcome \in {"completed", "queued", "failed"} :
                  WorkerOK([NoWork EXCEPT !.pc = "closing", !.job = worker[w].job, !.outcome = outcome])
         /\ worker[w].pc \notin {"idle", "closing"} =>
               /\ \A pc \in {"failing", "raised"} : WorkerOK([worker[w] EXCEPT !.pc = pc])
               /\ worker[w].pc \in {"claimed", "hearing"} =>
                     \A pc \in {"hearing", "loading"} : WorkerOK([worker[w] EXCEPT !.pc = pc])
         /\ worker[w].pc = "composing" => WorkerOK([worker[w] EXCEPT !.pc = "committing"])
<1> USE MinutesAssumption DEF Typing
<1>1. WorkerOK(worker[w])
  BY DEF TypeOK, WorkIsKnown, WorkerOK
<1>2. NoWork \in WorkerStates
  BY DEF NoWork, WorkerStates
<1>3. WorkerOK(NoWork)
  BY <1>2 DEF WorkerOK, NoWork
<1>4. ASSUME worker[w].pc # "idle", NEW outcome \in {"completed", "queued", "failed"}
      PROVE  WorkerOK([NoWork EXCEPT !.pc = "closing", !.job = worker[w].job, !.outcome = outcome])
  <2>1. worker[w].job \in DOMAIN jobs /\ worker[w].job \in 0 .. MaxJobs
    BY <1>1, <1>4 DEF WorkerOK, WorkerStates
  <2> QED BY <1>2, <2>1 DEF WorkerOK, NoWork, WorkerStates
<1>5. ASSUME worker[w].pc \notin {"idle", "closing"}, NEW pc \in {"failing", "raised"}
      PROVE  WorkerOK([worker[w] EXCEPT !.pc = pc])
  BY <1>1, <1>5 DEF WorkerOK, WorkerStates
<1>6. ASSUME worker[w].pc \in {"claimed", "hearing"}, NEW pc \in {"hearing", "loading"}
      PROVE  WorkerOK([worker[w] EXCEPT !.pc = pc])
  BY <1>1, <1>6 DEF WorkerOK, WorkerStates
<1>7. ASSUME worker[w].pc = "composing" PROVE WorkerOK([worker[w] EXCEPT !.pc = "committing"])
  BY <1>1, <1>7 DEF WorkerOK, WorkerStates
<1> QED BY <1>1, <1>3, <1>4, <1>5, <1>6, <1>7

\* After an attempt that failed there is another one, or none is left.
LEMMA AttemptsInOrder ==
  ASSUME Typing, NEW w \in Workers, worker[w].pc \in {"composing", "committing"}
  PROVE  \E tried, renewed :
            /\ WorkerOK(tried) /\ Tried(w) = [worker EXCEPT ![w] = tried] /\ tried.outcome = "none"
            /\ tried.job = worker[w].job /\ tried.pc \in {"composing", "failing"}
            /\ WorkerOK(renewed) /\ TimedOut(w) = [worker EXCEPT ![w] = renewed]
            /\ renewed.outcome = "none" /\ renewed.job = worker[w].job
            /\ renewed.pc \in {worker[w].pc, "failing"}
<1> USE MinutesAssumption DEF Typing
<1> DEFINE row == worker[w]
           tried == [row EXCEPT !.tries = row.tries + 1,
                                !.pc = IF row.renewed \/ row.tries + 1 >= FinalAttempts
                                       THEN "failing" ELSE "composing"]
           renewed == IF row.renewed THEN [row EXCEPT !.pc = "failing"]
                      ELSE [row EXCEPT !.renewed = TRUE, !.tries = row.tries + 1]
<1>1. /\ row \in WorkerStates /\ row.job \in DOMAIN jobs /\ row.outcome = "none"
      /\ row.tries < FinalAttempts \/ (row.renewed /\ row.tries = FinalAttempts)
  BY DEF TypeOK, WorkIsKnown
<1>2. row.tries \in Nat /\ row.tries + 1 \in 0 .. FinalAttempts + 1
  BY <1>1 DEF WorkerStates
<1>3. WorkerOK(tried)
  <2>1. tried \in WorkerStates
    BY <1>1, <1>2 DEF WorkerStates
  <2>2. /\ tried.pc = (IF row.renewed \/ row.tries + 1 >= FinalAttempts THEN "failing" ELSE "composing")
        /\ tried.tries = row.tries + 1 /\ tried.job = row.job /\ tried.outcome = "none"
    BY <1>1 DEF WorkerStates
  <2>3. tried.pc = "composing" => tried.tries < FinalAttempts
    BY <1>2, <2>2
  <2> HIDE DEF tried
  <2> QED BY <1>1, <2>1, <2>2, <2>3 DEF WorkerOK
<1>4. WorkerOK(renewed)
  <2>1. CASE row.renewed
    BY <1>1, <2>1 DEF WorkerOK, WorkerStates
  <2>2. CASE ~row.renewed
    <3>1. renewed = [row EXCEPT !.renewed = TRUE, !.tries = row.tries + 1]
      BY <2>2
    <3>2. renewed \in WorkerStates
      BY <1>1, <1>2, <3>1 DEF WorkerStates
    <3>3. /\ renewed.pc = row.pc /\ renewed.renewed = TRUE /\ renewed.tries = row.tries + 1
          /\ renewed.job = row.job /\ renewed.outcome = "none"
      BY <1>1, <3>1 DEF WorkerStates
    <3>4. renewed.tries < FinalAttempts \/ renewed.tries = FinalAttempts
      BY <1>1, <1>2, <2>2, <3>3
    <3> HIDE DEF renewed
    <3> QED BY <1>1, <3>2, <3>3, <3>4 DEF WorkerOK
  <2> QED BY <2>1, <2>2
<1>5. Tried(w) = [worker EXCEPT ![w] = tried]
  BY DEF Tried
<1>6. TimedOut(w) = [worker EXCEPT ![w] = renewed]
  BY DEF TimedOut, Moved
<1>7. /\ tried.outcome = "none" /\ tried.job = row.job /\ tried.pc \in {"composing", "failing"}
      /\ renewed.outcome = "none" /\ renewed.job = row.job /\ renewed.pc \in {row.pc, "failing"}
  BY <1>1 DEF WorkerStates
<1> HIDE DEF tried, renewed
<1> QED BY <1>3, <1>4, <1>5, <1>6, <1>7

\* Rows of jobs that change keep their number and their kind.
LEMMA JobsChange ==
  ASSUME TypeOK, NEW j, NEW row \in JobRows, jobs' = [jobs EXCEPT ![j] = row]
  PROVE  /\ jobs' \in Seq(JobRows) /\ Len(jobs') = Len(jobs) /\ DOMAIN jobs' = DOMAIN jobs
         /\ \A k \in DOMAIN jobs : jobs'[k] = IF k = j THEN row ELSE jobs[k]
<1>1. jobs \in [1 .. Len(jobs) -> JobRows] /\ Len(jobs) \in Nat /\ DOMAIN jobs = 1 .. Len(jobs)
  BY DEF TypeOK
<1>2. jobs' \in [1 .. Len(jobs) -> JobRows]
  BY <1>1
<1> QED BY <1>1, <1>2

\* What the end of a delivery makes of its job.
ClosedJob(w) ==
    [jobs[worker[w].job] EXCEPT !.state = worker[w].outcome, !.holder = Nobody]

\* A delivery that ends writes its own job, if it still holds it, and frees its worker.
LEMMA CloseChanges ==
  ASSUME Typing, NEW w \in Workers, Close(w)
  PROVE  /\ worker[w].job \in DOMAIN jobs /\ worker[w].outcome \in {"completed", "queued", "failed"}
         /\ IF jobs[worker[w].job].holder = w
            THEN ClosedJob(w) \in JobRows /\ jobs' = [jobs EXCEPT ![worker[w].job] = ClosedJob(w)]
            ELSE jobs' = jobs
         /\ worker' = [worker EXCEPT ![w] = NoWork]
<1>1. worker[w].job \in DOMAIN jobs /\ worker[w].outcome \in {"completed", "queued", "failed"}
  BY DEF Close, At, Typing, WorkIsKnown, TypeOK, WorkerStates
<1>2. jobs[worker[w].job] \in JobRows
  BY <1>1 DEF Typing, TypeOK
<1>3. ClosedJob(w) \in JobRows
  BY <1>1, <1>2 DEF ClosedJob, JobRows
<1> QED BY <1>1, <1>3 DEF Close, ClosedJob

\* Every step keeps the workers and the jobs in order.
LEMMA WorkStep ==
  ASSUME Typing, [Next]_vars
  PROVE  /\ worker' \in [Workers -> WorkerStates] /\ WorkIsKnown'
         /\ jobs' \in Seq(JobRows) /\ Len(jobs') <= MaxJobs
<1> DEFINE Goal == /\ worker' \in [Workers -> WorkerStates] /\ WorkIsKnown'
                   /\ jobs' \in Seq(JobRows) /\ Len(jobs') <= MaxJobs
<1> USE MinutesAssumption
<1>0. jobs \in Seq(JobRows) /\ Len(jobs) <= MaxJobs /\ DOMAIN jobs = 1 .. Len(jobs) /\ Len(jobs) \in Nat
      /\ worker \in [Workers -> WorkerStates] /\ WorkIsKnown
  BY DEF Typing, TypeOK
<1>1. ASSUME NEW w \in Workers, NEW row, WorkerOK(row), jobs' = jobs, worker' = [worker EXCEPT ![w] = row]
      PROVE  Goal
  BY <1>0, <1>1, WorkerMoves
<1>2. ASSUME NEW w \in Workers, Claim(w) PROVE Goal
  <2>1. PICK j \in Claimable :
           /\ jobs' = [jobs EXCEPT ![j] = [state |-> "running", attempt |-> NextAttempt(j), holder |-> w]]
           /\ worker' = [worker EXCEPT ![w] = [NoWork EXCEPT !.pc = "claimed", !.job = j,
                                                             !.attempt = NextAttempt(j)]]
    BY <1>2 DEF Claim
  <2>2. j \in DOMAIN jobs /\ j \in 0 .. MaxJobs /\ NextAttempt(j) \in 0 .. MaxDeliveries
    <3>1. j \in DOMAIN jobs /\ jobs[j] \in JobRows
      BY <1>0 DEF Claimable
    <3>2. jobs[j].attempt \in 0 .. MaxDeliveries
      BY <3>1 DEF JobRows
    <3> QED BY <1>0, <3>1, <3>2 DEF NextAttempt
  <2>3. [state |-> "running", attempt |-> NextAttempt(j), holder |-> w] \in JobRows
    BY <2>2 DEF JobRows
  <2>4. jobs' \in Seq(JobRows) /\ Len(jobs') = Len(jobs) /\ DOMAIN jobs' = DOMAIN jobs
    BY <2>1, <2>3, JobsChange DEF Typing
  <2>5. WorkerOK([NoWork EXCEPT !.pc = "claimed", !.job = j, !.attempt = NextAttempt(j)])
    <3> DEFINE row == [NoWork EXCEPT !.pc = "claimed", !.job = j, !.attempt = NextAttempt(j)]
    <3>1. row \in WorkerStates
      <4>1. NoWork \in WorkerStates
        BY RowsInOrder DEF WorkerOK
      <4>2. [NoWork EXCEPT !.job = j] \in WorkerStates
        BY <2>2, <4>1 DEF WorkerStates
      <4>3. [[NoWork EXCEPT !.job = j] EXCEPT !.attempt = NextAttempt(j)] \in WorkerStates
        BY <2>2, <4>2 DEF WorkerStates
      <4>4. row = [[[NoWork EXCEPT !.job = j] EXCEPT !.attempt = NextAttempt(j)] EXCEPT !.pc = "claimed"]
        BY DEF NoWork
      <4> HIDE DEF row
      <4> QED BY <4>3, <4>4 DEF WorkerStates
    <3>2. /\ row.pc = "claimed" /\ row.job = j /\ row.outcome = "none"
          /\ row.tries = 0 /\ row.renewed = FALSE
      BY DEF NoWork
    <3> HIDE DEF row
    <3>3. WorkerOK(row)
      BY <2>2, <3>1, <3>2 DEF WorkerOK
    <3> QED BY <3>3 DEF row
  <2> QED BY <1>0, <2>1, <2>4, <2>5, WorkerMoves
<1>3. ASSUME NEW w \in Workers, Hear(w) \/ Heard(w) PROVE Goal
  <2>1. \E pc \in {"hearing", "loading", "failing"} : worker' = [worker EXCEPT ![w] = [worker[w] EXCEPT !.pc = pc]]
    BY <1>3 DEF Hear, Heard, Moved
  <2> QED BY <1>1, <1>3, <2>1, RowsInOrder DEF Hear, Heard, At
<1>4. ASSUME NEW w \in Workers, Load(w) PROVE Goal
  <2>1. CASE status = "summarizing"
    <3>1. worker' = [worker EXCEPT ![w] = [worker[w] EXCEPT !.pc = "composing", !.ai = ai]]
      BY <1>4, <2>1 DEF Load
    <3>2. WorkerOK([worker[w] EXCEPT !.pc = "composing", !.ai = ai])
      <4>1. worker[w] \in WorkerStates /\ worker[w].job \in DOMAIN jobs /\ worker[w].tries = 0
            /\ worker[w].outcome = "none"
        BY <1>0, <1>4 DEF WorkIsKnown, Load, At
      <4>2. ai \in 0 .. MaxBatches
        BY DEF Typing, TypeOK
      <4> DEFINE row == [worker[w] EXCEPT !.pc = "composing", !.ai = ai]
      <4>3. row \in WorkerStates
        BY <4>1, <4>2 DEF WorkerStates
      <4>4. row.pc = "composing" /\ row.job = worker[w].job /\ row.outcome = "none" /\ row.tries = 0
        BY <4>1 DEF WorkerStates
      <4> HIDE DEF row
      <4>5. WorkerOK(row)
        BY <4>1, <4>3, <4>4 DEF WorkerOK
      <4> QED BY <4>5 DEF row
    <3> QED BY <1>1, <1>4, <3>1, <3>2 DEF Load
  <2>2. CASE status # "summarizing"
    BY <1>1, <1>4, <2>2, RowsInOrder DEF Load, At, Closing
  <2> QED BY <2>1, <2>2
<1>5. ASSUME NEW w \in Workers, Compose(w) PROVE Goal
  <2>1. CASE worker' = Moved(w, "committing")
    <3>1. worker' = [worker EXCEPT ![w] = [worker[w] EXCEPT !.pc = "committing"]]
      BY <2>1 DEF Moved
    <3> QED BY <1>1, <1>5, <3>1, RowsInOrder DEF Compose, At
  <2>2. CASE worker' \in {Tried(w), TimedOut(w)}
    BY <1>1, <1>5, <2>2, AttemptsInOrder DEF Compose, At
  <2> QED BY <1>5, <2>1, <2>2 DEF Compose
<1>6. ASSUME NEW w \in Workers, Commit(w) PROVE Goal
  <2>1. CASE worker' = Closing(w, "completed")
    BY <1>1, <1>6, <2>1, RowsInOrder DEF Commit, At, Closing
  <2>2. CASE worker' = Tried(w)
    BY <1>1, <1>6, <2>2, AttemptsInOrder DEF Commit, At
  <2> QED BY <1>6, <2>1, <2>2 DEF Commit
<1>7. ASSUME NEW w \in Workers, GiveUp(w) \/ DeliveryFailed(w) PROVE Goal
  <2>1. worker[w].pc # "idle" /\ jobs' = jobs
        /\ \E outcome \in {"completed", "queued", "failed"} : worker' = Closing(w, outcome)
    BY <1>7 DEF GiveUp, DeliveryFailed, At
  <2> QED BY <1>1, <2>1, RowsInOrder DEF Closing
<1>8. ASSUME NEW w \in Workers, Raise(w) PROVE Goal
  <2>1. worker' = [worker EXCEPT ![w] = [worker[w] EXCEPT !.pc = "raised"]]
    BY <1>8 DEF Raise, Moved
  <2> QED BY <1>1, <1>8, <2>1, RowsInOrder DEF Raise
<1>9. ASSUME NEW w \in Workers, Close(w) PROVE Goal
  <2>1. jobs' \in Seq(JobRows) /\ Len(jobs') = Len(jobs) /\ DOMAIN jobs' = DOMAIN jobs
    <3>1. CASE jobs' = jobs
      BY <1>0, <3>1
    <3>2. CASE ClosedJob(w) \in JobRows /\ jobs' = [jobs EXCEPT ![worker[w].job] = ClosedJob(w)]
      BY <3>2, JobsChange DEF Typing
    <3> QED BY <1>9, <3>1, <3>2, CloseChanges
  <2> QED BY <1>0, <1>9, <2>1, CloseChanges, RowsInOrder, WorkerMoves
<1>10. ASSUME NEW w \in Workers, Crash(w) PROVE Goal
  BY <1>1, <1>10, RowsInOrder DEF Crash
<1>11. ASSUME NEW j \in 1 .. MaxJobs, LeaseRunsOut(j) \/ LeaseIsLost(j) PROVE Goal
  <2>1. j \in DOMAIN jobs /\ jobs' = [jobs EXCEPT ![j] = [jobs[j] EXCEPT !.holder = Nobody]]
        /\ worker' = worker
    BY <1>11 DEF LeaseRunsOut, LeaseIsLost
  <2>2. [jobs[j] EXCEPT !.holder = Nobody] \in JobRows
    <3>1. jobs[j] \in JobRows
      BY <1>0, <2>1
    <3> QED BY <3>1 DEF JobRows
  <2>3. jobs' \in Seq(JobRows) /\ Len(jobs') = Len(jobs) /\ DOMAIN jobs' = DOMAIN jobs
    BY <2>1, <2>2, JobsChange DEF Typing
  <2> QED BY <1>0, <2>1, <2>3 DEF WorkIsKnown
<1>12. CASE Ask
  <2>1. NewJob \in JobRows
    BY DEF NewJob, JobRows
  <2>2. jobs' \in Seq(JobRows) /\ Len(jobs') = Len(jobs) + 1 /\ DOMAIN jobs \subseteq DOMAIN jobs'
    BY <1>0, <1>12, <2>1 DEF Ask
  <2>3. worker' = worker /\ Len(jobs') <= MaxJobs
    BY <1>0, <1>12, <2>2 DEF Ask
  <2>4. WorkIsKnown'
    BY <1>0, <2>2, <2>3 DEF WorkIsKnown
  <2> QED BY <1>0, <2>2, <2>3, <2>4
<1>13. CASE Record \/ BatchBegins \/ BatchEnds \/ LastWords \/ Settle \/ UNCHANGED vars
  <2>1. worker' = worker /\ jobs' = jobs
    BY <1>13 DEF Record, BatchBegins, BatchEnds, LastWords, Settle, vars
  <2> QED BY <1>0, <2>1 DEF WorkIsKnown
<1> QED
  BY <1>2, <1>3, <1>4, <1>5, <1>6, <1>7, <1>8, <1>9, <1>10, <1>11, <1>12, <1>13 DEF Next, WorkerStep

\* And the meeting's own columns and the counters.
LEMMA MeetingStep ==
  ASSUME Typing, [Next]_vars
  PROVE  /\ status' \in Statuses /\ recorded' \in BOOLEAN /\ text' \in {"live", "heard", "mixed"}
         /\ ai' \in 0 .. MaxBatches /\ provisional' \in BOOLEAN /\ BatchHasAPlace'
         /\ note' \in [made : Nat, ai : 0 .. MaxBatches, todo : {"none", "open", "promoted"}]
         /\ serving' \subseteq {"batch", "stream"}
         /\ hearings' \in Nat /\ overruns' \in 0 .. MaxOverruns /\ faults' \in 0 .. MaxFaults
<1> DEFINE Goal == /\ status' \in Statuses /\ recorded' \in BOOLEAN /\ text' \in {"live", "heard", "mixed"}
                   /\ ai' \in 0 .. MaxBatches /\ provisional' \in BOOLEAN /\ BatchHasAPlace'
                   /\ note' \in [made : Nat, ai : 0 .. MaxBatches, todo : {"none", "open", "promoted"}]
                   /\ serving' \subseteq {"batch", "stream"}
                   /\ hearings' \in Nat /\ overruns' \in 0 .. MaxOverruns /\ faults' \in 0 .. MaxFaults
<1> USE MinutesAssumption DEF Typing, TypeOK, BatchHasAPlace
<1>1. CASE Record
  BY <1>1 DEF Record
<1>2. CASE BatchBegins
  BY <1>2 DEF BatchBegins
<1>3. CASE BatchEnds
  <2>1. ai + 1 \in 0 .. MaxBatches
    BY <1>3 DEF BatchEnds
  <2>2. ai' \in 0 .. MaxBatches /\ provisional' \in BOOLEAN
    BY <1>3, <2>1 DEF BatchEnds
  <2> QED BY <1>3, <2>2 DEF BatchEnds
<1>4. CASE LastWords
  BY <1>4 DEF LastWords
<1>5. CASE Ask
  BY <1>5 DEF Ask, Statuses
<1>6. CASE Settle
  <2>1. PICK end \in {"promoted", "none"} : note' = [note EXCEPT !.todo = end]
    BY <1>6 DEF Settle
  <2>2. note' \in [made : Nat, ai : 0 .. MaxBatches, todo : {"none", "open", "promoted"}]
    BY <2>1
  <2> QED BY <1>6, <2>2 DEF Settle
<1>7. ASSUME NEW w \in Workers,
             Claim(w) \/ Hear(w) \/ Heard(w) \/ Load(w) \/ Compose(w) \/ Close(w)
      PROVE  Goal
  <2>1. text' \in {text, "heard"} /\ hearings' \in {hearings, hearings + 1}
        /\ UNCHANGED <<status, recorded, ai, provisional, note, serving, overruns, faults>>
    BY <1>7 DEF Claim, Hear, Heard, Load, Compose, Close
  <2> QED BY <2>1
<1>8. ASSUME NEW w \in Workers, Commit(w) PROVE Goal
  <2>1. Made(w) \in [made : Nat, ai : 0 .. MaxBatches, todo : {"none", "open", "promoted"}]
    BY DEF Made
  <2>2. faults' \in 0 .. MaxFaults
    BY <1>8 DEF Commit
  <2>3. status' \in Statuses /\ provisional' \in BOOLEAN
        /\ note' \in [made : Nat, ai : 0 .. MaxBatches, todo : {"none", "open", "promoted"}]
    BY <1>8, <2>1 DEF Commit, Statuses
  <2> QED BY <1>8, <2>2, <2>3 DEF Commit
<1>9. ASSUME NEW w \in Workers, GiveUp(w) \/ DeliveryFailed(w) PROVE Goal
  BY <1>9 DEF GiveUp, DeliveryFailed, FailedStatus, Statuses
<1>10. ASSUME NEW w \in Workers, Raise(w) \/ Crash(w) PROVE Goal
  <2>1. faults < MaxFaults /\ faults' = faults + 1
        /\ UNCHANGED <<status, recorded, text, ai, provisional, note, serving, hearings, overruns>>
    BY <1>10 DEF Raise, Crash
  <2> QED BY <2>1
<1>11. ASSUME NEW j \in 1 .. MaxJobs, LeaseRunsOut(j) \/ LeaseIsLost(j) PROVE Goal
  <2>1. overruns' = overruns \/ (overruns < MaxOverruns /\ overruns' = overruns + 1)
    BY <1>11 DEF LeaseRunsOut, LeaseIsLost
  <2> QED BY <1>11, <2>1 DEF LeaseRunsOut, LeaseIsLost
<1>12. CASE UNCHANGED vars
  BY <1>12 DEF vars
<1> QED
  BY <1>1, <1>2, <1>3, <1>4, <1>5, <1>6, <1>7, <1>8, <1>9, <1>10, <1>11, <1>12 DEF Next, WorkerStep

\* Together: every step keeps the types.
LEMMA TypeStep == Typing /\ [Next]_vars => Typing'
  BY WorkStep, MeetingStep DEF Typing, TypeOK

-----------------------------------------------------------------------------
(* What minutes are made of.                                               *)

\* A worker gets to compose only behind the recording.
LEMMA TextStep ==
  ASSUME Typing, ~LateWrites, ComposedOfTheHeard, [Next]_vars
  PROVE  ComposedOfTheHeard'
<1> USE DEF Typing, TypeOK, ComposedOfTheHeard
<1> DEFINE Late == {"loading", "composing", "committing"}
<1>1. ASSUME \A w \in Workers : worker'[w].pc \in Late => worker[w].pc \in Late,
             text' = text \/ text' = "heard"
      PROVE  ComposedOfTheHeard'
  BY <1>1
<1>2. ASSUME NEW w \in Workers, NEW row, worker' = [worker EXCEPT ![w] = row],
             row.pc \in Late => worker[w].pc \in Late, text' = text
      PROVE  ComposedOfTheHeard'
  <2>1. \A v \in Workers : worker'[v] = IF v = w THEN row ELSE worker[v]
    BY <1>2
  <2> QED BY <1>1, <1>2, <2>1
<1>3. ASSUME NEW w \in Workers, NEW pc, worker' = Moved(w, pc), text' = text,
             pc \in Late => worker[w].pc \in Late
      PROVE  ComposedOfTheHeard'
  <2>1. worker' = [worker EXCEPT ![w] = [worker[w] EXCEPT !.pc = pc]]
        /\ [worker[w] EXCEPT !.pc = pc].pc = pc
    BY <1>3 DEF Moved, WorkerStates
  <2> QED BY <1>2, <1>3, <2>1
<1>4. ASSUME NEW w \in Workers, NEW outcome, worker' = Closing(w, outcome), text' = text
      PROVE  ComposedOfTheHeard'
  <2> DEFINE row == [NoWork EXCEPT !.pc = "closing", !.job = worker[w].job, !.outcome = outcome]
  <2>1. worker' = [worker EXCEPT ![w] = row] /\ row.pc = "closing"
    BY <1>4 DEF Closing, NoWork
  <2> QED BY <1>2, <1>4, <2>1
<1>5. ASSUME NEW w \in Workers, worker[w].pc \in {"composing", "committing"},
             worker' \in {Tried(w), TimedOut(w)}, text' = text
      PROVE  ComposedOfTheHeard'
  BY <1>2, <1>5, AttemptsInOrder
<1>6. ASSUME NEW w \in Workers, Claim(w) PROVE ComposedOfTheHeard'
  <2>1. PICK j : worker' = [worker EXCEPT ![w] = [NoWork EXCEPT !.pc = "claimed", !.job = j,
                                                               !.attempt = NextAttempt(j)]]
    BY <1>6 DEF Claim
  <2>2. [NoWork EXCEPT !.pc = "claimed", !.job = j, !.attempt = NextAttempt(j)].pc = "claimed"
    BY DEF NoWork
  <2> QED BY <1>2, <1>6, <2>1, <2>2 DEF Claim
<1>7. ASSUME NEW w \in Workers, Hear(w) PROVE ComposedOfTheHeard'
  BY <1>3, <1>7 DEF Hear
<1>8. ASSUME NEW w \in Workers, Heard(w) PROVE ComposedOfTheHeard'
  <2>1. CASE text' = "heard"
    BY <2>1
  <2>2. CASE worker' = Moved(w, "failing") /\ text' = text
    BY <1>3, <2>2
  <2> QED BY <1>8, <2>1, <2>2 DEF Heard
<1>9. ASSUME NEW w \in Workers, Load(w) PROVE ComposedOfTheHeard'
  <2>1. CASE status = "summarizing"
    <3>1. worker' = [worker EXCEPT ![w] = [worker[w] EXCEPT !.pc = "composing", !.ai = ai]]
      BY <1>9, <2>1 DEF Load
    <3> QED BY <1>2, <1>9, <3>1 DEF Load, At
  <2> QED BY <1>4, <1>9, <2>1 DEF Load
<1>10. ASSUME NEW w \in Workers, Compose(w) PROVE ComposedOfTheHeard'
  BY <1>3, <1>5, <1>10 DEF Compose, At
<1>11. ASSUME NEW w \in Workers, Commit(w) PROVE ComposedOfTheHeard'
  BY <1>4, <1>5, <1>11 DEF Commit, At
<1>12. ASSUME NEW w \in Workers, GiveUp(w) \/ DeliveryFailed(w) PROVE ComposedOfTheHeard'
  BY <1>4, <1>12 DEF GiveUp, DeliveryFailed
<1>13. ASSUME NEW w \in Workers, Raise(w) PROVE ComposedOfTheHeard'
  BY <1>3, <1>13 DEF Raise
<1>14. ASSUME NEW w \in Workers, Close(w) \/ Crash(w) PROVE ComposedOfTheHeard'
  <2>1. NoWork.pc = "idle" /\ worker' = [worker EXCEPT ![w] = NoWork] /\ text' = text
    BY <1>14 DEF NoWork, Close, Crash
  <2> QED BY <1>2, <2>1
<1>15. CASE LastWords
  <2>1. text' = text /\ worker' = worker
    BY <1>15 DEF LastWords
  <2> QED BY <2>1
<1>16. CASE \/ Record \/ BatchBegins \/ BatchEnds \/ Ask \/ Settle \/ UNCHANGED vars
            \/ \E j \in 1 .. MaxJobs : LeaseRunsOut(j) \/ LeaseIsLost(j)
  <2>1. text' = text /\ worker' = worker
    BY <1>16 DEF Record, BatchBegins, BatchEnds, Ask, Settle, vars, LeaseRunsOut, LeaseIsLost
  <2> QED BY <2>1
<1> QED
  BY <1>6, <1>7, <1>8, <1>9, <1>10, <1>11, <1>12, <1>13, <1>14, <1>15, <1>16 DEF Next, WorkerStep

-----------------------------------------------------------------------------
(* How often the recording is heard.                                       *)

\* One element more counts one more at most, one less counts one less.
LEMMA CountOneMore ==
  ASSUME NEW S, IsFiniteSet(S), NEW x, NEW T, T \subseteq S \cup {x}
  PROVE  IsFiniteSet(T) /\ Cardinality(T) <= Cardinality(S) + 1 /\ Cardinality(T) \in Nat
<1>1. IsFiniteSet(S \cup {x}) /\ Cardinality(S \cup {x}) <= Cardinality(S) + 1
  <2>1. Cardinality(S) \in Nat
    BY FS_CardinalityType
  <2>2. CASE x \in S
    <3>1. S \cup {x} = S
      BY <2>2
    <3> QED BY <2>1, <3>1
  <2>3. CASE x \notin S
    <3>1. IsFiniteSet(S \cup {x}) /\ Cardinality(S \cup {x}) = Cardinality(S) + 1
      BY <2>3, FS_AddElement
    <3> QED BY <2>1, <3>1
  <2> QED BY <2>2, <2>3
<1>2. IsFiniteSet(T) /\ Cardinality(T) <= Cardinality(S \cup {x})
  BY <1>1, FS_Subset
<1> QED BY <1>1, <1>2, FS_CardinalityType

\* A subset counts no more than the whole.
LEMMA CountNoMore ==
  ASSUME NEW S, IsFiniteSet(S), NEW T, T \subseteq S
  PROVE  IsFiniteSet(T) /\ Cardinality(T) <= Cardinality(S) /\ Cardinality(T) \in Nat
  BY FS_Subset, FS_CardinalityType

\* A subset without a given element counts one less at least.
LEMMA CountOneLess ==
  ASSUME NEW S, IsFiniteSet(S), NEW x \in S, NEW T, T \subseteq S \ {x}
  PROVE  IsFiniteSet(T) /\ Cardinality(T) <= Cardinality(S) - 1 /\ Cardinality(T) \in Nat
<1>1. IsFiniteSet(S \ {x}) /\ Cardinality(S \ {x}) = Cardinality(S) - 1
  BY FS_RemoveElement
<1>2. IsFiniteSet(T) /\ Cardinality(T) <= Cardinality(S \ {x})
  BY <1>1, FS_Subset
<1> QED BY <1>1, <1>2, FS_CardinalityType

\* There are finitely many due jobs, since there are finitely many jobs.
LEMMA DueJobsAreFinite ==
  ASSUME Typing
  PROVE  IsFiniteSet(DueJobs) /\ Cardinality(DueJobs) \in Nat
<1>1. DOMAIN jobs = 1 .. Len(jobs) /\ Len(jobs) \in Nat
  BY DEF Typing, TypeOK
<1>2. IsFiniteSet(DOMAIN jobs)
  BY <1>1, FS_Interval
<1> QED BY <1>2, CountNoMore DEF DueJobs

\* A job is held by a worker or by nobody.
LEMMA HoldersAreKnown ==
  ASSUME Typing, NEW j \in DOMAIN jobs
  PROVE  jobs[j].holder \in Workers \cup {Nobody}
<1>1. jobs[j] \in JobRows
  BY DEF Typing, TypeOK
<1> QED BY <1>1 DEF JobRows

\* A step of one worker that stays with his job makes no other job due.
LEMMA SameJobs ==
  ASSUME Typing, NEW w \in Workers, NEW row, worker' = [worker EXCEPT ![w] = row],
         row.job = worker[w].job, jobs' = jobs
  PROVE  DueJobs' = DueJobs
<1>1. \A v \in Workers : worker'[v].job = worker[v].job
  BY DEF Typing, TypeOK
<1>2. \A j \in DOMAIN jobs : jobs[j].holder \in Workers \cup {Nobody}
  BY HoldersAreKnown
<1> QED BY <1>1, <1>2 DEF DueJobs, Open, AtWork

\* One worker's step changes nothing about whether another is due.
LEMMA OtherWorkers ==
  ASSUME Typing, NEW w \in Workers, NEW row, worker' = [worker EXCEPT ![w] = row]
  PROVE  /\ DueWorkers' \subseteq DueWorkers \cup {w}
         /\ row.pc \notin {"claimed", "raised"} /\ row.outcome # "queued" => DueWorkers' \subseteq DueWorkers \ {w}
  BY DEF Typing, TypeOK, DueWorkers

\* Every hearing is paid for: by a request of a person, a crash or a broken
\* transaction, or a lost lease, that made a job or a worker due.
LEMMA CountStep ==
  ASSUME Typing, HearingsAreAccountedFor, [Next]_vars
  PROVE  HearingsAreAccountedFor'
<1> DEFINE J == Cardinality(DueJobs)
           W == Cardinality(DueWorkers)
<1>0. /\ IsFiniteSet(DueJobs) /\ IsFiniteSet(DueWorkers) /\ J \in Nat /\ W \in Nat
      /\ hearings \in Nat /\ Len(jobs) \in Nat /\ overruns \in Nat /\ faults \in Nat
      /\ hearings + J + W <= Len(jobs) + overruns + faults
      /\ DOMAIN jobs = 1 .. Len(jobs)
  BY DueJobsAreFinite, FS_CardinalityType DEF HearingsAreAccountedFor, Typing, TypeOK
\* The meeting's own steps.
<1>1. CASE Record \/ BatchBegins \/ BatchEnds \/ LastWords \/ Settle \/ UNCHANGED vars
  <2>1. UNCHANGED <<jobs, worker, hearings, overruns, faults>>
    BY <1>1 DEF Record, BatchBegins, BatchEnds, LastWords, Settle, vars
  <2> QED BY <2>1 DEF HearingsAreAccountedFor, DueJobs, DueWorkers, Open, AtWork
<1>2. CASE Ask
  <2>1. jobs' = Append(jobs, NewJob) /\ UNCHANGED <<worker, hearings, overruns, faults>>
    BY <1>2 DEF Ask
  <2>2. /\ Len(jobs') = Len(jobs) + 1 /\ DOMAIN jobs' = DOMAIN jobs \cup {Len(jobs) + 1}
        /\ \A j \in DOMAIN jobs : jobs'[j] = jobs[j]
    BY <1>0, <2>1 DEF Typing, TypeOK
  <2>3. DueJobs' \subseteq DueJobs \cup {Len(jobs) + 1}
    BY <2>1, <2>2 DEF DueJobs, Open, AtWork
  <2>4. Cardinality(DueJobs') <= J + 1 /\ Cardinality(DueJobs') \in Nat
    BY <1>0, <2>3, CountOneMore
  <2>5. DueWorkers' = DueWorkers
    BY <2>1 DEF DueWorkers
  <2> QED BY <1>0, <2>1, <2>2, <2>4, <2>5 DEF HearingsAreAccountedFor
\* A worker takes the due job over.
<1>3. ASSUME NEW w \in Workers, Claim(w) PROVE HearingsAreAccountedFor'
  <2>1. PICK j \in Claimable :
           /\ jobs' = [jobs EXCEPT ![j] = [state |-> "running", attempt |-> NextAttempt(j), holder |-> w]]
           /\ worker' = [worker EXCEPT ![w] = [NoWork EXCEPT !.pc = "claimed", !.job = j,
                                                             !.attempt = NextAttempt(j)]]
    BY <1>3 DEF Claim
  <2>2. UNCHANGED <<hearings, overruns, faults>>
    BY <1>3 DEF Claim
  <2>3. j \in DueJobs /\ j \in DOMAIN jobs
    BY DEF Claimable, DueJobs
  <2>4. /\ DOMAIN jobs' = DOMAIN jobs /\ Len(jobs') = Len(jobs)
        /\ \A k \in DOMAIN jobs \ {j} : jobs'[k] = jobs[k]
        /\ jobs'[j].holder = w
    BY <1>0, <2>1, <2>3 DEF Typing, TypeOK
  <2>5. \A v \in Workers : worker'[v].job = IF v = w THEN j ELSE worker[v].job
    BY <2>1 DEF Typing, TypeOK, NoWork
  <2>6. worker[w].job \notin DOMAIN jobs
    BY <1>0, <1>3 DEF Claim, At, Typing, WorkIsKnown, NoWork
  <2>7. DueJobs' \subseteq DueJobs \ {j}
    <3>1. ASSUME NEW k \in DueJobs' PROVE k \in DueJobs \ {j}
      <4>1. k \in DOMAIN jobs /\ (jobs'[k].holder = Nobody \/ worker'[jobs'[k].holder].job # k)
        BY <2>4 DEF DueJobs, AtWork
      <4>2. k # j
        BY <2>4, <2>5, <4>1, MinutesAssumption DEF Nobody
      <4>3. jobs[k] = jobs'[k] /\ Open(k) /\ jobs[k].holder \in Workers \cup {Nobody}
        BY <2>4, <4>1, <4>2, HoldersAreKnown DEF DueJobs, Open
      <4>4. jobs[k].holder = Nobody \/ ~AtWork(k)
        BY <2>5, <2>6, <4>1, <4>3 DEF AtWork
      <4> QED BY <4>1, <4>2, <4>3, <4>4 DEF DueJobs
    <3> QED BY <3>1
  <2>8. Cardinality(DueJobs') <= J - 1 /\ Cardinality(DueJobs') \in Nat
    BY <1>0, <2>3, <2>7, CountOneLess
  <2>9. IsFiniteSet(DueWorkers') /\ Cardinality(DueWorkers') <= W + 1 /\ Cardinality(DueWorkers') \in Nat
    BY <1>0, <2>1, OtherWorkers, CountOneMore
  <2> QED BY <1>0, <2>2, <2>4, <2>8, <2>9 DEF HearingsAreAccountedFor
\* It is heard, and the worker is due no more.
<1>4. ASSUME NEW w \in Workers, Hear(w) PROVE HearingsAreAccountedFor'
  <2>1. PICK pc \in {"hearing", "failing"} : worker' = [worker EXCEPT ![w] = [worker[w] EXCEPT !.pc = pc]]
    BY <1>4 DEF Hear, Moved
  <2>2. /\ jobs' = jobs /\ UNCHANGED <<overruns, faults>> /\ hearings' \in {hearings, hearings + 1}
        /\ w \in DueWorkers
    BY <1>4 DEF Hear, At, DueWorkers
  <2> DEFINE row == [worker[w] EXCEPT !.pc = pc]
  <2>3. row.job = worker[w].job /\ row.pc = pc /\ row.outcome # "queued"
    BY <1>4 DEF Hear, At, Typing, TypeOK, WorkerStates, WorkIsKnown
  <2> HIDE DEF row
  <2>4. worker' = [worker EXCEPT ![w] = row]
    BY <2>1 DEF row
  <2>5. DueJobs' = DueJobs
    BY <2>2, <2>3, <2>4, SameJobs
  <2>6. DueWorkers' \subseteq DueWorkers \ {w}
    BY <2>3, <2>4, OtherWorkers
  <2>7. IsFiniteSet(DueWorkers') /\ Cardinality(DueWorkers') <= W - 1 /\ Cardinality(DueWorkers') \in Nat
    BY <1>0, <2>2, <2>6, CountOneLess
  <2> QED BY <1>0, <2>2, <2>5, <2>7 DEF HearingsAreAccountedFor
\* A worker that goes on with its job.
<1>5. ASSUME NEW w \in Workers, NEW row, worker' = [worker EXCEPT ![w] = row], row.job = worker[w].job,
             jobs' = jobs, overruns' = overruns, hearings' = hearings,
             \/ row.pc \notin {"claimed", "raised"} /\ row.outcome # "queued" /\ faults' \in {faults, faults + 1}
             \/ w \in DueWorkers /\ faults' = faults
             \/ faults' = faults + 1
      PROVE  HearingsAreAccountedFor'
  <2>1. DueJobs' = DueJobs
    BY <1>5, SameJobs
  <2>2. \/ DueWorkers' \subseteq DueWorkers /\ faults' \in {faults, faults + 1}
        \/ DueWorkers' \subseteq DueWorkers \cup {w} /\ faults' = faults + 1
    BY <1>5, OtherWorkers
  <2>3. /\ IsFiniteSet(DueWorkers') /\ Cardinality(DueWorkers') \in Nat
        /\ Cardinality(DueWorkers') - faults' <= W - faults
    <3>1. CASE DueWorkers' \subseteq DueWorkers /\ faults' \in {faults, faults + 1}
      BY <1>0, <3>1, CountNoMore
    <3>2. CASE DueWorkers' \subseteq DueWorkers \cup {w} /\ faults' = faults + 1
      <4>1. IsFiniteSet(DueWorkers') /\ Cardinality(DueWorkers') <= W + 1 /\ Cardinality(DueWorkers') \in Nat
        BY <1>0, <3>2, CountOneMore
      <4> QED BY <1>0, <3>2, <4>1
    <3> QED BY <2>2, <3>1, <3>2
  <2>4. faults' \in Nat
    BY <1>0, <2>2
  <2> QED BY <1>0, <1>5, <2>1, <2>3, <2>4 DEF HearingsAreAccountedFor
<1>6. ASSUME NEW w \in Workers, NEW pc \in {"loading", "committing", "failing", "hearing"},
             worker[w].pc # "closing", worker' = Moved(w, pc),
             jobs' = jobs, UNCHANGED <<overruns, hearings, faults>>
      PROVE  HearingsAreAccountedFor'
  <2> DEFINE row == [worker[w] EXCEPT !.pc = pc]
  <2>1. row.job = worker[w].job /\ row.pc = pc /\ row.outcome # "queued"
    BY <1>6 DEF Typing, TypeOK, WorkerStates, WorkIsKnown
  <2>2. worker' = [worker EXCEPT ![w] = row]
    BY <1>6 DEF Moved
  <2> HIDE DEF row
  <2> QED BY <1>5, <1>6, <2>1, <2>2
<1>7. ASSUME NEW w \in Workers, NEW outcome \in {"completed", "failed", "queued"},
             worker' = Closing(w, outcome), outcome = "queued" => worker[w].pc = "raised",
             jobs' = jobs, UNCHANGED <<overruns, hearings, faults>>
      PROVE  HearingsAreAccountedFor'
  <2> DEFINE row == [NoWork EXCEPT !.pc = "closing", !.job = worker[w].job, !.outcome = outcome]
  <2>1. row.job = worker[w].job /\ row.pc = "closing" /\ row.outcome = outcome
    BY DEF NoWork
  <2>2. worker' = [worker EXCEPT ![w] = row]
    BY <1>7 DEF Closing
  <2>3. row.outcome = "queued" => w \in DueWorkers
    BY <1>7, <2>1 DEF DueWorkers
  <2> HIDE DEF row
  <2> QED BY <1>5, <1>7, <2>1, <2>2, <2>3
<1>8. ASSUME NEW w \in Workers, worker[w].pc \in {"composing", "committing"},
             worker' \in {Tried(w), TimedOut(w)},
             jobs' = jobs, UNCHANGED <<overruns, hearings>>, faults' \in {faults, faults + 1}
      PROVE  HearingsAreAccountedFor'
  <2>1. PICK row : /\ worker' = [worker EXCEPT ![w] = row] /\ row.outcome = "none"
                   /\ row.job = worker[w].job /\ row.pc \in {"composing", "committing", "failing"}
    BY <1>8, AttemptsInOrder
  <2> QED BY <1>5, <1>8, <2>1
<1>9. ASSUME NEW w \in Workers, Heard(w) PROVE HearingsAreAccountedFor'
  BY <1>6, <1>9 DEF Heard, At
<1>10. ASSUME NEW w \in Workers, Load(w) PROVE HearingsAreAccountedFor'
  <2>1. CASE status = "summarizing"
    <3> DEFINE row == [worker[w] EXCEPT !.pc = "composing", !.ai = ai]
    <3>1. worker' = [worker EXCEPT ![w] = row]
      BY <1>10, <2>1 DEF Load
    <3>2. row.job = worker[w].job /\ row.pc = "composing" /\ row.outcome # "queued"
      BY <1>10 DEF Load, At, Typing, TypeOK, WorkerStates, WorkIsKnown
    <3> HIDE DEF row
    <3> QED BY <1>5, <1>10, <3>1, <3>2 DEF Load
  <2> QED BY <1>7, <1>10, <2>1 DEF Load
<1>11. ASSUME NEW w \in Workers, Compose(w) PROVE HearingsAreAccountedFor'
  <2>1. CASE worker' = Moved(w, "committing")
    BY <1>6, <1>11, <2>1 DEF Compose, At
  <2>2. CASE worker' \in {Tried(w), TimedOut(w)}
    BY <1>8, <1>11, <2>2 DEF Compose, At
  <2> QED BY <1>11, <2>1, <2>2 DEF Compose
<1>12. ASSUME NEW w \in Workers, Commit(w) PROVE HearingsAreAccountedFor'
  <2>1. CASE worker' = Closing(w, "completed") /\ faults' = faults
    BY <1>7, <1>12, <2>1 DEF Commit
  <2>2. CASE worker' = Tried(w) /\ faults' \in {faults, faults + 1}
    BY <1>8, <1>12, <2>2 DEF Commit, At
  <2> QED BY <1>12, <2>1, <2>2 DEF Commit
<1>13. ASSUME NEW w \in Workers, GiveUp(w) \/ DeliveryFailed(w) PROVE HearingsAreAccountedFor'
  <2>1. \E outcome \in {"completed", "failed", "queued"} :
           worker' = Closing(w, outcome) /\ (outcome = "queued" => worker[w].pc = "raised")
    BY <1>13 DEF GiveUp, DeliveryFailed, At
  <2>2. jobs' = jobs /\ UNCHANGED <<overruns, hearings, faults>>
    BY <1>13 DEF GiveUp, DeliveryFailed
  <2> QED BY <1>7, <2>1, <2>2
<1>14. ASSUME NEW w \in Workers, Raise(w) PROVE HearingsAreAccountedFor'
  <2> DEFINE row == [worker[w] EXCEPT !.pc = "raised"]
  <2>1. worker' = [worker EXCEPT ![w] = row] /\ row.job = worker[w].job
    BY <1>14 DEF Raise, Moved, Typing, TypeOK, WorkerStates
  <2> HIDE DEF row
  <2> QED BY <1>5, <1>14, <2>1 DEF Raise
\* The job of a worker that ends is due if it was handed back, and of one that dies.
<1>15. ASSUME NEW w \in Workers, Close(w) PROVE HearingsAreAccountedFor'
  <2> DEFINE j == worker[w].job
  <2>1. /\ j \in DOMAIN jobs /\ worker[w].outcome \in {"completed", "queued", "failed"}
        /\ worker' = [worker EXCEPT ![w] = NoWork]
        /\ jobs' = jobs \/ (ClosedJob(w) \in JobRows /\ jobs' = [jobs EXCEPT ![j] = ClosedJob(w)])
        /\ jobs' = jobs => jobs[j].holder # w \/ ClosedJob(w) = jobs[j]
    BY <1>0, <1>15, CloseChanges
  <2>2. /\ Len(jobs') = Len(jobs) /\ DOMAIN jobs' = DOMAIN jobs
        /\ \A k \in DOMAIN jobs \ {j} : jobs'[k] = jobs[k]
    BY <1>0, <2>1, JobsChange DEF Typing
  <2>3. \A v \in Workers \ {w} : worker'[v].job = worker[v].job
    BY <2>1 DEF Typing, TypeOK
  <2>4. \A k \in DueJobs' : k # j => k \in DueJobs
    <3>1. ASSUME NEW k \in DueJobs', k # j PROVE k \in DueJobs
      <4>1. k \in DOMAIN jobs /\ jobs'[k] = jobs[k] /\ jobs[k].holder \in Workers \cup {Nobody}
        BY <2>2, <3>1, HoldersAreKnown DEF DueJobs
      <4>2. Open(k) /\ (jobs[k].holder = Nobody \/ worker'[jobs[k].holder].job # k)
        BY <4>1 DEF DueJobs, Open, AtWork
      <4>3. jobs[k].holder = Nobody \/ ~AtWork(k)
        BY <2>3, <3>1, <4>1, <4>2 DEF AtWork
      <4> QED BY <4>1, <4>2, <4>3 DEF DueJobs
    <3> QED BY <3>1
  <2>5. /\ DueWorkers' \subseteq DueWorkers \ {w}
        /\ UNCHANGED <<hearings, overruns, faults>>
    <3>1. NoWork.pc = "idle" /\ NoWork.outcome = "none"
      BY DEF NoWork
    <3>2. DueWorkers' \subseteq DueWorkers \ {w}
      BY <2>1, <3>1, OtherWorkers
    <3> QED BY <1>15, <3>2 DEF Close
  <2>6. j \in DueJobs' => j \in DueJobs \/ w \in DueWorkers
    <3>1. SUFFICES ASSUME j \in DueJobs', w \notin DueWorkers PROVE j \in DueJobs
      OBVIOUS
    <3>2. worker[w].outcome # "queued"
      BY <3>1 DEF DueWorkers
    <3>3. jobs' = jobs /\ jobs[j].holder # w
      <4>1. SUFFICES ASSUME jobs'[j] = ClosedJob(w) PROVE FALSE
        BY <1>0, <1>15, <2>1, CloseChanges, JobsChange DEF Typing
      <4>2. ClosedJob(w).state = worker[w].outcome
        BY <2>1 DEF ClosedJob, Typing, TypeOK, JobRows
      <4> QED BY <2>1, <3>1, <3>2, <4>1, <4>2 DEF DueJobs, Open
    <3> QED BY <2>1, <2>3, <3>1, <3>3 DEF DueJobs, Open, AtWork, Typing, TypeOK, JobRows
  <2>7. /\ IsFiniteSet(DueWorkers') /\ Cardinality(DueWorkers') \in Nat /\ Cardinality(DueJobs') \in Nat
        /\ Cardinality(DueJobs') + Cardinality(DueWorkers') <= J + W
    <3>1. CASE w \in DueWorkers
      <4>1. DueJobs' \subseteq DueJobs \cup {j}
        BY <2>4
      <4>2. Cardinality(DueJobs') <= J + 1 /\ Cardinality(DueJobs') \in Nat
        BY <1>0, <4>1, CountOneMore
      <4>3. IsFiniteSet(DueWorkers') /\ Cardinality(DueWorkers') <= W - 1 /\ Cardinality(DueWorkers') \in Nat
        BY <1>0, <2>5, <3>1, CountOneLess
      <4> QED BY <1>0, <4>2, <4>3
    <3>2. CASE w \notin DueWorkers
      <4>1. DueJobs' \subseteq DueJobs /\ DueWorkers' \subseteq DueWorkers
        BY <2>4, <2>5, <2>6, <3>2
      <4>2. Cardinality(DueJobs') <= J /\ Cardinality(DueJobs') \in Nat
        BY <1>0, <4>1, CountNoMore
      <4>3. IsFiniteSet(DueWorkers') /\ Cardinality(DueWorkers') <= W /\ Cardinality(DueWorkers') \in Nat
        BY <1>0, <4>1, CountNoMore
      <4> QED BY <1>0, <4>2, <4>3
    <3> QED BY <3>1, <3>2
  <2> QED BY <1>0, <2>2, <2>5, <2>7 DEF HearingsAreAccountedFor
<1>16. ASSUME NEW w \in Workers, Crash(w) PROVE HearingsAreAccountedFor'
  <2> DEFINE j == worker[w].job
  <2>1. worker' = [worker EXCEPT ![w] = NoWork] /\ jobs' = jobs /\ faults' = faults + 1
        /\ UNCHANGED <<hearings, overruns>>
    BY <1>16 DEF Crash
  <2>2. \A v \in Workers \ {w} : worker'[v].job = worker[v].job
    BY <2>1 DEF Typing, TypeOK
  <2>3. DueJobs' \subseteq DueJobs \cup {j}
    <3>1. ASSUME NEW k \in DueJobs', k # j PROVE k \in DueJobs
      BY <2>1, <2>2, <3>1 DEF DueJobs, Open, AtWork, Typing, TypeOK, JobRows
    <3> QED BY <3>1
  <2>4. DueWorkers' \subseteq DueWorkers
    <3>1. NoWork.pc = "idle" /\ NoWork.outcome = "none"
      BY DEF NoWork
    <3>2. DueWorkers' \subseteq DueWorkers \ {w}
      BY <2>1, <3>1, OtherWorkers
    <3> QED BY <3>2
  <2>5. Cardinality(DueJobs') <= J + 1 /\ Cardinality(DueJobs') \in Nat
    BY <1>0, <2>3, CountOneMore
  <2>6. IsFiniteSet(DueWorkers') /\ Cardinality(DueWorkers') <= W /\ Cardinality(DueWorkers') \in Nat
    BY <1>0, <2>4, CountNoMore
  <2> QED BY <1>0, <2>1, <2>5, <2>6 DEF HearingsAreAccountedFor
\* A lease that runs out was of a due job; one that is lost makes its job due.
<1>17. ASSUME NEW j \in 1 .. MaxJobs, LeaseRunsOut(j) \/ LeaseIsLost(j) PROVE HearingsAreAccountedFor'
  <2>1. /\ j \in DOMAIN jobs /\ jobs' = [jobs EXCEPT ![j] = [jobs[j] EXCEPT !.holder = Nobody]]
        /\ UNCHANGED <<worker, hearings, faults>>
        /\ \/ ~AtWork(j) /\ overruns' = overruns
           \/ overruns' = overruns + 1
    BY <1>17 DEF LeaseRunsOut, LeaseIsLost
  <2>2. [jobs[j] EXCEPT !.holder = Nobody] \in JobRows /\ [jobs[j] EXCEPT !.holder = Nobody].state = jobs[j].state
    <3>1. jobs[j] \in JobRows
      BY <2>1 DEF Typing, TypeOK
    <3> QED BY <3>1 DEF JobRows
  <2>3. /\ Len(jobs') = Len(jobs) /\ DOMAIN jobs' = DOMAIN jobs
        /\ \A k \in DOMAIN jobs \ {j} : jobs'[k] = jobs[k]
        /\ jobs'[j].state = jobs[j].state
    BY <2>1, <2>2, JobsChange DEF Typing
  <2>4. DueWorkers' = DueWorkers
    BY <2>1 DEF DueWorkers
  <2>5. DueJobs' \subseteq DueJobs \cup {j}
    BY <2>1, <2>3 DEF DueJobs, Open, AtWork
  <2>6. ~AtWork(j) => DueJobs' \subseteq DueJobs
    BY <2>3, <2>5 DEF DueJobs, Open
  <2>7. Cardinality(DueJobs') \in Nat /\ overruns' \in Nat /\ Cardinality(DueJobs') - overruns' <= J - overruns
    <3>1. CASE ~AtWork(j) /\ overruns' = overruns
      BY <1>0, <2>6, <3>1, CountNoMore
    <3>2. CASE overruns' = overruns + 1
      <4>1. Cardinality(DueJobs') <= J + 1 /\ Cardinality(DueJobs') \in Nat
        BY <1>0, <2>5, CountOneMore
      <4> QED BY <1>0, <3>2, <4>1
    <3> QED BY <2>1, <3>1, <3>2
  <2> QED BY <1>0, <2>1, <2>3, <2>4, <2>7 DEF HearingsAreAccountedFor
<1> QED
  BY <1>1, <1>2, <1>3, <1>4, <1>9, <1>10, <1>11, <1>12, <1>13, <1>14, <1>15, <1>16, <1>17
  DEF Next, WorkerStep

-----------------------------------------------------------------------------
(* The invariant and what follows from it.                                 *)

\* The invariant holds of a meeting that has just begun.
LEMMA InitInv == Init => IndInv
<1> SUFFICES ASSUME Init PROVE IndInv
  OBVIOUS
<1> USE MinutesAssumption
<1>1. NoWork \in WorkerStates /\ NoWork.pc = "idle" /\ NoWork.outcome = "none"
  BY DEF NoWork, WorkerStates
<1>2. worker \in [Workers -> WorkerStates] /\ \A w \in Workers : worker[w] = NoWork
  BY <1>1 DEF Init
<1>3. jobs \in Seq(JobRows) /\ Len(jobs) = 0 /\ DOMAIN jobs = {}
  BY DEF Init
<1>4. note \in [made : Nat, ai : 0 .. MaxBatches, todo : {"none", "open", "promoted"}]
  BY DEF Init, NoNote
<1>5. TypeOK
  <2>1. /\ status \in Statuses /\ recorded \in BOOLEAN /\ text \in {"live", "heard", "mixed"}
        /\ provisional \in BOOLEAN /\ serving \subseteq {"batch", "stream"}
    BY DEF Init, Statuses
  <2>2. /\ ai \in 0 .. MaxBatches /\ Len(jobs) <= MaxJobs /\ hearings \in Nat
        /\ overruns \in 0 .. MaxOverruns /\ faults \in 0 .. MaxFaults
    BY <1>3 DEF Init
  <2> QED BY <1>2, <1>3, <1>4, <2>1, <2>2 DEF TypeOK
<1>6. BatchHasAPlace
  BY DEF Init, BatchHasAPlace
<1>7. WorkIsKnown
  BY <1>1, <1>2 DEF WorkIsKnown
<1>8. HearingsAreAccountedFor
  <2>1. DueJobs = {} /\ DueWorkers = {}
    BY <1>1, <1>2, <1>3 DEF DueJobs, DueWorkers
  <2>2. hearings = 0 /\ overruns = 0 /\ faults = 0
    BY DEF Init
  <2> QED BY <1>3, <2>1, <2>2, FS_EmptySet DEF HearingsAreAccountedFor
<1> QED BY <1>5, <1>6, <1>7, <1>8 DEF IndInv, Typing

\* Every step keeps it.
LEMMA InvStep == IndInv /\ [Next]_vars => IndInv'
  BY TypeStep, CountStep DEF IndInv

\* The invariant holds in every reachable state.
THEOREM Invariance == Spec => []IndInv
  BY InitInv, InvStep, PTL DEF Spec

\* The meeting, its jobs and its workers keep their types: no job and no attempt is
\* lost or counted past its limit, whichever workers die.
THEOREM TypeCorrect == Spec => []TypeOK
<1>1. IndInv => TypeOK
  BY DEF IndInv, Typing
<1> QED BY <1>1, Invariance, PTL

\* The recording is heard once for each request of a person, and again only for a
\* crash, a broken transaction or a lost lease, with any number of workers and jobs.
THEOREM HearingsArePaidFor == Spec => []EveryFurtherHearingTakesAFault
<1>1. IndInv => EveryFurtherHearingTakesAFault
  <2> SUFFICES ASSUME IndInv PROVE EveryFurtherHearingTakesAFault
    OBVIOUS
  <2>1. Cardinality(DueJobs) \in Nat /\ Cardinality(DueWorkers) \in Nat
    BY DueJobsAreFinite, FS_CardinalityType DEF IndInv, HearingsAreAccountedFor
  <2>2. hearings \in Nat /\ Len(jobs) \in Nat /\ overruns \in Nat /\ faults \in Nat
    BY MinutesAssumption DEF IndInv, Typing, TypeOK
  <2> QED BY <2>1, <2>2 DEF IndInv, HearingsAreAccountedFor, EveryFurtherHearingTakesAFault
<1> QED BY <1>1, Invariance, PTL

\* Minutes that are done are never made again nor taken back, and a candidate that
\* became somebody's work keeps its place.
THEOREM DoneIsKept == Spec => DoneMinutesAreKept
<1> DEFINE Kept == /\ status = "done" => status' = "done" /\ note'.made = note.made
                   /\ note.todo = "promoted" => note'.todo = "promoted"
<1>1. IndInv /\ [Next]_vars => [Kept]_vars
  <2> SUFFICES ASSUME IndInv, [Next]_vars PROVE Kept
    OBVIOUS
  <2>1. note \in [made : Nat, ai : 0 .. MaxBatches, todo : {"none", "open", "promoted"}]
    BY DEF IndInv, Typing, TypeOK
  <2>2. CASE status' = status /\ note' = note
    BY <2>2
  <2>3. CASE Settle
    <3>1. PICK end \in {"promoted", "none"} : note' = [note EXCEPT !.todo = end]
      BY <2>3 DEF Settle
    <3>2. note'.made = note.made
      BY <2>1, <3>1
    <3> QED BY <2>3, <3>2 DEF Settle
  <2>4. ASSUME NEW w \in Workers, Commit(w) PROVE Kept
    <3>1. CASE status = "summarizing" /\ note' = Made(w)
      BY <3>1 DEF Made
    <3>2. CASE UNCHANGED <<note, status>>
      BY <3>2
    <3> QED BY <2>4, <3>1, <3>2 DEF Commit
  <2>5. ASSUME NEW w \in Workers, GiveUp(w) \/ DeliveryFailed(w) PROVE Kept
    BY <2>5 DEF GiveUp, DeliveryFailed, FailedStatus
  <2>6. CASE Ask
    BY <2>6 DEF Ask
  <2>7. CASE \/ Record \/ BatchBegins \/ BatchEnds \/ LastWords \/ UNCHANGED vars
             \/ \E j \in 1 .. MaxJobs : LeaseRunsOut(j) \/ LeaseIsLost(j)
    BY <2>2, <2>7 DEF Record, BatchBegins, BatchEnds, LastWords, vars, LeaseRunsOut, LeaseIsLost
  <2>8. ASSUME NEW w \in Workers,
               Claim(w) \/ Hear(w) \/ Heard(w) \/ Load(w) \/ Compose(w) \/ Close(w) \/ Raise(w) \/ Crash(w)
        PROVE  Kept
    BY <2>2, <2>8 DEF Claim, Hear, Heard, Load, Compose, Close, Raise, Crash
  <2> QED BY <2>3, <2>4, <2>5, <2>6, <2>7, <2>8 DEF Next, WorkerStep
<1> QED BY <1>1, Invariance, PTL DEF Spec, DoneMinutesAreKept

-----------------------------------------------------------------------------
(* What done minutes rest on.                                              *)

\* The minutes that are done rest on the recording and leave nothing behind, kept
\* by every step when the serving process writes nothing late.
LEMMA StandStep ==
  ASSUME ~LateWrites, Typing, ComposedOfTheHeard, DoneMinutesStand, [Next]_vars
  PROVE  DoneMinutesStand'
<1> USE DEF DoneMinutesStand, DoneNoteRestsOnTheRecording, NothingProvisionalIsLeft
<1>1. ai \in Int /\ note \in [made : Nat, ai : 0 .. MaxBatches, todo : {"none", "open", "promoted"}]
  BY MinutesAssumption DEF Typing, TypeOK
<1>2. CASE UNCHANGED <<status, text, ai, provisional, note>>
  BY <1>2
<1>3. CASE BatchEnds
  BY <1>3 DEF BatchEnds
<1>4. CASE LastWords
  BY <1>4 DEF LastWords
<1>5. CASE Ask
  BY <1>5 DEF Ask
<1>6. CASE Settle
  <2>1. note'.ai = note.ai
    BY <1>1, <1>6 DEF Settle
  <2> QED BY <1>6, <2>1 DEF Settle
<1>7. ASSUME NEW w \in Workers, Heard(w) PROVE DoneMinutesStand'
  BY <1>7 DEF Heard
<1>8. ASSUME NEW w \in Workers, Commit(w) PROVE DoneMinutesStand'
  <2>1. CASE UNCHANGED <<note, provisional, status>>
    BY <1>8, <2>1 DEF Commit
  <2>2. CASE note' = Made(w) /\ provisional' = FALSE
    <3>1. text' = "heard" /\ ai' = ai
      BY <1>8 DEF Commit, At, ComposedOfTheHeard
    <3>2. note'.ai \in {0, ai}
      BY <2>2 DEF Made
    <3> QED BY <2>2, <3>1, <3>2
  <2> QED BY <1>8, <2>1, <2>2 DEF Commit
<1>9. ASSUME NEW w \in Workers, GiveUp(w) \/ DeliveryFailed(w) PROVE DoneMinutesStand'
  <2>1. status' \in {status, "failed"} /\ UNCHANGED <<text, ai, provisional, note>>
    BY <1>9 DEF GiveUp, DeliveryFailed, FailedStatus
  <2> QED BY <2>1
<1>10. CASE \/ Record \/ BatchBegins \/ UNCHANGED vars
            \/ \E j \in 1 .. MaxJobs : LeaseRunsOut(j) \/ LeaseIsLost(j)
  BY <1>2, <1>10 DEF Record, BatchBegins, vars, LeaseRunsOut, LeaseIsLost
<1>11. ASSUME NEW w \in Workers,
              Claim(w) \/ Hear(w) \/ Load(w) \/ Compose(w) \/ Close(w) \/ Raise(w) \/ Crash(w)
       PROVE  DoneMinutesStand'
  BY <1>2, <1>11 DEF Claim, Hear, Load, Compose, Close, Raise, Crash
<1> QED BY <1>3, <1>4, <1>5, <1>6, <1>7, <1>8, <1>9, <1>10, <1>11 DEF Next, WorkerStep

\* When the process that serves the meeting ends its work before the worker ends
\* his, the minutes that are done are of the whole recording, and nothing they rest
\* on changes any more.
THEOREM DoneStands ==
  ASSUME ~LateWrites
  PROVE  Spec => []DoneMinutesStand
<1> DEFINE Inv == IndInv /\ ComposedOfTheHeard /\ DoneMinutesStand
<1>1. Init => ComposedOfTheHeard /\ DoneMinutesStand
  <2>1. NoWork.pc = "idle"
    BY DEF NoWork
  <2> QED BY <2>1 DEF Init, ComposedOfTheHeard, DoneMinutesStand, DoneNoteRestsOnTheRecording,
                      NothingProvisionalIsLeft
<1>2. Inv /\ [Next]_vars => Inv'
  BY InvStep, TextStep, StandStep DEF IndInv
<1>3. Inv => DoneMinutesStand
  OBVIOUS
<1> QED BY <1>1, <1>2, <1>3, InitInv, PTL DEF Spec
=============================================================================
