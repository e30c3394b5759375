--------------------------- MODULE MeetingMinutes ---------------------------
(***************************************************************************)
(* The minutes of one meeting, from its last minutes until they are read   *)
(* (bootstrap/meeting_worker.py, modules/meetings/finalize_service.py,     *)
(* modules/meetings/application.py).                                       *)
(*                                                                         *)
(* While a meeting goes on, the process that serves it appends live text   *)
(* and lets an AI rewrite its track of the minutes in batches.  "End"      *)
(* only moves the meeting to "summarizing" and enqueues a job.  A worker   *)
(* process hears the recording again, replaces the live text, reads both   *)
(* tracks, has the minutes composed and commits them with the new status.  *)
(* The worker prolongs its lease, but goes on when it lost it: the job is  *)
(* fenced, what is written to the meeting is only held back by its status. *)
(***************************************************************************)
EXTENDS Integers, Sequences, FiniteSets

CONSTANTS Workers,         \* worker processes
          FinalAttempts,   \* FINAL_ATTEMPTS: attempts to compose in one delivery
          MaxDeliveries,   \* MAX_DELIVERIES: deliveries that end in an exception
          LateWrites,      \* whether a batch or the stream may write after the worker did
          MaxBatches,      \* bound: batches that rewrite the AI track
          MaxJobs,         \* bound: rows of the job table
          MaxOverruns,     \* bound: leases lost under a worker that goes on
          MaxFaults        \* bound: crashes and failed transactions

ASSUME MinutesAssumption ==
    /\ Workers # {} /\ "nobody" \notin Workers
    /\ FinalAttempts \in Nat \ {0} /\ MaxDeliveries \in Nat \ {0}
    /\ LateWrites \in BOOLEAN
    /\ MaxBatches \in Nat /\ MaxJobs \in Nat \ {0}
    /\ MaxOverruns \in Nat /\ MaxFaults \in Nat

VARIABLES status,      \* meetings.status
          recorded,    \* a recording of the meeting is stored
          text,        \* what the transcript consists of
          ai,          \* generation of the AI track
          provisional, \* candidates of a batch stand
          note,        \* the final track and its candidate for a follow-up
          jobs,        \* durable_jobs of kind meeting.finalize, in the order of creation
          serving,     \* what the process that serves the meeting has under way
          worker,      \* what each worker is about
          hearings,    \* history: transcriptions of the recording that were asked for
          overruns, faults

vars == <<status, recorded, text, ai, provisional, note, jobs, serving, worker,
          hearings, overruns, faults>>

Nobody == "nobody"

Statuses == {"in_progress", "summarizing", "done", "failed"}
JobRows  == [state : {"queued", "running", "completed", "failed"},
             attempt : 0 .. MaxDeliveries, holder : Workers \cup {Nobody}]
NoWork   == [pc |-> "idle", job |-> 0, attempt |-> 0, tries |-> 0, renewed |-> FALSE,
             ai |-> 0, outcome |-> "none"]
WorkerStates ==
    [pc : {"idle", "claimed", "hearing", "loading", "composing", "committing", "failing",
           "raised", "closing"},
     job : 0 .. MaxJobs, attempt : 0 .. MaxDeliveries, tries : 0 .. FinalAttempts + 1,
     renewed : BOOLEAN, ai : 0 .. MaxBatches,
     outcome : {"none", "completed", "queued", "failed"}]
NoNote   == [made |-> 0, ai |-> 0, todo |-> "none"]

Init ==
    /\ status = "in_progress"
    /\ recorded = FALSE
    /\ text = "live"
    /\ ai = 0 /\ provisional = FALSE
    /\ note = NoNote
    /\ jobs = <<>>
    /\ serving = {}
    /\ worker = [w \in Workers |-> NoWork]
    /\ hearings = 0 /\ overruns = 0 /\ faults = 0

-----------------------------------------------------------------------------
(* The meeting and its people.                                             *)

\* The stream is open: its first chunk of sound is stored and the file noted.
Record ==
    /\ status = "in_progress" /\ ~recorded
    /\ recorded' = TRUE /\ serving' = serving \cup {"stream"}
    /\ UNCHANGED <<status, text, ai, provisional, note, jobs, worker, hearings, overruns, faults>>

\* A batch is submitted only while the meeting goes on ...
BatchBegins ==
    /\ status = "in_progress" /\ "batch" \notin serving /\ ai < MaxBatches
    /\ serving' = serving \cup {"batch"}
    /\ UNCHANGED <<status, recorded, text, ai, provisional, note, jobs, worker, hearings, overruns, faults>>

\* ... and its answer replaces the AI track whatever the meeting is by then; a
\* batch that failed leaves everything as it was.
BatchEnds ==
    /\ "batch" \in serving
    /\ serving' = serving \ {"batch"}
    /\ \/ /\ status # "done" \/ LateWrites
          /\ ai' = ai + 1 /\ provisional' = TRUE
       \/ UNCHANGED <<ai, provisional>>
    /\ UNCHANGED <<status, recorded, text, note, jobs, worker, hearings, overruns, faults>>

\* The stream is closed after the meeting was ended: its last words are appended
\* to whatever the transcript is by then.
LastWords ==
    /\ "stream" \in serving /\ status # "in_progress"
    /\ text = "live" \/ LateWrites
    /\ serving' = serving \ {"stream"}
    /\ text' = IF text = "live" THEN "live" ELSE "mixed"
    /\ UNCHANGED <<status, recorded, ai, provisional, note, jobs, worker, hearings, overruns, faults>>

NewJob == [state |-> "queued", attempt |-> 0, holder |-> Nobody]

\* end, and retry_finalize after a failure: the status and a job of its own key.
Ask ==
    /\ status \in {"in_progress", "failed"} /\ Len(jobs) < MaxJobs
    /\ status' = "summarizing"
    /\ jobs' = Append(jobs, NewJob)
    /\ UNCHANGED <<recorded, text, ai, provisional, note, serving, worker, hearings, overruns, faults>>

\* promote_todo and remove_todo look at the candidate, not at the meeting.
Settle ==
    /\ note.todo = "open"
    /\ \E end \in {"promoted", "none"} : note' = [note EXCEPT !.todo = end]
    /\ UNCHANGED <<status, recorded, text, ai, provisional, jobs, serving, worker, hearings, overruns, faults>>

-----------------------------------------------------------------------------
(* The worker.                                                             *)

Open(j) == jobs[j].state \in {"queued", "running"}

\* claim: the meeting is the ordering key, so only its first open job is taken.
Claimable ==
    {j \in DOMAIN jobs : Open(j) /\ jobs[j].holder = Nobody /\ \A i \in 1 .. j - 1 : ~Open(i)}

\* Deliveries are counted up to the last one that is handed back.
NextAttempt(j) == IF jobs[j].attempt < MaxDeliveries THEN jobs[j].attempt + 1 ELSE MaxDeliveries

At(w, pc)     == worker[w].pc = pc
Moved(w, pc)  == [worker EXCEPT ![w].pc = pc]
Closing(w, outcome) ==
    [worker EXCEPT ![w] = [NoWork EXCEPT !.pc = "closing", !.job = worker[w].job, !.outcome = outcome]]

Claim(w) ==
    /\ At(w, "idle")
    /\ \E j \in Claimable :
          /\ jobs' = [jobs EXCEPT ![j] = [state |-> "running", attempt |-> NextAttempt(j), holder |-> w]]
          /\ worker' = [worker EXCEPT ![w] = [NoWork EXCEPT !.pc = "claimed", !.job = j,
                                                            !.attempt = NextAttempt(j)]]
    /\ UNCHANGED <<status, recorded, text, ai, provisional, note, serving, hearings, overruns, faults>>

\* _retranscribe: without a recording there will be no minutes.  Nobody looks at
\* the status of the meeting first.
Hear(w) ==
    /\ At(w, "claimed")
    /\ IF recorded THEN /\ worker' = Moved(w, "hearing") /\ hearings' = hearings + 1
                   ELSE /\ worker' = Moved(w, "failing") /\ UNCHANGED hearings
    /\ UNCHANGED <<status, recorded, text, ai, provisional, note, jobs, serving, overruns, faults>>

\* The text is replaced as a whole, or the recording could not be transcribed.
Heard(w) ==
    /\ At(w, "hearing")
    /\ \/ worker' = Moved(w, "loading") /\ text' = "heard"
       \/ worker' = Moved(w, "failing") /\ UNCHANGED text
    /\ UNCHANGED <<status, recorded, ai, provisional, note, jobs, serving, hearings, overruns, faults>>

\* load_input: a meeting that is not "summarizing" is left as it is.
Load(w) ==
    /\ At(w, "loading")
    /\ worker' = IF status = "summarizing" THEN [worker EXCEPT ![w].pc = "composing", ![w].ai = ai]
                                           ELSE Closing(w, "completed")
    /\ UNCHANGED <<status, recorded, text, ai, provisional, note, jobs, serving, hearings, overruns, faults>>

\* Mutant: every attempt that failed is followed by another one.
TriedForever(w) == [worker EXCEPT ![w].pc = "composing", ![w].tries = @ + 1]

\* An attempt failed: the last one, and one after a time-out, is followed by none.
Tried(w) ==
    [worker EXCEPT ![w].tries = @ + 1,
                   ![w].pc = IF worker[w].renewed \/ worker[w].tries + 1 >= FinalAttempts
                             THEN "failing" ELSE "composing"]

\* After a time-out a new session is tried once, whatever the number of attempts.
TimedOut(w) ==
    IF worker[w].renewed THEN Moved(w, "failing")
    ELSE [worker EXCEPT ![w].renewed = TRUE, ![w].tries = @ + 1]

Compose(w) ==
    /\ At(w, "composing")
    /\ worker' \in {Moved(w, "committing"), Tried(w), TimedOut(w)}
    /\ UNCHANGED <<status, recorded, text, ai, provisional, note, jobs, serving, hearings, overruns, faults>>

\* The lineage into a track that was rewritten meanwhile is dropped one by one; the lines
\* a candidate names in its reference are stored unchecked and are not modelled.
Made(w) == [made |-> note.made + 1, ai |-> IF worker[w].ai = ai THEN ai ELSE 0,
            todo |-> IF note.todo = "promoted" THEN "promoted" ELSE "open"]

\* Mutant: the candidates of the batches are left to the next batch.
CommitLeavingProvisional(w) ==
    /\ At(w, "committing") /\ status = "summarizing"
    /\ note' = Made(w) /\ status' = "done" /\ worker' = Closing(w, "completed")
    /\ UNCHANGED <<recorded, text, ai, provisional, jobs, serving, hearings, overruns, faults>>

\* commit_finalized: everything or nothing; a meeting that is not "summarizing" any
\* more makes the attempt fail, as does a broken transaction.
Commit(w) ==
    /\ At(w, "committing")
    /\ \/ /\ status = "summarizing"
          /\ note' = Made(w) /\ provisional' = FALSE /\ status' = "done"
          /\ worker' = Closing(w, "completed")
          /\ UNCHANGED faults
       \/ /\ IF status = "summarizing" THEN faults < MaxFaults /\ faults' = faults + 1
                                       ELSE UNCHANGED faults
          /\ worker' = Tried(w)
          /\ UNCHANGED <<note, provisional, status>>
    /\ UNCHANGED <<recorded, text, ai, jobs, serving, hearings, overruns>>

FailedStatus == IF status = "summarizing" THEN "failed" ELSE status

\* Mutant: a failure is left to the next delivery.
GiveUpLater(w) ==
    /\ At(w, "failing")
    /\ worker' = Closing(w, "queued")
    /\ UNCHANGED <<status, recorded, text, ai, provisional, note, jobs, serving, hearings, overruns, faults>>

\* commit_failure: the delivery dealt with its failure.
GiveUp(w) ==
    /\ At(w, "failing")
    /\ status' = FailedStatus
    /\ worker' = Closing(w, "completed")
    /\ UNCHANGED <<recorded, text, ai, provisional, note, jobs, serving, hearings, overruns, faults>>

\* A transaction outside the attempts fails, and with it the delivery.
Raise(w) ==
    /\ worker[w].pc \in {"claimed", "hearing", "loading", "failing"}
    /\ faults < MaxFaults /\ faults' = faults + 1
    /\ worker' = Moved(w, "raised")
    /\ UNCHANGED <<status, recorded, text, ai, provisional, note, jobs, serving, hearings, overruns>>

\* Mutant: a delivery is over when it is over.
DeliveryOver(w) ==
    /\ At(w, "raised")
    /\ worker' = Closing(w, "completed")
    /\ UNCHANGED <<status, recorded, text, ai, provisional, note, jobs, serving, hearings, overruns, faults>>

\* _deliver_failed: handed back, or after the last delivery given up with the meeting.
DeliveryFailed(w) ==
    /\ At(w, "raised")
    /\ IF worker[w].attempt >= MaxDeliveries
       THEN status' = FailedStatus /\ worker' = Closing(w, "failed")
       ELSE worker' = Closing(w, "queued") /\ UNCHANGED status
    /\ UNCHANGED <<recorded, text, ai, provisional, note, jobs, serving, hearings, overruns, faults>>

\* complete, release and fail, under the lease of this claim.
Close(w) ==
    /\ At(w, "closing")
    /\ jobs' = IF jobs[worker[w].job].holder = w
               THEN [jobs EXCEPT ![worker[w].job].state = worker[w].outcome, ![worker[w].job].holder = Nobody]
               ELSE jobs
    /\ worker' = [worker EXCEPT ![w] = NoWork]
    /\ UNCHANGED <<status, recorded, text, ai, provisional, note, serving, hearings, overruns, faults>>

WorkerStep(w) ==
    Claim(w) \/ Hear(w) \/ Heard(w) \/ Load(w) \/ Compose(w) \/ Commit(w) \/ GiveUp(w)
    \/ DeliveryFailed(w) \/ Close(w)

-----------------------------------------------------------------------------
(* Time and faults.                                                        *)

AtWork(j) == worker[jobs[j].holder].job = j

\* The lease of a worker that died runs out ...
LeaseRunsOut(j) ==
    /\ j \in DOMAIN jobs /\ jobs[j].holder # Nobody /\ ~AtWork(j)
    /\ jobs' = [jobs EXCEPT ![j].holder = Nobody]
    /\ UNCHANGED <<status, recorded, text, ai, provisional, note, serving, worker, hearings, overruns, faults>>

\* ... and that of a worker whose heartbeats fail.
LeaseIsLost(j) ==
    /\ j \in DOMAIN jobs /\ jobs[j].holder # Nobody /\ AtWork(j)
    /\ overruns < MaxOverruns /\ overruns' = overruns + 1
    /\ jobs' = [jobs EXCEPT ![j].holder = Nobody]
    /\ UNCHANGED <<status, recorded, text, ai, provisional, note, serving, worker, hearings, faults>>

Crash(w) ==
    /\ ~At(w, "idle")
    /\ faults < MaxFaults /\ faults' = faults + 1
    /\ worker' = [worker EXCEPT ![w] = NoWork]
    /\ UNCHANGED <<status, recorded, text, ai, provisional, note, jobs, serving, hearings, overruns>>

Next ==
    \/ Record \/ BatchBegins \/ BatchEnds \/ LastWords \/ Ask \/ Settle
    \/ \E w \in Workers : WorkerStep(w) \/ Raise(w) \/ Crash(w)
    \/ \E j \in 1 .. MaxJobs : LeaseRunsOut(j) \/ LeaseIsLost(j)

Spec == Init /\ [][Next]_vars

\* Workers start again and run their loops, calls answer within their time limits
\* and leases run out.
Fairness ==
    /\ \A w \in Workers : WF_vars(WorkerStep(w))
    /\ \A j \in 1 .. MaxJobs : WF_vars(LeaseRunsOut(j))

FairSpec == Spec /\ Fairness

-----------------------------------------------------------------------------
(* Properties.                                                             *)

\* The meeting, the jobs and the workers keep their types.
TypeOK ==
    /\ status \in Statuses /\ recorded \in BOOLEAN
    /\ text \in {"live", "heard", "mixed"}
    /\ ai \in 0 .. MaxBatches /\ provisional \in BOOLEAN
    /\ note \in [made : Nat, ai : 0 .. MaxBatches, todo : {"none", "open", "promoted"}]
    /\ jobs \in Seq(JobRows) /\ Len(jobs) <= MaxJobs
    /\ serving \subseteq {"batch", "stream"}
    /\ worker \in [Workers -> WorkerStates]
    /\ hearings \in Nat
    /\ overruns \in 0 .. MaxOverruns /\ faults \in 0 .. MaxFaults

\* Minutes are made of the text that was heard again, never of the live text (D44),
\* and nothing of the live text is left beside it when the stream was closed in time.
DoneNoteRestsOnTheRecording == status = "done" => text = "heard"

\* Once they are done, no candidate of a batch is left that nobody can promote
\* (D46), and what the minutes refer to in the AI track is there, also when a batch
\* rewrote it while they were composed.
NothingProvisionalIsLeft == status = "done" => ~provisional /\ note.ai \in {0, ai}

\* Minutes that are done are of the whole recording and of nothing else that may
\* still change, when the serving process ended its work in time.
DoneMinutesStand == DoneNoteRestsOnTheRecording /\ NothingProvisionalIsLeft

\* The recording is transcribed, which is paid for, once for each request of a
\* person, and again only after a crash, a broken transaction or a lost lease.
EveryFurtherHearingTakesAFault == hearings <= Len(jobs) + overruns + faults

\* Minutes that are done are never made again nor taken back by a delivery that
\* comes late, and a candidate that became somebody's work keeps its place
\* (clear_track: "no way leads from done to summarizing").
DoneMinutesAreKept ==
    [][/\ status = "done" => status' = "done" /\ note'.made = note.made
       /\ note.todo = "promoted" => note'.todo = "promoted"]_vars

\* A meeting that was ended gets its minutes or is shown as failed.
EndedMeetingIsSettled == status = "summarizing" ~> status \in {"done", "failed"}
=============================================================================
