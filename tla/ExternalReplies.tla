-------------------------- MODULE ExternalReplies ---------------------------
(***************************************************************************)
(* Replies to mails and chat rooms, from their acceptance to the upstream  *)
(* service (bootstrap/external_inbox.py, bootstrap/external_worker.py,     *)
(* modules/external_channels/inbox.py).                                    *)
(*                                                                         *)
(* An accepted reply is a row in "sending" and a job of its room, and one  *)
(* worker process is to deliver them: the leader, which holds an advisory  *)
(* lock on a connection of its own.  It claims a batch of jobs, sends each *)
(* upstream, commits the outcome and closes the job; nothing prolongs a    *)
(* lease meanwhile, and neither the row nor the lease is looked at again   *)
(* once the sending began.  A reply that failed is sent again by a request *)
(* with its key, which may carry another text.  Rows of the job table are  *)
(* kept in the order of their creation; leases run out at any time.        *)
(* What every module has is named here for the replies, so that their      *)
(* theorems stand beside those of another component.                       *)
(***************************************************************************)
EXTENDS Integers, Sequences

CONSTANTS Workers,       \* worker processes
          Senders,       \* requests to send a failed reply again that may be under way
          RoomOf,        \* the room or mail of each reply, in the order they are accepted
          MaxAttempts,   \* REPLY_JOB_MAX_ATTEMPTS
          MaxResends,    \* bound: requests to send a failed reply again
          MaxJobs,       \* bound: rows of the job table
          MaxOverruns,   \* bound: leases that run out under a worker that goes on
          MaxFaults      \* bound: crashes, broken leader connections, failed commits, lost answers

ASSUME RepliesAssumption ==
    /\ Workers # {} /\ "nobody" \notin Workers
    /\ RoomOf \in Seq(STRING) /\ MaxAttempts \in Nat \ {0}
    /\ MaxResends \in Nat /\ MaxJobs \in Nat /\ MaxOverruns \in Nat /\ MaxFaults \in Nat

VARIABLES reply,     \* external_sent_replies: status and the text it stands for now
          jobs,      \* durable_jobs of kind external.reply_deliver
          leading,   \* workers that run their loop
          lock,      \* who holds the advisory lock
          worker,    \* what each worker is about
          resend,    \* what each request to send again has read
          copies,    \* history: the texts of each reply that reached the upstream service
          failed,    \* history: replies that were ever closed as failed
          unclosed,  \* history: replies whose job was failed while they could not be
          resends, overruns, faults, broken

replyVars == <<reply, jobs, leading, lock, worker, resend, copies, failed, unclosed,
               resends, overruns, faults, broken>>

Replies == DOMAIN RoomOf
Nobody  == "nobody"

Statuses == {"none", "sending", "sent", "failed"}
JobRows  == [reply : Replies, state : {"queued", "running", "completed", "failed"},
             attempt : 0 .. MaxAttempts, holder : Workers \cup {Nobody}]
NoWork   == [pc |-> "idle", job |-> 0, text |-> 0, outcome |-> "none", batch |-> {}]
WorkerStates == [pc : {"idle", "sending", "answered", "abandoning", "closing"}, job : 0 .. MaxJobs,
                 text : 0 .. MaxResends,
                 outcome : {"none", "sent", "failed", "complete", "release", "fail"},
                 batch : SUBSET ((1 .. MaxJobs) \X (1 .. MaxAttempts))]

RepliesInit ==
    /\ reply = [r \in Replies |-> [status |-> "none", text |-> 0]]
    /\ jobs = <<>>
    /\ leading = {} /\ lock = Nobody
    /\ worker = [w \in Workers |-> NoWork]
    /\ resend = [s \in Senders |-> 0]
    /\ copies = [r \in Replies |-> <<>>]
    /\ failed = {} /\ unclosed = {}
    /\ resends = 0 /\ overruns = 0 /\ faults = 0 /\ broken = 0

-----------------------------------------------------------------------------
(* The job table.                                                          *)

Open(j) == jobs[j].state \in {"queued", "running"}

\* enqueue: an open job with the same key is returned, whatever its holder is about.
Enqueued(r) ==
    IF \E j \in DOMAIN jobs : jobs[j].reply = r /\ Open(j) THEN jobs
    ELSE Append(jobs, [reply |-> r, state |-> "queued", attempt |-> 0, holder |-> Nobody])

RoomLeft(r) == Len(jobs) < MaxJobs \/ Enqueued(r) = jobs

\* Mutant: a job may overtake an earlier one of its room.
ClaimableInAnyOrder == {j \in DOMAIN jobs : Open(j) /\ jobs[j].holder = Nobody}

\* claim: the first open job of each room that is queued or whose lease ran out.
Claimable ==
    {j \in DOMAIN jobs :
        /\ Open(j) /\ jobs[j].holder = Nobody
        /\ \A i \in 1 .. j - 1 : Open(i) => RoomOf[jobs[i].reply] # RoomOf[jobs[j].reply]}

\* Attempts are counted up to the last one that is retried.
NextAttempt(j) == IF jobs[j].attempt < MaxAttempts THEN jobs[j].attempt + 1 ELSE MaxAttempts

Claimed(w, batch) ==
    [j \in DOMAIN jobs |->
        IF j \in batch
        THEN [jobs[j] EXCEPT !.state = "running", !.attempt = NextAttempt(j), !.holder = w] ELSE jobs[j]]

\* complete, fail and release, under the lease of one claim: a worker claims a job
\* again only after it is through with its batch.
Closed(w, j, state) ==
    IF jobs[j].holder = w THEN [jobs EXCEPT ![j].state = state, ![j].holder = Nobody] ELSE jobs

-----------------------------------------------------------------------------
(* The member.                                                             *)

\* accept_slack_reply and accept_mail_reply: the row and its job in one transaction.
Accept(r) ==
    /\ reply[r].status = "none"
    /\ \A q \in 1 .. r - 1 : reply[q].status # "none"
    /\ Len(jobs) < MaxJobs
    /\ reply' = [reply EXCEPT ![r].status = "sending"]
    /\ jobs' = Enqueued(r)
    /\ UNCHANGED <<leading, lock, worker, resend, copies, failed, unclosed, resends, overruns, faults, broken>>

\* _accept with the key of a reply that failed: the row is read without a lock ...
BeginResend(s, r) ==
    /\ resend[s] = 0
    /\ resends < MaxResends
    /\ reply[r].status = "failed"
    /\ resends' = resends + 1
    /\ resend' = [resend EXCEPT ![s] = r]
    /\ UNCHANGED <<reply, jobs, leading, lock, worker, copies, failed, unclosed, faults, broken, overruns>>

\* ... and written with its job after the files are stored, whatever it says by now.
EndResend(s) ==
    LET r == resend[s]
    IN  /\ r # 0 /\ RoomLeft(r)
        /\ reply' = [reply EXCEPT ![r] = [status |-> "sending", text |-> @.text + 1]]
        /\ jobs' = Enqueued(r)
        /\ resend' = [resend EXCEPT ![s] = 0]
        /\ UNCHANGED <<leading, lock, worker, copies, failed, unclosed, resends, overruns, faults, broken>>

-----------------------------------------------------------------------------
(* The worker.                                                             *)

Idle(w) == w \in leading /\ worker[w].pc = "idle" /\ worker[w].batch = {}

\* _become_leader: the lock is tried for until it is free, and then never again.
BecomeLeader(w) ==
    /\ w \notin leading /\ lock = Nobody
    /\ leading' = leading \cup {w} /\ lock' = w
    /\ UNCHANGED <<reply, jobs, worker, resend, copies, failed, unclosed, resends, overruns, faults, broken>>

\* run_inbox_reply_jobs: a batch is claimed and its jobs are gone through one by one.
Claim(w) ==
    /\ Idle(w)
    /\ Claimable # {}
    /\ jobs' = Claimed(w, Claimable)
    /\ worker' = [worker EXCEPT ![w].batch = {<<j, NextAttempt(j)>> : j \in Claimable}]
    /\ UNCHANGED <<reply, leading, lock, resend, copies, failed, unclosed, resends, overruns, faults, broken>>

\* Mutant: a redelivered job sends its reply again.
BeginAnyway(w, claim) ==
    /\ worker[w].pc = "idle" /\ claim \in worker[w].batch
    /\ worker' = [worker EXCEPT ![w].pc = "sending", ![w].job = claim[1],
                                ![w].text = reply[jobs[claim[1]].reply].text]
    /\ UNCHANGED <<reply, jobs, leading, lock, resend, copies, failed, unclosed, resends, overruns, faults, broken>>

\* deliver_reply: a reply that is no longer to be sent only has its job completed.
\* One whose attachments are lost fails without a call.
Begin(w, claim) ==
    LET r == jobs[claim[1]].reply
    IN  /\ worker[w].pc = "idle" /\ claim \in worker[w].batch
        /\ \/ /\ reply[r].status # "sending"
              /\ worker' = [worker EXCEPT ![w].pc = "closing", ![w].job = claim[1],
                                          ![w].outcome = "complete"]
           \/ /\ reply[r].status = "sending"
              /\ worker' = [worker EXCEPT ![w].pc = "sending", ![w].job = claim[1],
                                          ![w].text = reply[r].text]
           \/ /\ reply[r].status = "sending"
              /\ worker' = [worker EXCEPT ![w].pc = "answered", ![w].job = claim[1],
                                          ![w].outcome = "failed"]
        /\ UNCHANGED <<reply, jobs, leading, lock, resend, copies, failed, unclosed, resends, overruns, faults, broken>>

AttemptOf(w) == (CHOOSE c \in worker[w].batch : c[1] = worker[w].job)[2]

\* The upstream service takes the text as it was read, or it does not and says so.
Send(w, taken) ==
    LET r == jobs[worker[w].job].reply
    IN  /\ worker[w].pc = "sending"
        /\ worker' = [worker EXCEPT ![w].pc = "answered",
                                    ![w].outcome = IF taken THEN "sent" ELSE "failed"]
        /\ copies' = IF taken THEN [copies EXCEPT ![r] = Append(@, worker[w].text)] ELSE copies
        /\ UNCHANGED <<reply, jobs, leading, lock, resend, failed, unclosed, resends, overruns, faults, broken>>

\* The text leaves and the answer does not come back: a timeout, a broken connection or
\* an answer that cannot be read counts as a refusal (UpstreamFailed).
AnswerIsLost(w) ==
    LET r == jobs[worker[w].job].reply
    IN  /\ worker[w].pc = "sending"
        /\ faults < MaxFaults /\ faults' = faults + 1
        /\ worker' = [worker EXCEPT ![w].pc = "answered", ![w].outcome = "failed"]
        /\ copies' = [copies EXCEPT ![r] = Append(@, worker[w].text)]
        /\ UNCHANGED <<reply, jobs, leading, lock, resend, failed, unclosed, resends, overruns, broken>>

\* The outcome is written to the row, whatever it says by now.
Record(w) ==
    LET r == jobs[worker[w].job].reply
    IN  /\ worker[w].pc = "answered"
        /\ reply' = [reply EXCEPT ![r].status = worker[w].outcome]
        /\ failed' = IF worker[w].outcome = "failed" THEN failed \cup {r} ELSE failed
        /\ worker' = [worker EXCEPT ![w].pc = "closing", ![w].outcome = "complete"]
        /\ UNCHANGED <<jobs, leading, lock, resend, copies, unclosed, resends, faults, broken, overruns>>

\* The commit fails: the job is handed back, or given up after its last attempt.
RecordFails(w) ==
    /\ worker[w].pc = "answered"
    /\ faults < MaxFaults /\ faults' = faults + 1
    /\ worker' = [worker EXCEPT
           ![w].pc = IF AttemptOf(w) >= MaxAttempts THEN "abandoning" ELSE "closing",
           ![w].outcome = IF AttemptOf(w) >= MaxAttempts THEN "fail" ELSE "release"]
    /\ UNCHANGED <<reply, jobs, leading, lock, resend, copies, failed, unclosed, resends, broken, overruns>>

\* abandon_reply, if it can be committed; the job is failed in any case.
Abandon(w) ==
    LET r == jobs[worker[w].job].reply
    IN  /\ worker[w].pc = "abandoning"
        /\ worker' = [worker EXCEPT ![w].pc = "closing"]
        /\ \/ /\ reply[r].status = "sending"
              /\ reply' = [reply EXCEPT ![r].status = "failed"]
              /\ failed' = failed \cup {r}
              /\ UNCHANGED <<unclosed, faults>>
           \/ reply[r].status # "sending" /\ UNCHANGED <<reply, failed, unclosed, faults>>
           \/ /\ faults < MaxFaults /\ faults' = faults + 1
              /\ unclosed' = unclosed \cup {r}
              /\ UNCHANGED <<reply, failed>>
        /\ UNCHANGED <<jobs, leading, lock, resend, copies, resends, broken, overruns>>

Close(w) ==
    LET state == CASE worker[w].outcome = "complete" -> "completed"
                   [] worker[w].outcome = "fail"     -> "failed"
                   [] worker[w].outcome = "release"  -> "queued"
    IN  /\ worker[w].pc = "closing"
        /\ jobs' = Closed(w, worker[w].job, state)
        /\ worker' = [worker EXCEPT ![w] =
               [NoWork EXCEPT !.batch = {c \in worker[w].batch : c[1] # worker[w].job}]]
        /\ UNCHANGED <<reply, leading, lock, resend, copies, failed, unclosed, resends, overruns, faults, broken>>

\* Mutant: only replies whose job is still there are looked after.
RequeueNothing(w) ==
    /\ Idle(w)
    /\ \E r \in Replies :
          /\ reply[r].status = "sending"
          /\ Enqueued(r) = jobs
    /\ UNCHANGED replyVars

\* requeue_stuck_inbox_replies: replies that stay in "sending" without a job get a new one.
Requeue(w) ==
    /\ Idle(w)
    /\ \E r \in Replies :
          /\ reply[r].status = "sending"
          /\ Enqueued(r) # jobs /\ Len(jobs) < MaxJobs
          /\ jobs' = Enqueued(r)
    /\ UNCHANGED <<reply, leading, lock, worker, resend, copies, failed, unclosed, resends, overruns, faults, broken>>

-----------------------------------------------------------------------------
(* Time and faults.                                                        *)

\* The holder of j still has it in its batch.
AtWork(j) == \E c \in worker[jobs[j].holder].batch : c[1] = j

\* The lease of a worker that died, or that died and lives again, runs out ...
LeaseRunsOut(j) ==
    /\ j \in DOMAIN jobs /\ jobs[j].holder # Nobody /\ ~AtWork(j)
    /\ jobs' = [jobs EXCEPT ![j].holder = Nobody]
    /\ UNCHANGED <<reply, leading, lock, worker, resend, copies, failed, unclosed, resends, overruns, faults, broken>>

\* ... and that of a worker that takes too long.
LeaseIsOverrun(j) ==
    /\ j \in DOMAIN jobs /\ jobs[j].holder # Nobody /\ AtWork(j)
    /\ overruns < MaxOverruns /\ overruns' = overruns + 1
    /\ jobs' = [jobs EXCEPT ![j].holder = Nobody]
    /\ UNCHANGED <<reply, leading, lock, worker, resend, copies, failed, unclosed, resends, faults, broken>>

\* Mutant: the lock outlives the process that took it.
CrashKeepingLock(w) ==
    /\ w \in leading
    /\ faults < MaxFaults /\ faults' = faults + 1
    /\ leading' = leading \ {w}
    /\ worker' = [worker EXCEPT ![w] = NoWork]
    /\ UNCHANGED <<reply, jobs, lock, resend, copies, failed, unclosed, resends, overruns, broken>>

\* The process dies: what it was about is lost, the lock is free, the leases go on.
Crash(w) ==
    /\ w \in leading
    /\ faults < MaxFaults /\ faults' = faults + 1
    /\ leading' = leading \ {w}
    /\ lock' = IF lock = w THEN Nobody ELSE lock
    /\ worker' = [worker EXCEPT ![w] = NoWork]
    /\ UNCHANGED <<reply, jobs, resend, copies, failed, unclosed, resends, broken, overruns>>

\* The connection that holds the lock breaks: the worker does not notice.
LockIsLost ==
    /\ lock # Nobody
    /\ faults < MaxFaults /\ faults' = faults + 1
    /\ broken' = broken + 1
    /\ lock' = Nobody
    /\ UNCHANGED <<reply, jobs, leading, worker, resend, copies, failed, unclosed, resends, overruns>>

WorkerStep(w) ==
    \/ Claim(w)
    \/ \E c \in worker[w].batch : Begin(w, c)
    \/ (\E taken \in BOOLEAN : Send(w, taken)) \/ AnswerIsLost(w)
    \/ Record(w) \/ RecordFails(w) \/ Abandon(w) \/ Close(w)

RepliesNext ==
    \/ \E r \in Replies : Accept(r) \/ \E s \in Senders : BeginResend(s, r)
    \/ \E s \in Senders : EndResend(s)
    \/ \E w \in Workers : BecomeLeader(w) \/ WorkerStep(w) \/ Requeue(w) \/ Crash(w)
    \/ \E j \in 1 .. MaxJobs : LeaseRunsOut(j) \/ LeaseIsOverrun(j)
    \/ LockIsLost

RepliesSpec == RepliesInit /\ [][RepliesNext]_replyVars

\* Workers start again and run their loops, time passes, and a request that began
\* ends; nobody has to send again what failed.
Fairness ==
    /\ \A w \in Workers :
        WF_replyVars(BecomeLeader(w)) /\ WF_replyVars(WorkerStep(w)) /\ WF_replyVars(Requeue(w))
    /\ \A s \in Senders : WF_replyVars(EndResend(s))
    /\ \A j \in 1 .. MaxJobs : WF_replyVars(LeaseRunsOut(j))

FairSpec == RepliesSpec /\ Fairness

-----------------------------------------------------------------------------
(* Properties.                                                             *)

CopiesOf(r) == Len(copies[r])

\* Every row and every worker keeps its type.
RepliesTypeOK ==
    /\ reply \in [Replies -> [status : Statuses, text : 0 .. MaxResends]]
    /\ jobs \in Seq(JobRows) /\ Len(jobs) <= MaxJobs
    /\ leading \subseteq Workers /\ lock \in leading \cup {Nobody}
    /\ worker \in [Workers -> WorkerStates]
    /\ resend \in [Senders -> Replies \cup {0}]
    /\ copies \in [Replies -> Seq(0 .. MaxResends)]
    /\ failed \subseteq Replies /\ unclosed \subseteq Replies
    /\ resends \in 0 .. MaxResends /\ overruns \in 0 .. MaxOverruns
    /\ faults \in 0 .. MaxFaults /\ broken \in 0 .. faults

\* While there is only one leader, a second copy of a reply takes a crash, a failed
\* commit or a lost answer: neither a lease that ran out, a redelivery, the sweep nor
\* a request to send it again repeats what was sent ("a redelivered job has no second
\* effect", deliver_reply).
EveryFurtherCopyTakesAFault ==
    broken = 0 => \A r \in Replies : CopiesOf(r) <= 1 + faults

\* Replies of one room leave in the order they were accepted (_queue_reply): one
\* that never failed is not overtaken, whoever crashes and whatever lease runs out,
\* unless its job was given up and the row could not be closed.
RepliesLeaveInOrder ==
    \A q, r \in Replies :
        (q < r /\ RoomOf[q] = RoomOf[r] /\ CopiesOf(r) > 0)
            => (CopiesOf(q) > 0 \/ q \in failed \cup unclosed)

\* The comment in _queue_reply, without that exception: it takes three faults.
NoReplyIsOvertaken ==
    \A q, r \in Replies :
        (q < r /\ RoomOf[q] = RoomOf[r] /\ CopiesOf(r) > 0) => (CopiesOf(q) > 0 \/ q \in failed)

\* While there is only one leader, a reply that is shown as sent left with the text it
\* shows, although it may have been sent again with another text meanwhile (deliver_reply).
WhatIsShownAsSentWasSent ==
    broken = 0 =>
        \A r \in Replies : reply[r].status = "sent" =>
            \E i \in DOMAIN copies[r] : copies[r][i] = reply[r].text

\* No accepted reply stays in "sending": it is sent, or shown as failed.
EveryReplyIsAnswered ==
    \A r \in Replies : reply[r].status = "sending" ~> reply[r].status \in {"sent", "failed"}
=============================================================================
