# Specifications of the work-space backend

TLA+ models of the parts of this repository whose correctness depends on the order in which
transactions, workers, processes and users act, the TLC configurations that check them on small
instances, and machine-checked proofs about the parts where one instance would not be convincing.
Paths below are relative to `src/backend/src/ax_workspace/`.

## The system

A FastAPI backend and several worker processes share one PostgreSQL database. There is no other
channel between them: the API writes domain rows and enqueues jobs in the same transaction, a worker
leases jobs and writes results back. Transactions run in READ COMMITTED, so what protects an
invariant is a row lock, a unique index, a fencing condition in an UPDATE, or nothing. Outside are
services that can only be called: an AI provider, a transcription service, mail and chat rooms, and
a booking system for rooms.

### Components

| component | state | operations | talks to |
|---|---|---|---|
| Durable job transport (`platform/durable_jobs.py`, `modules/jobs/domain.py`) | table `durable_jobs`: state, ordering key, idempotency key, lease, token, attempts | enqueue, claim, complete, release, fail, extend_lease | every worker and every command that enqueues |
| Conversation turns (`platform/conversations.py`, `bootstrap/conversation_worker.py`) | messages, turns, streaming answer; an advisory lock per execution | send, cancel, retry; read, claim, call the provider, complete, fail or retry | job transport, AI provider |
| Work tasks (`modules/work/application.py`, `lifecycle.py`, `platform/work_tasks.py`, `platform/action_center.py`) | tasks with version, parent, predecessors; delivery rounds; version pictures | create, change state, agree, report, accept, ask for changes, reopen, move, order | requests, action centre, notifications |
| Work requests and assignments (`modules/work/requests.py`, `request_lifecycle.py`, `assignments.py`) | request, reviews of its rounds, its task, rows that say who holds it | ask, answer, amend, resubmit, withdraw; answer, offer, hand over, take back; agree on a cancellation | tasks, action centre |
| Material extraction (`bootstrap/material_worker.py`, `platform/material_extraction.py`, `modules/work/material_extraction.py`) | extraction row with attempt, owner and heartbeat; blocks and chunks | claim job, claim row, heartbeat, publish, retry, time out, abandon; purge | job transport, isolated child processes |
| Daily reports (`bootstrap/report_worker.py`, `modules/reports/application.py`, `platform/reports.py`) | generation row, attempts, a durable note that the provider call was begun | request, claim, call the provider, accept the result, mark for verification, hand back | job transport, AI provider |
| Meeting minutes (`bootstrap/meeting_worker.py`, `modules/meetings/finalize_service.py`, `application.py`) | meeting status, live and heard text, AI track, final note, jobs | record, batch, end, ask again, transcribe, compose, commit, fail | job transport, transcription, AI provider |
| Meeting rooms (`bootstrap/application.py`, `platform/action_center.py`) | an attempt per key, the proposal, the meeting's reservation | confirm, create, reject, call, restore, store, roll back, compensate | booking system |
| External replies (`bootstrap/external_inbox.py`, `external_worker.py`, `modules/external_channels/inbox.py`) | reply rows, jobs per room, a leader lock | accept, send again, deliver, abandon, sweep | job transport, mail and chat services |
| External sync and backfill (`modules/external_channels/`) | cursor, inbox items | poll, accept an item | Slack, Gmail, Kakao |
| Projects (`modules/work/projects.py`) | projects and participation with reasons | join, leave, close | tasks, assignments |
| Action centre (`modules/actions/`, `platform/action_center.py`) | proposals, confirmations, replay receipts | confirm, reject, edit, replay | tasks, requests, meetings |
| Notifications and the event hub (`modules/notifications.py`, `platform/user_event_hub.py`) | subscribers and their pending events | publish, coalesce, deliver | entry points |
| Materials, folders, search; schedules, time blocks, checklists | rows of one owner | sequential computations | extraction, tasks |
| Sessions, organisation, access; tool catalogue and CLI providers; HTTP and MCP entry points; data sets and seeds; frontend; deployment | | | |

### What is hard in it, and what makes each part correct

* **Job transport.** Two transactions enqueue one idempotency key; identity values are drawn before
  commit, so a later number may become visible first; a lease runs out under a worker that still
  works, which then writes late. *Correct:* one open row per idempotency key, jobs of a key in
  order, one current holder, a terminal row is final, and the head of a key is always served again.
* **Conversations.** Several worker slots, a provider call that outlives its lease, a guard whose
  connection may break, cancellation and retry in between. *Correct:* one active turn, one provider
  call at a time, answers in the order of messages, an outcome that a late answer cannot change,
  and no turn or message left behind.
* **Tasks.** A command locks its own row and reads its parent, parts and predecessors, sometimes
  with a lock and sometimes without. *Correct:* a finished task has no unfinished part, neither the
  hierarchy nor the predecessors have a cycle, and the picture frozen for a version shows what that
  version was.
* **Requests.** One question has two doors, the request and the assignment, which share no lock.
  *Correct:* only the latest round waits for an answer, a request and its task end together, held
  work keeps a holder, and it is cancelled by agreement only.
* **Extraction.** Two leases, one of the job and one of the row, a parent that keeps both and a
  child that may outlive it. *Correct:* only a completed extraction has content, outcomes are final,
  a closed job has a closed row, undisturbed work is kept, and every extraction ends.
* **Reports.** The same shape, with a call that must not be repeated while nobody knows how an
  earlier one ended. *Correct:* no call is made in doubt, a doubt is never forgotten, a closed job
  has a closed generation, and every generation ends.
* **Meeting minutes.** A worker that lost its lease goes on; a batch and the stream of the serving
  process may write after it. *Correct:* done minutes rest on the recording and on nothing
  provisional and are never made again, a paid transcription is repeated only after a fault, and an
  ended meeting is settled.
* **Rooms.** The booking system has no look-up and no idempotency keys, and what it booked is given
  back outside of any transaction. *Correct:* one seat per proposal, no seat that nobody looks for,
  and a booked meeting has its seat.
* **Replies.** A reply is sent before its outcome commits; the single owner is whoever holds a lock
  on a connection of its own. *Correct:* a further copy takes a fault, replies of a room leave in
  order, and none stays in "sending".

## Modules

| module | models | instance |
|---|---|---|
| `OrderedDelivery` | the promise of the transport: ordered at-least-once delivery | refined by `DurableJobs` |
| `DurableJobs` | the job table, the enqueuing transactions statement by statement, claims, heartbeats, fenced writes, the clock | `MCDurableJobs` |
| `AnsweredMessages` | the promise of a conversation: messages answered once, in order, one turn after the other | refined by `ConversationTurns` |
| `ConversationTurns` | a conversation, its turns and their jobs, worker slots, guard, provider call | `MCConversationTurns` |
| `WorkTasks` | tasks, parts, predecessors, versions, delivery rounds; commands as two or three steps | `MCWorkTasks` |
| `WorkRequests` | one request, its rounds, its task and the rows of its holders, behind two doors | itself |
| `MaterialExtraction` | one extraction, the deliveries of its job, parents, children, purge, time | itself |
| `ReportGeneration` | one generation over several jobs, parents, children, the provider call, time | itself |
| `MeetingMinutes` | one meeting from its last minutes to its note, workers and the serving process | itself |
| `RoomBookings` | the seats of one proposal and of direct requests, compensation | `MCRoomBookings` |
| `ExternalReplies` | accepted replies, their jobs, leaders, the services outside | `MCExternalReplies` |
| `DurableJobs_proofs`, `ConversationTurns_proofs`, `WorkTasks_proofs`, `MaterialExtraction_proofs`, `ReportGeneration_proofs`, `MeetingMinutes_proofs`, `RoomBookings_proofs` | theorems about the module of their name | |
| `RequestsAndReplies_proofs` | theorems about `WorkRequests` and about `ExternalReplies`, which share no name and have nothing else to do with each other | |

The workers' modules use the transport through what `DurableJobs` establishes about one key: claims go
to the head, a write without the current token changes nothing, an expired lease is claimable.
`ConversationTurns`, `MeetingMinutes` and `ExternalReplies` abstract the clock (a lease may run out);
`MaterialExtraction` and `ReportGeneration` keep it, in ticks of a heartbeat interval, because their
two leases have different lengths. `PROJECT.json` maps every definition to its lines.

### DurableJobs

A row is named by its `sequence`. `caller` holds where each enqueuing transaction stands: the
first look-up, the draw of a sequence value, the INSERT (which waits for an invisible row of the
same idempotency key, as ON CONFLICT does), the second look-up, commit or rollback. `LockedKeys` are
the ordering keys whose enqueuers hold one row lock from before the look-up to commit: conversations
lock their row before they enqueue, other kinds of job do not, and the order of delivery is claimed
for the former only. `left` and `wait` are `lease_expires_at` and `available_at` relative to now, so
time is unbounded while the state stays finite. `MaxTxn` is how long a transaction may have been
open when it writes: `now()` is the start of the transaction, so a fenced write may pass that much
after its lease ran out, and the model lets it.

### ConversationTurns

Every transaction takes the conversation's row lock first, so each is one step that maps the
database to the database, and the operators that do it are named after the repository's methods
(`Settle` is `complete` or `fail` with the `drain` each ends in). Between a worker's transactions
everything else may happen. `GuardMayBreak` is the death of the guard's connection under a live
worker. With it, a second call to the provider may start beside the first, which the code accepts
and which only the fence on the outcome survives, so `OneProviderCall` is checked without it, and
`OutcomeIsFinal` with it.

### WorkTasks

A command is two steps, a locking read and a writing commit, or three when it locks a second row.
`Commands` selects the commands of an instance; those in `Overlapping` may run beside others, the
rest run alone. `Restarts` lets users start or resume a finished task. `overtaken` remembers the sessions
whose walk along predecessors or ancestors is out of date, because another commit changed such edges after
it. In the main run completions, agreements, reports, reopenings and updates of predecessors overlap;
additions, moves and answers to reports do not, for the reasons listed under *Findings*.

### WorkRequests

The request, the reviews of its rounds, the one decision item, the task and its assignment rows are
what the two doors share. `BeginRequestCommand` takes the request's row and reads the latest review
without a lock; `EndAccept`, `EndReject`, `EndNegotiate`, `EndRevise` and `EndWithdraw` write and
commit, taking the task's row last. `BeginAnswerRow` and `EndAnswerRow` are the same question at the
assignment, which locks the task and the row and never the request. `Report` hands the task in;
`BeginAnswerReport` is what the requester's answer reads and checks without a lock
(`platform/action_center.py:1483-1494`), `EndAnswerReport` writes "done" or "in progress" over whatever
the task has become by then. `overruled` remembers that this was a cancellation. Commands that touch one row lock
only (offers, hand-overs, taking back, evidence, agreement) are single steps. What a session read is
kept in `txn`, so a step may act on a round, a review or an item that has changed since.

### MaterialExtraction

A delivery is the pair of a parent, which leases the job and beats, and a child, which claims the
row. Both are numbered by the job's attempt. The row counts attempts of its own; the heartbeat
compares it with the job's number, so after a fault between the two claims every later heartbeat
says "lost" and kills the child, until `material_total_timeout_seconds` fails the row: the run checks
that this is how such an extraction ends, at the latest. A delivery that stalls before its child has
claimed, a dead parent and a dead child are faults. `OnTimeDeliveries` bounds the deliveries before
the total time is over; without it the retries would be bounded by `MaxDeliveries` alone and the
liveness property by nothing in the code. `PurgeMeetsResult` holds the race under *Findings* apart.

`Abandon` is the end of a delivery whose child is dead, and `ParentErrs` that of one whose parent raises,
at any step (`bootstrap/material_worker.py:102-107`): a heartbeat, an extension or the end of the transport.
Both fail the row if it is this delivery's own, and the job in any case. A child may die before its claim,
while it parses, and between the commit of what it did and the sending of its result. So a job can be
failed while its extraction is open, and no later delivery comes: the state `Stranded` names, which is a
finding. The properties of the run allow that one end and no other.

### ReportGeneration

The generation has a fence of its own (`token`, `age`) beside the job's lease, attempts with a row
each (`used`), and `started`, the execution row of the call's node that is written just before the
call. A claim that finds a live owner is "contended", one that finds the call begun marks the
generation for verification. Deliveries are numbered over all jobs; a request for a generation that
is still open and whose job is closed opens a new job, whose attempts begin again, which is how a number
of `used` may be met twice. `lost` remembers the calls whose answer nobody recorded.

`Abandon` (a dead child) and `ParentErrs` (an exception of the parent at any step,
`bootstrap/report_worker.py:78-83`) both do what `GiveUp` says of `_abandon`: a generation the delivery owns
is handed back or needs verification, and in every other case, the conflict that is taken for "stale"
included, the job fails (`:180-194`). `BeatGeneration` reads after `BeatJob` has committed, so it may meet a
generation its own child has just handed back; the delivery is lost as "overtaken". After these two ends a
generation may be open without an open job: `Stranded`, a finding. Only a new request of its owner, or an
orphan, goes on with it.

### MeetingMinutes

The serving process appends text and runs batches (`serving`) until the meeting is ended, and what it
has under way then may still be written (`LateWrites`). A worker claims the job, hears the recording,
which replaces the live text, loads both tracks, composes with `FINAL_ATTEMPTS` and one renewed
attempt after a time-out, and commits. The transport counts deliveries that end in an exception up to
`MAX_DELIVERIES`. A worker that lost its lease goes on: what it writes to the meeting is held back by
the meeting's status only. `hearings` counts transcriptions that were asked for.

### RoomBookings

A proposal may be confirmed with one of several final contents, each with a key of its own; a direct
request has the key its caller sent. `Fence` writes the row "pending" in a transaction of its own,
`Call` reads it under its lock, and only the one that wrote the fence calls. `BookSeat` and
`RecordSeat` are the answer and its record, `LoseAnswer` and `Crash` may leave the key in `late`: the
call may still book a seat, or never. `ConfirmWithoutRoom` approves the proposal with a content that names
no room; the code returns before it looks for open outcomes (`bootstrap/application.py:4602`), so it may
do so while an earlier call is in doubt. `Store` commits the meeting with the reservation in hand;
`RollBack` is a confirmation whose transaction fails afterwards, which unlocks the proposal and then
runs the compensation (`MarkDoubt`, `CancelSeat` or `CancelFails`, `Conclude`) step by step. An answer
of the booking system is taken at its word: an error means that no seat was booked. That includes the one
malformed answer the connector knows, a 200 or 201 without a number, which it reports as an error
(`platform/the_connect.py:127-130`) and which is recorded as refused although a seat may exist;
`NoSeatIsForgotten` presumes that the system gives its numbers. `crossed`
remembers that a confirmation met a compensation of the same proposal or a rejection, the two
overlaps under *Findings*.

### ExternalReplies

A worker process becomes the leader by taking the advisory lock, claims a batch of jobs, and sends
each reply upstream, commits the outcome and closes the job as three steps; nothing prolongs a lease
meanwhile. `LockIsLost` breaks the lock's connection under a leader that goes on. A failed reply is sent
again by a request with its key and possibly another text, which enqueues or meets the open job of
the first delivery; the sweep gives what stayed in "sending" a new job. `AnswerIsLost` is a call that took
effect and whose answer did not arrive or could not be read: a timeout, a broken connection, a 5xx or an
unreadable body (`platform/external_inbox_upstream.py:102-121`), or any other exception after the call
(`modules/external_channels/inbox.py:928-933`). The row is then "failed" although the text left, and sending it
again makes a second copy; the model counts it as a fault. `Send` is an answer that says what happened.
`copies` remembers the texts that
arrived outside, `failed` and `unclosed` the replies that were closed as failed and those whose job was
given up while the row could not be closed.

## Runs

| run | asks | bounds |
|---|---|---|
| `jobs` | leases respected; implements `OrderedDelivery`; the head of a key is served | 2 rows, a locked and an unlocked key, 3 idempotency keys, 2 callers, 2 workers, lease 1, late writes and delays by 1, 2 attempts |
| `conversation_safety` | one provider call, answers in order; implements `AnsweredMessages` | 3 messages, 1 retry, 2 slots, 2 faults, queue limit 1, budget 1 |
| `conversation_liveness` | final outcomes, every turn ends, every message is taken or held | 2 messages, 1 retry, 2 slots, 1 fault, broken guards, budget 2 |
| `tasks_safety` | parts consistent, pictures; cycles only where a walk was overtaken | 3 tasks, one requested, 2 sessions, 3 versions (4 where requested) |
| `work_requests` | only the latest round waits; a closed request has a cancelled task unless overruled; held work keeps a holder | 2 sessions, 2 rounds, 3 assignment rows, 4 versions |
| `material_extraction` | content; closed jobs and every extraction ends, but for abandoned deliveries; undisturbed work | 5 deliveries, 3 of them on time, 1 fault, lease of 4 intervals, 2 attempts |
| `report_generation` | no call in doubt; a closed job has a closed generation and every generation ends, but for two ends | 6 deliveries over 2 requests, 1 fault, visibility of 3 intervals, 2 attempts |
| `meeting_minutes` | done minutes stand, a further transcription takes a fault, an ended meeting is settled | 2 workers, 2 jobs, 2 deliveries of 2 attempts, 1 batch, 1 lost lease, 2 faults |
| `room_bookings` | one seat per proposal, no seat is forgotten, a booked meeting has its seat | 3 handlers, 5 requests, 2 contents with a room and one without, 1 direct key, 4 seats, 2 faults |
| `external_replies` | a further copy takes a fault, replies in order, every reply is answered | 2 replies of a room, 2 workers, 1 sender, 4 jobs, 2 attempts, 1 overrun, 3 faults |
| `tasks_restart`, `requests_held_cancel` | the first two situations under *Findings* | as small as the situation needs |

Why these bounds suffice to see the cases: two transactions are enough for every race on an
idempotency key, and two rows for an order that is not kept. Two worker slots give a holder and a
usurper; two faults a crash and a lost lease on the same turn. A queue limit of one with three
messages reaches both a full queue and one that drains more than a single message. Three tasks give
a grandparent, and the shortest cycle that a walk over committed edges misses, which two sessions close in
the run. Two rounds give an
earlier and a latest one, three rows a holder, a former holder and an offer. Five deliveries of an
extraction cover an orphan, its successor, a contended one, and the two that time over needs; one fault
bounds what the deliveries of the liveness properties can be used up by (with two, every invariant of both
workers' runs still holds, but five or six deliveries may not be enough to reach an end). Six
deliveries of a report cover two jobs whose attempts carry the same numbers. Two jobs of a meeting are
the first and the one asked for again, and a single lost lease already puts two workers on one
meeting. Three handlers are a confirmation, a compensation and a rejection at once; two contents are
the one tried and another one, and four seats one more than any handler books. Two replies are an
earlier and a later one. Symmetry is used only in runs without liveness properties.

Deadlock is not looked for (`CHECK_DEADLOCK FALSE`) where people may stop asking or a bound ends the
behaviour; `jobs` checks it.

### Fairness

* Transport: the clock advances, idle workers poll (they loop with a sleep), a handler ends or its
  process dies. Nothing is asked of enqueuing callers.
* Conversations: workers poll and handlers end (the provider call has a timeout), and the lease of a
  claimer that is gone runs out. Nothing is asked of users or of faults.
* Extraction and reports: workers poll; parents beat and collect, each by itself, since the loop looks
  at the child before it beats; children end, because parsing and the call are bounded; a purge that
  began commits; time passes and the total time ends. The stage time limit is not assumed to strike.
* Minutes: a free worker polls, and one that holds a job goes on (calls have timeouts); the lease of a
  dead worker runs out. Nothing is asked of people, batches or the stream.
* Replies: workers lead and poll, a leader goes on, leases of jobs nobody works on run out, and the
  sweep runs. Nothing is asked of people. In the worker's loop the sync shares one `try` with the reply jobs
  and the sweep and comes first (`bootstrap/external_worker.py:144-158`), so this presumes that
  `sync.tick` does not raise in every round.
* Rooms and requests have no background process, so no fairness and no liveness property.

All of it is weak fairness.

### Findings

Two situations have a run of their own:

* `tasks_restart`: start and resume take a finished part back to work under a finished parent, which
  `reopen` refuses (`modules/work/application.py:2090` and `:2205`).
* `requests_held_cancel`: work somebody holds is cancelled without agreement, by taking back an offer
  to replace its holder, or by withdrawing a request whose task was accepted at the assignment's door
  (`platform/work_tasks.py:2775`, `modules/work/requests.py:751`).

Others are kept apart from the passing runs by a constant, a bound or an exception in the property, and
can be seen by changing it:

| to see it | what TLC shows |
|---|---|
| `WorkTasks`, `Commands` and `Overlapping` = {"change", "add"} or {"change", "move"} | the parent of a part that is added or moved is read without a lock and may be finished meanwhile: `DoneTaskHasNoOpenPart` fails |
| `WorkTasks`, `Commands` and `Overlapping` = {"change", "add"} | adding a part writes the version of the parent it counted from that unlocked read, so the version may go back to one whose picture was frozen before: `PictureShowsTheTask` fails |
| `WorkTasks`, INVARIANT `NothingWaitsForItself` in `MCWorkTasks.cfg`; or `Overlapping` = {"move"} | three tasks and two sessions close a cycle: updates of predecessors, and moves in the hierarchy, walk committed edges only, each misses the edge the other writes, and their row locks are on different tasks. The docstring of `_require_no_predecessor_cycle` (`modules/work/application.py:1425-1427`) says that walking in the transaction of the write leaves no gap in which another edge closes a cycle ("검사한 뒤 저장 전에 남이 다른 변을 더해 순환이 생기는 틈을 남기지 않기 위해서다"); under READ COMMITTED it does leave one. The run keeps these overlaps, and shows what is left of the promise: two tasks never wait for each other, since the foreign key of an edge waits for the row it leads to, and a longer cycle takes an overtaken walk |
| `WorkTasks`, `Overlapping` = {"decide"} | two answers to one report both pass; the second overwrites the first under the version whose picture was frozen: `PictureShowsTheTask` fails |
| `WorkRequests`, `ClosedRequestHasClosedTask` without `~overruled` | the requester's answer to a report reads the task without a lock (`platform/action_center.py:1483-1494`), and writes "done" or "in progress" over a cancellation that was committed in between; the request is closed and its task is not |
| `MaterialExtraction`, `ClosedJobHasClosedRow` without `Stranded` | an abandoned delivery fails its job although its extraction is open: its child died before its claim, or had committed a retry and died before it said so, or the parent raised, or the row counts another attempt than the job. The docstring at `bootstrap/material_worker.py:110` says that only this delivery is closed and the next one takes over ("이 배달만 실패로 닫고 다음 배달이 이어받게 한다"); a failed job has no next delivery |
| `MaterialExtraction`, `PurgeMeetsResult` = TRUE | chunks published in the middle of a purge survive it: `ContentOnlyOfCompleted` fails |
| `ReportGeneration`, `ClosedJobHasClosedGeneration` without `Stranded` | `_abandon` (`bootstrap/report_worker.py:78-83`, `:180-194`) fails the job of a generation that is open and not the delivery's own: its child died before the claim or after it had handed back, or the parent raised; and a beat that finds the generation handed back loses the delivery and closes the job. The docstring at `modules/reports/application.py:247` returns an attempt that ended before the call to an ordinary retry; here only a new request of the owner gives it a job again |
| `MeetingMinutes`, `LateWrites` = TRUE | a batch or the last words of the stream arrive after the minutes: `DoneMinutesStand` fails. `finalize_service.py:119` promises one provider call per meeting through the lock it shares with the batch, but the two run in two processes |
| `ExternalReplies`, `Senders` = {s1, s2} | two requests to send one failed reply again both read it as failed; two copies leave without a fault, against the unique key at `platform/persistence.py:2302`: `EveryFurtherCopyTakesAFault` fails |
| `ExternalReplies`, INVARIANT `NoReplyIsOvertaken` | the last attempt fails and then the commit of `abandon_reply` too; the error is swallowed and the job failed all the same (`bootstrap/external_inbox.py:291` to `:306`), the row stays in "sending", and while it waits for the sweep a later reply of the room is sent, against the comment at `:249` that replies of a room leave in the order they were accepted. It takes three faults; with two the property held |
| `RoomBookings`, INVARIANT `SeatsOfMeetings` | a proposal is confirmed again while an earlier roll-back is being compensated: the compensation (`bootstrap/application.py:2177`) finds the meeting stored, writes nothing and cancels its seat, although the comment above it (2166-2168) and `docs/unified-operations.md:352` promise that the doubt is on record before the seat goes |
| `RoomBookings`, INVARIANT `OpenOutcomeForbidsRejection` | a rejection looks for open outcomes (`bootstrap/application.py:4681`) before it waits for the lock a confirmation holds (`platform/action_center.py:668`); the call of that confirmation is lost meanwhile, and the proposal is rejected with an open outcome, which `tests/contract/test_meeting_rooms.py:770` says is refused |

`OneSeatPerProposal` and `BookedMeetingHasItsSeat` name the two overlaps of `RoomBookings` as their only
exceptions, `RepliesLeaveInOrder` the replies in `unclosed`, `ClosedRequestHasClosedTask` the cancellations
that were `overruled`, `ClosedJobHasClosedRow`, `ClosedJobHasClosedGeneration` and the two liveness
properties beside them the deliveries in `Stranded`, and `OnlyOvertakenWalksCloseACycle` the walks in
`overtaken`, so the runs and the proofs show that nothing else leads there.

## Proofs

Each proof module proves an inductive invariant of its model, and from it the properties below, for
every value of the constants that the model's assumption allows (bounds are natural numbers, sets of
actors are not empty, nobody is called "nobody").

`DurableJobs_proofs`, from `BoundsAssumption` (bounds are natural numbers, a lease is not empty) and
`KeysAssumption` (an idempotency key is always enqueued under the same ordering key; locked keys are
ordering keys; there is a key):

| theorem | statement |
|---|---|
| `Invariance` | `Spec => []Inv` |
| `TypeCorrect` | `Spec => []TypeOK` |
| `IdempotentEnqueue` | `Spec => []OneOpenPerIdempotencyKey` |
| `FifoOfLockedKeys` | `Spec => []StartsAfterEarlierOver` |
| `MutualExclusion` | `Spec => []OneRunningPerLockedKey` |
| `CurrentHolderIsUnique` | `Spec => []OneCurrentHolder` |
| `LeaseSafety` | `Spec => LeaseRespected` |
| `TerminalRowsAreFinal` | `Spec => TerminalIsFinal` |
| `Refinement` | `Spec => ImplementsOrderedDelivery` |

The properties are not inductive by themselves. A claim is in order only if no *invisible* row of
the key is older, and that is a fact about transactions that have not committed. So the invariant
adds: `SequenceInv`, sequence values are handed out once and a transaction about to insert has one no
row has; `LockInv`, at most one transaction is in flight for a locked key, and every invisible row
belongs to one; `NewestInv`, under a lock the drawn or invisible row is the newest of its key;
`LeaseInv`, a row has a token exactly while it runs, the one of its latest attempt; and `HolderInv`,
no two workers remember the same claim. Each action has a lemma. `LockInv` and `NewestInv` give the
claim's step its order, the unique index and the INSERT's wait give the idempotency key, and
`HolderInv` with the freshness of a claimed token gives the current holder. The refinement maps a row
to the status its column and its attempt count imply; a claim is a delivery or a stutter, a commit is
an acceptance, and what makes acceptance follow the numbering is `NewestInv` again.

`ConversationTurns_proofs`, for any number of messages, slots, retries, attempts and faults and any
queue limit:

| theorem | statement |
|---|---|
| `Invariance`, `TypeCorrect` | `Spec => []IndInv`, `Spec => []TypeOK` |
| `AtMostOneActiveTurn` | `Spec => []OneActiveTurn` |
| `OneCallPerConversation` | `GuardMayBreak = FALSE /\ Spec => []OneProviderCall` |
| `MessagesAreAnsweredInOrder` | `Spec => []AnsweredInOrder` |
| `OutcomesAreFinal` | `Spec => OutcomeIsFinal` |
| `PromiseIsKept` | `Spec => ImplementsAnsweredMessages` |
| `WhatWaitsIsServed` | `Spec => [](NobodyWaitsInVain(db) /\ ActiveTurnsAreServed(db))` |

The repository's methods map the database to the database, so most of the invariant (`Rows`) is a
predicate of one database that each method keeps by itself: turns are numbered without gaps and only
the newest may be active, messages have keys of their own and their turns follow their order. A
provider call is alone because of three facts at once: a claim takes the first open job of the
conversation (`SlotsAreKnown`), a slot past the guard holds it, and the job of a running call stays
open (`GuardsHold`); two calls would each be behind the other. `TypeOK` bounds the attempts of a turn by
the budget plus one for each fault, which needs `AttemptsAreAccountedFor`: attempts, slots about to
begin one and a job that may be claimed again are paid for together, by the budget and by slots whose
lease was lost. `WhatWaitsIsServed` is what the liveness properties start from: an active turn always
has a job, and a message waits only behind an active turn or a cancellation.

`AnsweredMessages` knows no worker, lease, job or attempt. The refinement shows of a row only its key
and its turn (`Said`), and of a turn whether it is active or how it ended, and what it repeats
(`Shown`). A send is a message that waits or a question that begins a turn; `complete` and `fail`, with
the `drain` they end in, are the end of a turn when nobody waits and otherwise the end of one and the
beginning of the next in one step; a cancellation may leave messages waiting; every other step of a
worker shows nothing. `Rows` gives the next turn its number, room for it, and at most one active turn,
which `OneActiveTurn` states by itself.

`WorkTasks_proofs`, for all sets of tasks and sessions and all bounds on versions. Each theorem lets
commands overlap except those that would break it; a command outside `Overlapping` runs alone:

* `VersionsAreOrdered`: no overlap with "add" or "decide", which write a version counted from an
  unlocked read;
* `PartsAreOrdered`: no overlap with "move", and `Restarts` is FALSE.

What it says of cycles needs neither.

| theorem | statement |
|---|---|
| `Invariance`, `TypeCorrect` | `VersionsAreOrdered /\ Spec => []IndInv`, `... => []TypeOK` |
| `PicturesShowTheirTasks` | `VersionsAreOrdered /\ Spec => []PictureShowsTheTask` |
| `NoOpenPartUnderADoneTask` | `VersionsAreOrdered /\ PartsAreOrdered /\ Spec => []DoneTaskHasNoOpenPart` |
| `CycleInvariance` | `Spec => []CycleInv` |
| `CyclesAreLongAndOvertaken` | `Spec => OnlyOvertakenWalksCloseACycle` |

Both hypotheses are weaker than the bounds of `tasks_safety`, where changes, agreements, reports, reopenings
and updates of predecessors overlap. What they leave out is left out for a reason TLC shows (*Findings*):
`PictureShowsTheTask` fails when "add" or "decide" overlaps, `DoneTaskHasNoOpenPart` when "add" or
"move" does or when finished tasks are restarted. That parts need "decide" to be ordered is not shown: there
the proof rests on `IndInv`, whose versions do.

`IndInv` says what a command in flight `Knows`: what it checked in its locking read is still so
when it commits. A completion has read that the parts of its task are settled; what keeps that so is
that a part can be reopened only under the lock of its parent, which the completion holds. Rows and
pictures are sound by themselves (`RowIsSound`, `PictureIsSound`): a version has at most one picture, the
current one has its own, and rounds are younger than versions.

`CycleInv` is an invariant of its own, and lets every command overlap every other one. A walk that no commit
has overtaken still holds (`WalkHolds`): no edge leads back to the task whose edges are to be written. A part
that is added is new and has no edges yet. From there a lemma about graphs, `NewEdgesCloseNoCycle`, does the
rest: new edges of one task close no cycle, of any length, unless they lead back to it. That two tasks never
wait for each other holds also for overtaken walks. The second of two writers waits for the lock of the
task its edge leads to, which is the first one's until that has committed, and its walk came after that
commit or found the edge.

`ReportGeneration_proofs`, for any number of deliveries, attempts, requests and faults, every visibility
timeout and without further hypotheses:

| theorem | statement |
|---|---|
| `Invariance`, `TypeCorrect` | `Spec => []IndInv`, `Spec => []TypeOK` |
| `NoCallIsRepeated` | `Spec => NoCallIsRepeatedInDoubt` |
| `DoubtIsKeptForAPerson` | `Spec => []DoubtIsKept` |
| `OnlyTwoEndingsStrand` | `Spec => []ClosedJobHasClosedGeneration` |

The core is `DoubtHoldsTheRow`: a delivery that is calling, or whose call was lost, either still owns
the generation's row with `started` set, or the row needs verification for good. Two deliveries cannot
both own the row, so a call can begin only where no other is in doubt; and the only way past a deserted
row whose call was begun is verification. That dead children make no further calls is
`LostCallsAreOver`.

The last theorem has an invariant of its own, `JobInv`, over the first one. A delivery that is about to close
the job says something of the generation, and what it says is true (`EndingIsTrue`): completed, failed and
in need of verification are said of a generation that is over, as are the results a child leaves
(`OverIsTrue`), and what is over stays over (`OverStays`), whatever orphans still do. The other results hand
the job back. What remains are the two ends that say nothing of the generation, abandoned and overtaken, and
those are the exception. `LastHoldsTheJob` ties the exception to the job that is closed: the latest delivery
alone holds it, so it is that delivery's end which `Stranded` asks for.

`RequestsAndReplies_proofs`, about `WorkRequests`, for any number of sessions, rounds, rows and versions:

| theorem | statement |
|---|---|
| `Invariance`, `TypeCorrect` | `Spec => []IndInv`, `Spec => []TypeOK` |
| `LatestRoundWaits` | `Spec => []OnlyTheLatestRoundWaits` |
| `OneHolder` | `Spec => []OneHolderAndOneOffer` |
| `HolderIsKept` | `Spec => HeldWorkKeepsAHolder` |
| `ClosedTogether` | `Spec => []ClosedRequestHasClosedTask` |
| `EndedStaysEnded` | `Spec => EndedRequestStaysEnded` |

Since the doors share no lock, the invariant says what a session may still rely on when it ends:
`RequestReadsHold`, whoever holds the request's row read its latest round, and a review that waits now
waited then; `RowReadsHold`, the row that is being answered still waits; `LocksExclude`, a row lock has
one holder. A request that ended has a cancelled task, unless an answer to its report `overruled` the
cancellation. Every step changes the rows in one of six ways (`RowsStep`) and the reviews in one of three
(`ReviewsStep`), so the theorems about rows and rounds are proved for those ways.

`MaterialExtraction_proofs`, for any number of attempts, deliveries and faults and every lease.
`RowOutlastsABeat` (`StaleAfter > 1 /\ Visibility > 1`) says that a row just found by a heartbeat is
not stale when the next one is due: the worker beats at a third of the lease and a row is stale after
half of it (`bootstrap/material_worker.py:125` and `:256`). `OneFault` is `MaxFaults <= 1`.

| theorem | statement |
|---|---|
| `Invariance`, `TypeCorrect` | `Spec => []IndInv`, `Spec => []TypeOK` |
| `OnlyTheCompletedSaySomething` | `PurgeMeetsResult = FALSE /\ Spec => []ContentOnlyOfCompleted` |
| `NoRivalWithoutAFault` | `RowOutlastsABeat /\ Spec => []UndisturbedWorkIsKept` |
| `OnlyAbandonmentLeavesWorkOpen` | `RowOutlastsABeat /\ OneFault /\ Spec => []ClosedJobHasClosedRow` |
| `WhatIsArchivedIsOver` | `Spec => []ArchivedJobHasClosedRow` |
| `WhatIsOverStaysOver` | `Spec => [][OverIsFinal]_vars` |

The invariant has a part for each number of faults. For all of them: a delivery claims the row once
(`EachClaimsOnce`, a count of those that have not, which bounds the row's attempts), content stands
only under a completed row outside a purge, and a result or a closing parent that says "over" says it of
a row that is (`OverIsTrue`). Without a fault (`NothingDisturbed`) the two leases count alike: the one
watched delivery has the job's number and, once its child has claimed, the row's, and a row is at most
one interval old. After one (`TheOneFault`) they need not, and what remains is what a delivery may
conclude when its time is out: while it holds the job, the row that runs is its own and no child is about to
take it, so the job and the row fail together. An abandoned delivery may conclude nothing of the kind, which
is why the theorem allows `Stranded`. Of the hypotheses, `PurgeMeetsResult = FALSE` is tight (*Findings*), and
so is `RowOutlastsABeat` for `UndisturbedWorkIsKept`: with a lease of three intervals, of which the model
rounds the half down to one, TLC finds it violated (a setting of 3 seconds does the same in the code, the
default is 120). `OneFault` is not known to be: with two faults TLC finds no job closed otherwise, but the
account of `TheOneFault` is of one.

`MeetingMinutes_proofs`, for any number of workers, attempts, deliveries, batches and jobs:

| theorem | statement |
|---|---|
| `Invariance`, `TypeCorrect` | `Spec => []IndInv`, `Spec => []TypeOK` |
| `HearingsArePaidFor` | `Spec => []EveryFurtherHearingTakesAFault` |
| `DoneIsKept` | `Spec => DoneMinutesAreKept` |
| `DoneStands` | `LateWrites = FALSE => (Spec => []DoneMinutesStand)` |

Transcriptions are counted against what may still ask for one: `HearingsAreAccountedFor` bounds
hearings plus jobs that are due plus workers that are due by jobs plus lost leases plus faults. A claim
moves one from the due jobs to the due workers, a hearing takes one of the due workers, and a crash, a
failed transaction or a lost lease pays for the one it brings back. `DoneStands` rests on
`ComposedOfTheHeard`: no minutes are composed before the text was heard, and nothing writes live text
afterwards.

`RoomBookings_proofs`, for any number of handlers, contents of the proposal, direct keys, requests,
seats and faults:

| theorem | statement |
|---|---|
| `Invariance`, `TypeCorrect` | `Spec => []IndInv`, `Spec => []TypeOK` |
| `OneSeat` | `Spec => []OneSeatPerProposal` |
| `SeatsAreRemembered` | `Spec => []NoSeatIsForgotten` |
| `MeetingsKeepTheirSeats` | `Spec => []BookedMeetingHasItsSeat` |

Whether a second seat may be booked depends on what every handler has in hand, so the invariant has
three parts. `KeyInv` speaks of one key: the writer of the fence is the only one that may call, and holds
the row while it does (`CallsUnderTheFence`); the ledger never says that there is no seat while there is
one (`LedgerTellsOfSeats`); a booking in hand names a seat of its key, in doubt on record before it is
given back (`HoldsItsSeat`); and a seat that was given back has not been booked anew before that is
written down (`GivesBackOnce`), without which `compensated` could overwrite a newer fence. `ProposalInv`
speaks of the contents of one proposal: a confirmation holds its lock, and what was loaded under another
content is unresolved or approved, so the check of `Confirm` keeps seats under one content. `MeetingInv`
speaks of the meetings: what the ledger, a handler or a meeting calls booked is there
(`SeatsAreThere`), because while a seat is being given back no confirmation is under way and no content
of the proposal has a meeting (`NothingIsStoredMeanwhile`). That part, and nothing else, rests on the
exception the property names: `Confirm` may break it only by the overlap that `crossed` records. Each part
has one lemma over all actions (`KeyStep`, `ProposalStep`, `MeetingStep`).

`RequestsAndReplies_proofs`, about `ExternalReplies`, for any number of replies and rooms,
workers, requests, jobs, attempts and faults. `OneSender` says that requests to send again do not
overlap:

| theorem | statement |
|---|---|
| `RepliesKeepTheirTypes` | `RepliesSpec => []RepliesTypeOK` |
| `RepliesKeepTheirOrder` | `RepliesSpec => []RepliesLeaveInOrder` |
| `FurtherCopiesTakeFaults` | `OneSender`: `RepliesSpec => []EveryFurtherCopyTakesAFault` |
| `ShownTextsWereSent` | `OneSender`: `RepliesSpec => []WhatIsShownAsSentWasSent` |

A reply is settled when a copy of it left, it was failed, or its job was given up. The order is not
inductive, since a claim looks at open jobs only. What makes that enough is `UnsettledAreQueued`: an
accepted reply that is not settled has an open job that comes before every job of a later reply. A claim
passes no open job of its room, so it passes no such reply (`ClaimedInOrder`); a job is closed only when
its reply is settled (`OutcomesAreTrue`), however often it was claimed, and a new job comes last and is for
a reply that has no open one (`UnsettledStep`). The order needs neither one leader nor leases that last.
The number of copies does: while no connection of a leader broke, only the leader is about anything
(`OneLeader`), so the row it sends stays in "sending" with the text it read (`SendsWhatIsToBeSent`), and a
request sends again only what failed. Then the one copy of a reply that no fault paid for is the one whose
delivery the row shows, or the leader is about to record (`CopiesArePaidFor`). `OneSender` is tight: with
two senders TLC finds the property violated (*Findings*). The bound on texts in `RepliesTypeOK` needs an account
of its own: texts of a reply plus requests that have read it never exceed the requests made
(`TextsAreCounted`).

Only model-checked:

* all liveness, since fairness and ENABLED are outside the prover: `HeadIsServed`, the `~>` properties of
  the workers' modules, and `EveryReplyIsAnswered`.

Every invariant and action property a passing run checks is stated by a theorem.

Theorems without a run of their own, whose property TLC has not checked separately:
`IdempotentEnqueue`, `FifoOfLockedKeys`, `MutualExclusion`, `CurrentHolderIsUnique`,
`TerminalRowsAreFinal`, `WhatWaitsIsServed`, `DoubtIsKeptForAPerson`, `OneHolder`, `EndedStaysEnded`,
`DoneIsKept`, `WhatIsArchivedIsOver`, `WhatIsOverStaysOver`, `ShownTextsWereSent`. `ContentOnlyOfCompleted`,
`UndisturbedWorkIsKept` and the tasks' properties are proved under the constants their run has.

## Not modelled

* In the transport: the in-memory queue of tests.
* In conversations: the text and tools a running turn shows, context references, authority (a claim
  may be refused nondeterministically).
* In tasks: projects, dates, parties, approvers, proposals other than cancellation, and the version
  check's refusals, which change nothing. That a predecessor may be reopened between the count of open
  predecessors and the change (`modules/work/application.py:2150`) is a legal state afterwards, so no
  state property tells it apart.
* In requests: comments, read receipts, carbon copies, and who may give which command.
* In extraction: newer parser versions, the catch-up of old indexes, drafts; parsing is data.
* In reports: editing and submitting a draft, the other nodes of the draft workflow, the direct
  generation without a job.
* In meetings: what a provider writes and the check of its references; the timers of the batches,
  agendas and memos, follow-ups after their promotion. `Made` drops the lineage
  of agendas and lines into a track that was rewritten meanwhile, as `surviving_lineage` does; it leaves
  out the `line_ids` a follow-up candidate carries, which are stored as the provider gave them
  (`modules/meetings/application.py:1009-1013`) and may name lines that are gone. No property is about them.
* In rooms: moving or cancelling the room of a meeting that exists (`_execute_room_plan` is serialised
  by a lock of one process only, and a crash between the meeting's commit and the booking is not
  repaired), a create that follows a cancellation, a new Idempotency-Key after a crash, the receipts of
  an edited proposal, and a commit that raises after it took effect.
* In replies: attachments, the inbox, sync and backfill, the relay cache.
* Two races that would need a module of their own: participation of a project joined and released by
  concurrent assignments (`modules/work/projects.py:294`), and the order in which `reopen` and a change
  of project lock a task and its parts (`modules/work/application.py:2224`), which the database would
  end as a deadlock by rolling one back.
* Search ranking, schedules and check lists are sequential computations. Connectors, entry points,
  seeds and the frontend hold no protocol of their own; a user is someone who issues any command on a
  current or a stale version.

Most of the implementation is of that last kind: request schemas, queries, projections, tool
descriptions, connectors and seed data. The definitions cover the command handlers and workers that hold
the protocols, less than a tenth of the lines.

## Plan

In the order of what a failure would cost:

1. `RoomBookings`: the rooms of meetings that exist already.
2. `WorkTasks`: the predecessor gate as an action property, projects of a subtree.
3. `MaterialExtraction`: parser upgrades.
4. `ExternalReplies`: sync cursor and inbox.
5. `ProjectParticipation` and `UserEventHub`.
