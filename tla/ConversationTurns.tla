------------------------- MODULE ConversationTurns -------------------------
(***************************************************************************)
(* One conversation, its turns, and the workers that answer them           *)
(* (platform/conversations.py, bootstrap/conversation_worker.py).          *)
(*                                                                         *)
(* Every command of the API and every write of a worker takes the row lock *)
(* of the conversation first, so a transaction is one step that maps the   *)
(* database to the database: the operators that take and return a database *)
(* d are the repository's methods, and a step composes those its handler   *)
(* calls.  Between its transactions a worker holds a leased job, a process *)
(* guard and a running provider call, and other steps interleave.          *)
(*                                                                         *)
(* The job of a turn is the row DurableJobs models, with its clock         *)
(* abstracted: a lease is live or expired, a released job is available     *)
(* again at any later time, and the token of a claim is its claimer, who   *)
(* has dropped every older claim.  Enqueues are serialised by the          *)
(* conversation's row lock, so jobs are claimed in the order of turns.     *)
(***************************************************************************)
EXTENDS Integers, Sequences, FiniteSets

CONSTANTS Keys,           \* idempotency keys of the messages a user sends
          Workers,        \* message slots of all conversation worker processes
          Nobody,         \* no worker
          QueueLimit,     \* messages that may wait behind an active turn
          MaxAttempts,    \* conversation_queue_max_attempts
          GuardMayBreak,  \* the guard's dedicated connection may die under a live worker
          MaxRetries,     \* bound: retry turns
          MaxFaults       \* bound: crashes, broken guards and leases lost by a live worker

ASSUME ConversationAssumption ==
    /\ IsFiniteSet(Keys) /\ IsFiniteSet(Workers)
    /\ Nobody \notin Workers
    /\ QueueLimit \in Nat /\ MaxAttempts \in Nat \ {0}
    /\ MaxRetries \in Nat /\ MaxFaults \in Nat
    /\ GuardMayBreak \in BOOLEAN

VARIABLES db,      \* the conversation's rows: messages, turns and jobs
          guard,   \* who holds the advisory lock of each turn's execution
          worker,  \* what each worker slot is doing, and for which turn
          faults   \* faults so far

vars == <<db, guard, worker, faults>>

Turns      == 1 .. Cardinality(Keys) + MaxRetries
ActiveTurn == {"pending", "running"}
TurnOver   == {"completed", "failed", "cancelled"}

\* A message, the turn it is input of (0: it waits), and the turns that got a copy of it.
Messages == [key : Keys, turn : Turns \cup {0}, copies : SUBSET Turns]
TurnRows == [state : {"none"} \cup ActiveTurn \cup TurnOver,
             attempts : 0 .. MaxAttempts + MaxFaults,
             retryOf : Turns \cup {0}]
JobRows  == [state : {"none", "queued", "running", "completed"},
             owner : Workers \cup {Nobody},
             live : BOOLEAN]
Database == [messages : Seq(Messages), turn : [Turns -> TurnRows], job : [Turns -> JobRows]]

NoTurn == [state |-> "none", attempts |-> 0, retryOf |-> 0]
NoJob  == [state |-> "none", owner |-> Nobody, live |-> FALSE]
Free   == [pc |-> "idle", turn |-> 0]

Init ==
    /\ db = [messages |-> <<>>,
             turn |-> [t \in Turns |-> NoTurn],
             job |-> [t \in Turns |-> NoJob]]
    /\ guard = [t \in Turns |-> Nobody]
    /\ worker = [w \in Workers |-> Free]
    /\ faults = 0

-----------------------------------------------------------------------------
(* The repository and the job queue, inside one transaction.               *)

ActiveTurns(d) == {t \in Turns : d.turn[t].state \in ActiveTurn}

QueuedMessages(d) == {i \in DOMAIN d.messages : d.messages[i].turn = 0}

NewestTurn(d) == Cardinality({t \in Turns : d.turn[t].state # "none"})

Pending(retryOf) == [state |-> "pending", attempts |-> 0, retryOf |-> retryOf]
Queued == [state |-> "queued", owner |-> Nobody, live |-> FALSE]

\* A new pending turn, its job and its input, in the same transaction.
StartTurn(d, retryOf, messages) ==
    LET t == NewestTurn(d) + 1
    IN  [d EXCEPT !.turn[t] = Pending(retryOf), !.job[t] = Queued, !.messages = messages]

\* The waiting messages become input of the next turn.
Taken(d) ==
    [i \in DOMAIN d.messages |->
        IF i \in QueuedMessages(d) THEN [d.messages[i] EXCEPT !.turn = NewestTurn(d) + 1]
        ELSE d.messages[i]]

\* Mutant: drain opens its turn without looking for an active one.
DrainAlways(d) ==
    IF QueuedMessages(d) = {} THEN d ELSE StartTurn(d, 0, Taken(d))

\* Mutant: drain takes the latest waiting message only.
DrainLatest(d) ==
    IF ActiveTurns(d) # {} \/ QueuedMessages(d) = {} THEN d
    ELSE StartTurn(d, 0,
             [i \in DOMAIN d.messages |->
                 IF \A j \in QueuedMessages(d) : j <= i
                 THEN [d.messages[i] EXCEPT !.turn = NewestTurn(d) + 1]
                 ELSE d.messages[i]])

\* Every waiting message becomes the input of one new turn, unless one is active.
Drain(d) ==
    IF ActiveTurns(d) # {} \/ QueuedMessages(d) = {} THEN d ELSE StartTurn(d, 0, Taken(d))

\* Mutant: the end of a turn does not look at the messages that wait.
SettleWithoutDrain(d, t, outcome) == [d EXCEPT !.turn[t].state = outcome]

\* complete and fail: the terminal state, then the messages that waited for it.
Settle(d, t, outcome) == Drain([d EXCEPT !.turn[t].state = outcome])

\* The claim of the job is still this worker's: the fence of DurableJobs.
Fenced(d, w, t) ==
    d.job[t].state = "running" /\ d.job[t].owner = w /\ d.job[t].live

\* archive and release write nothing when the lease is no longer the worker's.
Archive(d, w, t) ==
    IF Fenced(d, w, t)
    THEN [d EXCEPT !.job[t] = [Queued EXCEPT !.state = "completed"]]
    ELSE d

ReleaseJob(d, w, t) ==
    IF Fenced(d, w, t)
    THEN [d EXCEPT !.job[t] = Queued]
    ELSE d

-----------------------------------------------------------------------------
(* Commands of the user.                                                   *)

Sent(k) == \E i \in DOMAIN db.messages : db.messages[i].key = k

\* accept_fragment: a repeated key is answered with the first message, a full
\* queue refuses; behind an active turn drain leaves the message waiting.
Send(k) ==
    /\ ~Sent(k)
    /\ ActiveTurns(db) # {} => Cardinality(QueuedMessages(db)) < QueueLimit
    /\ db' = Drain([db EXCEPT !.messages = Append(@, [key |-> k, turn |-> 0, copies |-> {}])])
    /\ UNCHANGED <<guard, worker, faults>>

\* cancel_active, by a user who read the current version.  The messages that
\* wait are not drained.
Cancel ==
    \E t \in ActiveTurns(db) :
        /\ db' = [db EXCEPT !.turn[t].state = "cancelled"]
        /\ UNCHANGED <<guard, worker, faults>>

Retried(t) == \E r \in Turns : db.turn[r].retryOf = t

RetryTurns == {r \in Turns : db.turn[r].retryOf # 0}

Asks(d, i, t) == d.messages[i].turn = t \/ t \in d.messages[i].copies

\* The messages of t, or copies it got, are copied for the next turn.
Copied(d, t) ==
    [i \in DOMAIN d.messages |->
        IF Asks(d, i, t) THEN [d.messages[i] EXCEPT !.copies = @ \cup {NewestTurn(d) + 1}]
        ELSE d.messages[i]]

\* retry_turn: the retry key makes a second click return the first retry; the new
\* turn gets copies of the messages of the old one, which has to have some.
Retry(t) ==
    /\ db.turn[t].state \in {"failed", "cancelled"}
    /\ ~Retried(t)
    /\ ActiveTurns(db) = {}
    /\ Cardinality(RetryTurns) < MaxRetries
    /\ \E i \in DOMAIN db.messages : Asks(db, i, t)
    /\ db' = StartTurn(db, t, Copied(db, t))
    /\ UNCHANGED <<guard, worker, faults>>

-----------------------------------------------------------------------------
(* A worker slot: claim, guard, claim of the turn, provider call, result.  *)

OpenJob(t) == db.job[t].state \in {"queued", "running"}

HeadJob(t) == OpenJob(t) /\ \A e \in Turns : e < t => ~OpenJob(e)

\* _read_batch: the head of the conversation, released or with a lost lease.
ReadBatch(w) ==
    \E t \in Turns :
        /\ worker[w] = Free
        /\ HeadJob(t)
        /\ db.job[t].state = "queued" \/ ~db.job[t].live
        /\ db' = [db EXCEPT !.job[t] = [state |-> "running", owner |-> w, live |-> TRUE]]
        /\ worker' = [worker EXCEPT ![w] = [pc |-> "claimed", turn |-> t]]
        /\ UNCHANGED <<guard, faults>>

\* Mutant: the worker goes on without the process guard.
EnterWithoutGuard(w) ==
    /\ worker[w].pc = "claimed"
    /\ guard' = [guard EXCEPT ![worker[w].turn] = w]
    /\ worker' = [worker EXCEPT ![w].pc = "guarded"]
    /\ UNCHANGED <<db, faults>>

\* _execute takes the advisory lock of the execution.  While a live worker
\* holds it, the job is handed back and the provider is not called.
EnterGuard(w) ==
    LET t == worker[w].turn
    IN  /\ worker[w].pc = "claimed"
        /\ \/ /\ guard[t] = Nobody
              /\ guard' = [guard EXCEPT ![t] = w]
              /\ worker' = [worker EXCEPT ![w].pc = "guarded"]
              /\ UNCHANGED db
           \/ /\ guard[t] # Nobody
              /\ db' = ReleaseJob(db, w, t)
              /\ worker' = [worker EXCEPT ![w] = Free]
              /\ UNCHANGED guard
        /\ UNCHANGED faults

\* Mutant: the lock outlives its holder on a connection that is reused.
LeaveGuardLocked(w) ==
    /\ worker' = [worker EXCEPT ![w] = Free]
    /\ UNCHANGED guard

\* The slot lets go of its guard, unless the connection had died before.
LeaveGuard(w) ==
    /\ guard' = [t \in Turns |-> IF guard[t] = w THEN Nobody ELSE guard[t]]
    /\ worker' = [worker EXCEPT ![w] = Free]

\* _claim_message: a turn that is over finalises the job; an owner or context
\* without authority fails the turn; otherwise the turn runs, one attempt more.
ClaimExecution(w) ==
    LET t == worker[w].turn
    IN  /\ worker[w].pc = "guarded"
        /\ \/ /\ db.turn[t].state \in TurnOver
              /\ db' = Archive(db, w, t)
              /\ LeaveGuard(w)
           \/ /\ db.turn[t].state \in ActiveTurn
              /\ db' = Archive(Settle(db, t, "failed"), w, t)
              /\ LeaveGuard(w)
           \/ /\ db.turn[t].state \in ActiveTurn
              /\ db' = [db EXCEPT !.turn[t].state = "running", !.turn[t].attempts = @ + 1]
              /\ worker' = [worker EXCEPT ![w].pc = "calling"]
              /\ UNCHANGED guard
        /\ UNCHANGED faults

\* Mutant: the answer of a late call overwrites the turn.
CompleteAnyState(w) ==
    LET t == worker[w].turn
    IN  /\ worker[w].pc = "calling"
        /\ db' = Archive(Settle(db, t, "completed"), w, t)
        /\ LeaveGuard(w)
        /\ UNCHANGED faults

\* _complete: the domain result only for a running turn; the fenced archive in
\* the same transaction, whose result nobody looks at.
Complete(w) ==
    LET t == worker[w].turn
    IN  /\ worker[w].pc = "calling"
        /\ db' = Archive(IF db.turn[t].state = "running" THEN Settle(db, t, "completed") ELSE db, w, t)
        /\ LeaveGuard(w)
        /\ UNCHANGED faults

\* Mutant: the budget counts a failure more than it allows.
HandleFailureOffByOne(w, invalid) ==
    LET t == worker[w].turn
    IN  /\ worker[w].pc = "calling"
        /\ db' = IF db.turn[t].state \in TurnOver THEN Archive(db, w, t)
                 ELSE IF invalid \/ db.turn[t].attempts > MaxAttempts
                 THEN Archive(Settle(db, t, "failed"), w, t)
                 ELSE ReleaseJob(db, w, t)
        /\ LeaveGuard(w)
        /\ UNCHANGED faults

\* _handle_failure: a turn that is over, an invalid answer or an exhausted
\* budget end the job; anything else hands it back for a later attempt.  (The
\* provider reports a cancellation only when the turn is cancelled already.)
HandleFailure(w, invalid) ==
    LET t == worker[w].turn
    IN  /\ worker[w].pc = "calling"
        /\ \/ /\ db.turn[t].state \in TurnOver
              /\ db' = Archive(db, w, t)
           \/ /\ db.turn[t].state \in ActiveTurn
              /\ invalid \/ db.turn[t].attempts >= MaxAttempts
              /\ db' = Archive(Settle(db, t, "failed"), w, t)
           \/ /\ db.turn[t].state \in ActiveTurn
              /\ ~invalid /\ db.turn[t].attempts < MaxAttempts
              /\ db' = ReleaseJob(db, w, t)
        /\ LeaveGuard(w)
        /\ UNCHANGED faults

-----------------------------------------------------------------------------
(* Faults.                                                                 *)

\* The process dies, or an exception that is no provider failure leaves the
\* handler: the job stays leased, the guard's connection closes.
Crash(w) ==
    /\ worker[w] # Free
    /\ faults < MaxFaults
    /\ faults' = faults + 1
    /\ LeaveGuard(w)
    /\ UNCHANGED db

\* The guard's connection dies under a live worker.
BreakGuard(w) ==
    /\ GuardMayBreak
    /\ faults < MaxFaults
    /\ \E t \in Turns : guard[t] = w
    /\ faults' = faults + 1
    /\ guard' = [t \in Turns |-> IF guard[t] = w THEN Nobody ELSE guard[t]]
    /\ UNCHANGED <<db, worker>>

Abandoned(t) == \A w \in Workers : db.job[t].owner = w => worker[w].turn # t

\* A lease runs out: freely when its claimer is gone, and as a fault when a
\* slow claimer still works.
LeaseExpires(t) ==
    /\ db.job[t].state = "running" /\ db.job[t].live
    /\ \/ Abandoned(t) /\ UNCHANGED faults
       \/ ~Abandoned(t) /\ faults < MaxFaults /\ faults' = faults + 1
    /\ db' = [db EXCEPT !.job[t].live = FALSE]
    /\ UNCHANGED <<guard, worker>>

UserStep ==
    \/ \E k \in Keys : Send(k)
    \/ Cancel
    \/ \E t \in Turns : Retry(t)

Handle(w) ==
    \/ EnterGuard(w)
    \/ ClaimExecution(w)
    \/ Complete(w)
    \/ \E invalid \in BOOLEAN : HandleFailure(w, invalid)

Next ==
    \/ UserStep
    \/ \E w \in Workers : ReadBatch(w) \/ Handle(w) \/ Crash(w) \/ BreakGuard(w)
    \/ \E t \in Turns : LeaseExpires(t)

Spec == Init /\ [][Next]_vars

\* Workers poll; a handler that lives goes on, and its provider call ends by
\* its timeout; the lease of a claimer that is gone runs out.
Fairness ==
    /\ \A w \in Workers : WF_vars(ReadBatch(w)) /\ WF_vars(Handle(w))
    /\ \A t \in Turns : WF_vars(Abandoned(t) /\ LeaseExpires(t))

FairSpec == Spec /\ Fairness

-----------------------------------------------------------------------------
(* Properties.                                                             *)

\* Every row, guard and slot keeps its type.
TypeOK ==
    /\ db \in Database
    /\ guard \in [Turns -> Workers \cup {Nobody}]
    /\ worker \in [Workers -> [pc : {"idle", "claimed", "guarded", "calling"},
                               turn : Turns \cup {0}]]
    /\ faults \in 0 .. MaxFaults

\* A conversation never has two active turns, so the partial unique index is
\* never hit: sends, retries, drains and cancellations keep it by themselves.
OneActiveTurn == Cardinality(ActiveTurns(db)) <= 1

\* While no guard breaks, one provider call runs per conversation at a time,
\* though leases are lost, turns are cancelled and new turns wait behind them.
OneProviderCall ==
    \A v, w \in Workers : worker[v].pc = "calling" /\ worker[w].pc = "calling" => v = w

\* What the user wrote is answered in the order it was written: an earlier
\* message never belongs to a later turn than a later message, and none waits
\* behind a message that was taken.
AnsweredInOrder ==
    \A i, j \in DOMAIN db.messages :
        /\ i < j
        /\ db.messages[j].turn # 0
        => db.messages[i].turn \in 1 .. db.messages[j].turn

\* No late answer, failure, retry or redelivery changes a turn that is over.
OutcomeIsFinal ==
    [][\A t \in Turns : db.turn[t].state \in TurnOver => db'.turn[t] = db.turn[t]]_vars

\* Every turn ends: after faults, through redeliveries and retries of its job.
EveryTurnEnds ==
    \A t \in Turns : t \in ActiveTurns(db) ~> t \notin ActiveTurns(db)

\* A message that waits is taken into a turn, unless a cancellation holds it.
EveryMessageIsTakenOrHeld ==
    \A i \in 1 .. Cardinality(Keys) :
        i \in QueuedMessages(db) ~>
            \/ i \notin QueuedMessages(db)
            \/ ActiveTurns(db) = {} /\ db.turn[NewestTurn(db)].state = "cancelled"

\* What the user sees of the rows.
Said(d) == [i \in DOMAIN d.messages |-> [key |-> d.messages[i].key, turn |-> d.messages[i].turn]]

Shown(d) ==
    [t \in Turns |-> [state |-> IF d.turn[t].state \in ActiveTurn THEN "active" ELSE d.turn[t].state,
                      retryOf |-> d.turn[t].retryOf]]

Promise == INSTANCE AnsweredMessages WITH message <- Said(db), turn <- Shown(db)

\* Sends, cancellations, retries and whatever happens between a worker's transactions
\* show the user one turn after the other, each with all that waited for it.
ImplementsAnsweredMessages == Promise!Spec
=============================================================================
