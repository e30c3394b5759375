---------------------------- MODULE DurableJobs ----------------------------
(***************************************************************************)
(* The durable job transport: one PostgreSQL table, enqueued inside the    *)
(* caller's READ COMMITTED transaction and claimed with FOR UPDATE SKIP    *)
(* LOCKED under a lease and a fencing token (platform/durable_jobs.py).    *)
(*                                                                         *)
(* Every statement filters on one job kind, so the module is one kind.  A  *)
(* row is named by the value of its Identity column "sequence"; each       *)
(* column the code reads is a function over those names.  Time is kept     *)
(* relative to now(): "left" is lease_expires_at - now(), "wait" is        *)
(* available_at - now(), and Tick moves now() by one unit.                 *)
(***************************************************************************)
EXTENDS Integers

CONSTANTS MaxSeq,           \* bound: values the Identity column may hand out
          OrderingKeys,     \* values of durable_jobs.ordering_key
          IdempotencyKeys,  \* values of durable_jobs.idempotency_key
          OrderOf,          \* the ordering key every caller derives with an idempotency key
          LockedKeys,       \* keys whose enqueuers hold one row lock from before the insert to commit
          Callers,          \* transactions that enqueue
          Workers,          \* claim holders: one in-flight message each
          LeaseSeconds,     \* visibility timeout of a claim
          MaxTxn,           \* longest time from the start of a transaction to its fenced write
          MaxDelay,         \* bound: longest release delay
          MaxAttempts       \* bound: claims of one row

ASSUME BoundsAssumption ==
    /\ MaxSeq \in Nat /\ MaxAttempts \in Nat /\ MaxDelay \in Nat
    /\ LeaseSeconds \in Nat \ {0} /\ MaxTxn \in Nat
ASSUME KeysAssumption ==
    /\ OrderOf \in [IdempotencyKeys -> OrderingKeys]
    /\ LockedKeys \subseteq OrderingKeys
    /\ IdempotencyKeys # {}

VARIABLES state,     \* durable_jobs.state, with rows no transaction has made visible
          idem,      \* durable_jobs.idempotency_key
          attempts,  \* durable_jobs.attempt_count
          token,     \* durable_jobs.lease_token: the attempt it was drawn for, 0 for NULL
          left,      \* lease_expires_at - now()
          wait,      \* available_at - now()
          nextSeq,   \* the next value of the Identity sequence
          caller,    \* where each enqueuing transaction stands
          held       \* the claim each worker believes it holds

rowVars == <<state, idem, attempts, token, left, wait>>
vars    == <<state, idem, attempts, token, left, wait, nextSeq, caller, held>>

Seqs      == 1 .. MaxSeq
Active    == {"queued", "running"}
Terminal  == {"completed", "failed"}
RowStates == {"absent", "uncommitted", "rolled_back"} \cup Active \cup Terminal
CallerPCs == {"idle", "lookup", "insert", "reselect", "done"}

NoLease == [job |-> 0, token |-> 0]
Leases  == [job : 0 .. MaxSeq, token : 0 .. MaxAttempts]
CallerStates == [pc : CallerPCs, idem : IdempotencyKeys, seq : 0 .. MaxSeq]

\* What a row that does not exist and a caller that does nothing stand at.
AnyKey == CHOOSE k \in IdempotencyKeys : TRUE

Idle == [pc |-> "idle", idem |-> AnyKey, seq |-> 0]

KeyOf(s) == OrderOf[idem[s]]
InFlight(c) == caller[c].pc # "idle"
CallerKey(c) == OrderOf[caller[c].idem]

Init ==
    /\ state = [s \in Seqs |-> "absent"]
    /\ idem = [s \in Seqs |-> AnyKey]
    /\ attempts = [s \in Seqs |-> 0]
    /\ token = [s \in Seqs |-> 0]
    /\ left = [s \in Seqs |-> 0]
    /\ wait = [s \in Seqs |-> 0]
    /\ nextSeq = 1
    /\ caller = [c \in Callers |-> Idle]
    /\ held = [w \in Workers |-> NoLease]

-----------------------------------------------------------------------------
(* Enqueue: three statements of the caller's transaction, then its end.    *)

\* The transaction goes on to its next statement, with the row it answers for.
Goto(c, pc, seq) ==
    caller' = [caller EXCEPT ![c] = [pc |-> pc, idem |-> caller[c].idem, seq |-> seq]]

\* A transaction that will enqueue opens.  The caller of a locked key already
\* holds the row lock of its aggregate (the conversation row, FOR UPDATE).
BeginEnqueue(c, k) ==
    /\ ~InFlight(c)
    /\ OrderOf[k] \in LockedKeys =>
           \A d \in Callers : InFlight(d) => CallerKey(d) # OrderOf[k]
    /\ caller' = [caller EXCEPT ![c] = [pc |-> "lookup", idem |-> k, seq |-> 0]]
    /\ UNCHANGED <<rowVars, nextSeq, held>>

ActiveWith(k) == {s \in Seqs : state[s] \in Active /\ idem[s] = k}

\* The first SELECT: an active row of the key is the answer; otherwise the
\* INSERT starts and draws its sequence value, which no rollback gives back.
LookUp(c) ==
    /\ caller[c].pc = "lookup"
    /\ \/ \E s \in ActiveWith(caller[c].idem) :
              /\ Goto(c, "done", s)
              /\ UNCHANGED nextSeq
       \/ /\ ActiveWith(caller[c].idem) = {}
          /\ nextSeq <= MaxSeq
          /\ Goto(c, "insert", nextSeq)
          /\ nextSeq' = nextSeq + 1
    /\ UNCHANGED <<rowVars, held>>

\* Another transaction's uncommitted row of the key makes the INSERT wait for
\* that transaction; a committed active row makes it insert nothing.
Insert(c) ==
    LET k == caller[c].idem
        s == caller[c].seq
    IN  /\ caller[c].pc = "insert"
        /\ \A e \in Seqs : ~(state[e] = "uncommitted" /\ idem[e] = k)
        /\ \/ /\ ActiveWith(k) # {}
              /\ Goto(c, "reselect", 0)
              /\ UNCHANGED rowVars
           \/ /\ ActiveWith(k) = {}
              /\ state' = [state EXCEPT ![s] = "uncommitted"]
              /\ idem' = [idem EXCEPT ![s] = k]
              /\ Goto(c, "done", s)
              /\ UNCHANGED <<attempts, token, left, wait>>
        /\ UNCHANGED <<nextSeq, held>>

\* The SELECT of the winner; when it reached a terminal state in between,
\* enqueue calls itself again.
Reselect(c) ==
    /\ caller[c].pc = "reselect"
    /\ \/ \E s \in ActiveWith(caller[c].idem) :
              Goto(c, "done", s)
       \/ /\ ActiveWith(caller[c].idem) = {}
          /\ Goto(c, "lookup", 0)
    /\ UNCHANGED <<rowVars, nextSeq, held>>

\* The row the caller inserted itself, if it did.
Owns(c, s) == caller[c].pc = "done" /\ caller[c].seq = s /\ state[s] = "uncommitted"

EndTransaction(c, outcome) ==
    /\ state' = [s \in Seqs |-> IF Owns(c, s) THEN outcome ELSE state[s]]
    /\ caller' = [caller EXCEPT ![c] = Idle]
    /\ UNCHANGED <<idem, attempts, token, left, wait, nextSeq, held>>

\* available_at is the transaction's own now(): the row is available at once.
Commit(c) ==
    /\ caller[c].pc = "done"
    /\ EndTransaction(c, "queued")

\* The caller's transaction rolls back, or its process dies, at any point.
Rollback(c) ==
    /\ InFlight(c)
    /\ EndTransaction(c, "rolled_back")

-----------------------------------------------------------------------------
(* Claim: one statement.  A batch of heads of distinct keys is a sequence  *)
(* of single claims, because no claim changes which rows are active.       *)

\* Mutant: only a queued row blocks the later ones of its key.
BlockedByQueued(s) ==
    \E e \in Seqs : e < s /\ state[e] = "queued" /\ KeyOf(e) = KeyOf(s)

Blocked(s) ==
    \E e \in Seqs : e < s /\ state[e] \in Active /\ KeyOf(e) = KeyOf(s)

\* Mutant: an expired lease is never taken over.
DueWhenQueued(s) == state[s] = "queued" /\ wait[s] <= 0

Due(s) ==
    \/ state[s] = "queued" /\ wait[s] <= 0
    \/ state[s] = "running" /\ left[s] <= 0

Eligible(s) == state[s] \in Active /\ ~Blocked(s) /\ Due(s)

Claim(w, s) ==
    /\ held[w] = NoLease
    /\ Eligible(s)
    /\ attempts[s] < MaxAttempts
    /\ state' = [state EXCEPT ![s] = "running"]
    /\ attempts' = [attempts EXCEPT ![s] = @ + 1]
    /\ token' = [token EXCEPT ![s] = attempts[s] + 1]
    /\ left' = [left EXCEPT ![s] = LeaseSeconds]
    /\ held' = [held EXCEPT ![w] = [job |-> s, token |-> attempts[s] + 1]]
    /\ UNCHANGED <<idem, wait, nextSeq, caller>>

-----------------------------------------------------------------------------
(* Fenced writes.  now() is the start of the writer's transaction, so the  *)
(* expiry test is made against a time up to MaxTxn units ago: "age".       *)

\* The ages a fenced writer's transaction may have: it started after the claim
\* or the heartbeat that set the lease.
TxnAges(s) == {a \in 0 .. MaxTxn : left[s] + a <= LeaseSeconds}

\* Mutant: the fence forgets the token.
FencedByState(w, age) ==
    LET s == held[w].job
    IN  state[s] = "running" /\ left[s] + age > 0

Fenced(w, age) ==
    LET s == held[w].job
    IN  /\ token[s] = held[w].token
        /\ state[s] = "running"
        /\ left[s] + age > 0

\* complete, release and fail: a row of the current lease leaves "running" and
\* loses its lease columns; zero rows means the lease is stale, and the worker
\* drops the message either way.
LeaveRunning(w, age, next, delay) ==
    LET s == held[w].job
    IN  /\ \/ /\ Fenced(w, age)
              /\ state' = [state EXCEPT ![s] = next]
              /\ token' = [token EXCEPT ![s] = 0]
              /\ left' = [left EXCEPT ![s] = 0]
              /\ wait' = [wait EXCEPT ![s] = delay]
           \/ /\ ~Fenced(w, age)
              /\ UNCHANGED <<state, token, left, wait>>
        /\ held' = [held EXCEPT ![w] = NoLease]
        /\ UNCHANGED <<idem, attempts, nextSeq, caller>>

Holding(w) == held[w] # NoLease

Complete(w) ==
    /\ Holding(w)
    /\ \E a \in TxnAges(held[w].job) : LeaveRunning(w, a, "completed", 0)

Fail(w) ==
    /\ Holding(w)
    /\ \E a \in TxnAges(held[w].job) : LeaveRunning(w, a, "failed", 0)

Release(w) ==
    /\ Holding(w)
    /\ \E a \in TxnAges(held[w].job), d \in 0 .. MaxDelay : LeaveRunning(w, a, "queued", d)

\* Mutant: the heartbeat adds to the old expiry instead of to now().
ExtendLeaseFromExpiry(w) ==
    LET s == held[w].job
    IN  /\ Holding(w)
        /\ \E a \in TxnAges(s) : Fenced(w, a)
        /\ left' = [left EXCEPT ![s] = @ + LeaseSeconds]
        /\ UNCHANGED <<state, idem, attempts, token, wait, nextSeq, caller, held>>

\* The heartbeat: a lost lease is not re-acquired, and the worker goes on.
ExtendLease(w) ==
    LET s == held[w].job
    IN  /\ Holding(w)
        /\ \E a \in TxnAges(s) :
               /\ Fenced(w, a)
               /\ left' = [left EXCEPT ![s] = LeaseSeconds - a]
        /\ UNCHANGED <<state, idem, attempts, token, wait, nextSeq, caller, held>>

\* The worker process dies, or an exception drops the message with its lease.
Crash(w) ==
    /\ Holding(w)
    /\ held' = [held EXCEPT ![w] = NoLease]
    /\ UNCHANGED <<rowVars, nextSeq, caller>>

-----------------------------------------------------------------------------
\* An expired lease stays distinguishable for as long as a transaction that
\* started before it expired may still write; then the count rests.
Elapsed(n) == IF n > -MaxTxn THEN n - 1 ELSE n

Tick ==
    /\ left' = [s \in Seqs |-> IF state[s] = "running" THEN Elapsed(left[s]) ELSE left[s]]
    /\ wait' = [s \in Seqs |-> IF wait[s] > 0 THEN wait[s] - 1 ELSE 0]
    /\ UNCHANGED <<state, idem, attempts, token, nextSeq, caller, held>>

CallerStep(c) ==
    \/ \E k \in IdempotencyKeys : BeginEnqueue(c, k)
    \/ LookUp(c)
    \/ Insert(c)
    \/ Reselect(c)
    \/ Commit(c)
    \/ Rollback(c)

Finish(w) == Complete(w) \/ Fail(w) \/ Release(w)

WorkerStep(w) ==
    \/ \E s \in Seqs : Claim(w, s)
    \/ Finish(w)
    \/ ExtendLease(w)
    \/ Crash(w)

Next ==
    \/ \E c \in Callers : CallerStep(c)
    \/ \E w \in Workers : WorkerStep(w)
    \/ Tick

Spec == Init /\ [][Next]_vars

\* Time passes, workers poll, and a provider call ends (its timeout sees to
\* that) or its worker dies.  Nothing is asked of callers or of heartbeats.
Fairness ==
    /\ WF_vars(Tick)
    /\ \A w \in Workers :
           /\ WF_vars(\E s \in Seqs : Claim(w, s))
           /\ WF_vars(Finish(w) \/ Crash(w))

FairSpec == Spec /\ Fairness

-----------------------------------------------------------------------------
(* Properties.                                                             *)

\* Every column keeps its type.
TypeOK ==
    /\ state \in [Seqs -> RowStates]
    /\ idem \in [Seqs -> IdempotencyKeys]
    /\ attempts \in [Seqs -> 0 .. MaxAttempts]
    /\ token \in [Seqs -> 0 .. MaxAttempts]
    /\ left \in [Seqs -> -MaxTxn .. LeaseSeconds]
    /\ wait \in [Seqs -> 0 .. MaxDelay]
    /\ nextSeq \in 1 .. MaxSeq + 1
    /\ caller \in [Callers -> CallerStates]
    /\ held \in [Workers -> Leases]

\* Two open rows never carry one idempotency key, whichever transactions raced
\* to enqueue it, visible or not (the partial unique index and enqueue's wait).
OneOpenPerIdempotencyKey ==
    \A s, e \in Seqs :
        /\ state[s] \in Active \cup {"uncommitted"}
        /\ state[e] \in Active \cup {"uncommitted"}
        /\ idem[s] = idem[e]
        => s = e

\* FIFO of a locked key: once a job was claimed, no earlier job of its key is
\* open or will ever be: sequence order is commit order where the enqueuers of
\* the key exclude each other.  It is what makes the head of the key unique.
StartsAfterEarlierOver ==
    \A e, s \in Seqs :
        /\ e < s /\ state[e] # "absent"
        /\ KeyOf(e) = KeyOf(s) /\ KeyOf(s) \in LockedKeys
        /\ attempts[s] > 0
        => state[e] \in Terminal \cup {"rolled_back"}

\* At most one job of a locked key is running, live lease or expired one.
OneRunningPerLockedKey ==
    \A e, s \in Seqs :
        /\ state[e] = "running" /\ state[s] = "running"
        /\ KeyOf(e) = KeyOf(s) /\ KeyOf(s) \in LockedKeys
        => e = s

\* Only one worker can hold the lease a running row carries: every other claim
\* of the row that a worker still remembers is stale.
OneCurrentHolder ==
    \A v, w \in Workers :
        /\ held[v] # NoLease /\ held[v] = held[w]
        /\ state[held[w].job] = "running" /\ token[held[w].job] = held[w].token
        => v = w

\* A leased row is taken from its holder only when the lease ran out, and it
\* reaches a terminal or queued state only by the worker that holds its current
\* token, while nobody has reclaimed it (the promise of the port's docstring).
LeaseRespected ==
    [][\A s \in Seqs :
          /\ state[s] = "running"
          /\ token'[s] # token[s]
          => \/ state'[s] = "running" /\ left[s] <= 0
             \/ \E w \in Workers : /\ held[w] = [job |-> s, token |-> token[s]]
                                   /\ held'[w] = NoLease
                                   /\ left[s] > -MaxTxn]_vars

\* A completed or failed row is never changed again, whatever late claims,
\* heartbeats and releases of its former holders still arrive.
TerminalIsFinal ==
    [][\A s \in Seqs :
          state[s] \in Terminal =>
              /\ state'[s] = state[s] /\ idem'[s] = idem[s]
              /\ attempts'[s] = attempts[s] /\ token'[s] = token[s]]_vars

Head(s) == state[s] \in Active /\ ~Blocked(s)

\* The head of a key never rests: after any crash, release or lost lease it is
\* claimed again, it ends, or an earlier row becomes the head.
HeadIsServed ==
    \A s \in Seqs, n \in 0 .. MaxAttempts - 1 :
        (Head(s) /\ attempts[s] = n) ~> ~(Head(s) /\ attempts[s] = n)

-----------------------------------------------------------------------------
(* The promise, and how the table keeps it.                                *)

\* A row no transaction made visible is no job yet; a released row was
\* delivered once and may be delivered again.
DeliveryStatus(s) ==
    CASE state[s] \in {"absent", "uncommitted", "rolled_back"} -> "unknown"
      [] state[s] \in Terminal                                 -> "over"
      [] state[s] \in Active /\ attempts[s] = 0                -> "accepted"
      [] state[s] \in Active /\ attempts[s] > 0                -> "delivered"

DeliveryKey(s) == IF DeliveryStatus(s) = "unknown" THEN OrderOf[AnyKey] ELSE KeyOf(s)

Delivery == INSTANCE OrderedDelivery WITH
    Jobs    <- Seqs,
    Keys    <- OrderingKeys,
    Ordered <- LockedKeys,
    NoKey   <- OrderOf[AnyKey],
    status  <- [s \in Seqs |-> DeliveryStatus(s)],
    key     <- [s \in Seqs |-> DeliveryKey(s)]

\* The table, its leases and its races implement ordered at-least-once delivery.
ImplementsOrderedDelivery == Delivery!Spec

-----------------------------------------------------------------------------
(* The inductive invariant the proofs use: what the enqueuing transactions *)
(* keep of sequence order, and what the claims keep of the lease columns.  *)

Exists(s) == state[s] # "absent"

\* Values of the Identity column are handed out once, and used at most once.
SequenceInv ==
    /\ \A s \in Seqs : Exists(s) => s < nextSeq
    /\ \A c \in Callers : caller[c].pc = "insert" =>
           /\ caller[c].seq \in Seqs
           /\ caller[c].seq < nextSeq
           /\ ~Exists(caller[c].seq)
    /\ \A c, d \in Callers :
           /\ caller[c].pc = "insert" /\ caller[d].pc = "insert"
           /\ caller[c].seq = caller[d].seq
           => c = d

\* The row lock of a locked key, and the transaction behind an invisible row.
LockInv ==
    /\ \A c, d \in Callers :
           InFlight(c) /\ InFlight(d) /\ CallerKey(c) = CallerKey(d) /\ CallerKey(c) \in LockedKeys
           => c = d
    /\ \A s \in Seqs : state[s] = "uncommitted" =>
           \E c \in Callers : Owns(c, s) /\ caller[c].idem = idem[s]

\* Under a lock the newest sequence of a key belongs to whoever is inserting.
NewestInv ==
    /\ \A c \in Callers, s \in Seqs :
           /\ caller[c].pc = "insert" /\ Exists(s)
           /\ KeyOf(s) = CallerKey(c) /\ KeyOf(s) \in LockedKeys
           => s < caller[c].seq
    /\ \A e, s \in Seqs :
           /\ state[e] = "uncommitted" /\ Exists(s)
           /\ KeyOf(s) = KeyOf(e) /\ KeyOf(s) \in LockedKeys
           => s <= e

\* A row carries a lease exactly while it runs, under its latest attempt.
LeaseInv ==
    \A s \in Seqs :
        /\ state[s] = "running" => attempts[s] > 0 /\ token[s] = attempts[s]
        /\ state[s] # "running" => token[s] = 0
        /\ state[s] \in {"absent", "uncommitted", "rolled_back"} => attempts[s] = 0
        /\ state[s] \in Terminal => attempts[s] > 0

\* No two claims of a row are alike, and none is younger than the row.
HolderInv ==
    /\ \A w \in Workers : Holding(w) =>
           /\ held[w].job \in Seqs
           /\ held[w].token \in 1 .. attempts[held[w].job]
    /\ \A v, w \in Workers : Holding(v) /\ held[v] = held[w] => v = w

Inv ==
    /\ TypeOK
    /\ SequenceInv
    /\ LockInv
    /\ NewestInv
    /\ LeaseInv
    /\ HolderInv
    /\ OneOpenPerIdempotencyKey
    /\ StartsAfterEarlierOver
=============================================================================
