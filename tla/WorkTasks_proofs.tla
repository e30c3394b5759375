--------------------------- MODULE WorkTasks_proofs ---------------------------
(***************************************************************************)
(* Proofs about WorkTasks, for every set of tasks and sessions and every   *)
(* bound on versions.                                                      *)
(*                                                                         *)
(* Each theorem lets every command overlap every other one, but for those  *)
(* that read or write rows they have not locked and whose overlap breaks   *)
(* what the theorem says.  There are two invariants.  One is about rows    *)
(* and pictures: it says what a transaction in flight knows of the rows,   *)
(* that what it has checked under its lock is still so when it writes.     *)
(* The other is about cycles and needs little of the first.                *)
(***************************************************************************)
EXTENDS WorkTasks, TLAPS

-----------------------------------------------------------------------------
(* The inductive invariant.                                                *)

\* The commands that write a version they counted from an unlocked read run alone ...
VersionsAreOrdered == Overlapping \cap {"add", "decide"} = {}

\* ... and so do those that change where a task belongs; what is finished is not restarted.
PartsAreOrdered == "move" \notin Overlapping /\ Restarts = FALSE

Over == {"done", "completion_submitted"}

\* Versions count the changes, rounds count the reports, and only reports that were
\* handed in are accepted.
RowIsSound(t) ==
    /\ row[t].version <= MaxVersion[t]
    /\ row[t].round < row[t].version
    /\ \A r \in row[t].accepted : r <= row[t].round
    /\ row[t].state = "completion_submitted" =>
          t \in Requested /\ row[t].round # 0 /\ row[t].round \notin row[t].accepted
    /\ row[t].parent # Nothing => Born(row[t].parent)
    /\ ~Born(t) => row[t] = Unborn

\* The current version has its picture, and no later one has any.
PictureIsSound(t) ==
    /\ Born(t) => picture[t][row[t].version] = row[t].state
    /\ \A v \in Versions : ~Born(t) \/ v > row[t].version => picture[t][v] = "none"

PartsAreSettled(p) == \A c \in Children(p) : Settled(c)

\* The row of the task is locked, exists, and has room for a version.
Holds(s, t) == t \in Tasks /\ Born(t) /\ lock[t] = s /\ row[t].version < MaxVersion[t]

\* What each command in flight knows.
KnowsOfChange(s) ==
    LET t == txn[s].task
    IN  txn[s].cmd = "change" =>
          /\ Holds(s, t) /\ txn[s].target \in Allowed[row[t].state]
          /\ txn[s].target \in {"done", "cancelled"} => t \notin Requested
          /\ PartsAreOrdered => row[t].state # "done" /\ (txn[s].target = "done" => PartsAreSettled(t))

KnowsOfAgree(s) ==
    txn[s].cmd = "agree" => Holds(s, txn[s].task) /\ txn[s].target = "cancelled"

KnowsOfReport(s) ==
    LET t == txn[s].task
    IN  txn[s].cmd = "report" =>
          Holds(s, t) /\ t \in Requested /\ row[t].state \in {"in_progress", "blocked"}

KnowsOfReopen(s) ==
    LET t == txn[s].task
        p == row[t].parent
    IN  txn[s].cmd = "reopen" =>
          /\ Holds(s, t) /\ row[t].state \in Over /\ txn[s].other \in {Nothing, p}
          /\ txn[s].other = Nothing /\ p # Nothing => lock[p] = s /\ row[p].state \notin Over

KnowsOfMove(s) ==
    LET p == txn[s].other
    IN  txn[s].cmd = "move" =>
          /\ Holds(s, txn[s].task)
          /\ p # Nothing => /\ p \in Tasks /\ Born(p)
                            /\ PartsAreOrdered => row[p].state # "done"

KnowsOfOrder(s) == txn[s].cmd = "order" => Holds(s, txn[s].task)

KnowsOfAdd(s) ==
    LET p == txn[s].other
    IN  txn[s].cmd = "add" =>
          /\ txn[s].task \in Tasks /\ ~Born(txn[s].task)
          /\ p # Nothing => /\ p \in Tasks /\ Born(p) /\ row[p].state # "done"
                            /\ row[p].version < MaxVersion[p] /\ txn[s].seen = row[p].version
                            /\ txn[s].target = row[p].state

KnowsOfDecide(s) ==
    LET t == txn[s].task
    IN  txn[s].cmd = "decide" =>
          /\ t \in Tasks /\ row[t].state = "completion_submitted" /\ row[t].version < MaxVersion[t]
          /\ txn[s].seen = row[t].version /\ txn[s].round = row[t].round
          /\ txn[s].target \in {"done", "in_progress"}
          /\ txn[s].target = "done" => PartsAreSettled(t)

Knows(s) ==
    /\ KnowsOfChange(s) /\ KnowsOfAgree(s) /\ KnowsOfReport(s) /\ KnowsOfReopen(s)
    /\ KnowsOfMove(s) /\ KnowsOfOrder(s) /\ KnowsOfAdd(s) /\ KnowsOfDecide(s)

\* A command that does not overlap others runs alone.
RunsAlone(s) == txn[s].cmd \notin Overlapping \cup {"none"} => \A r \in Sessions \ {s} : txn[r].cmd = "none"

IndInv ==
    /\ TypeOK
    /\ \A t \in Tasks : RowIsSound(t) /\ PictureIsSound(t)
    /\ \A s \in Sessions : RunsAlone(s) /\ Knows(s)
    /\ PartsAreOrdered => DoneTaskHasNoOpenPart

-----------------------------------------------------------------------------
(* Steps that lock and read.                                               *)

\* Versions are positive, and those a task may have are known.
LEMMA VersionFacts ==
  /\ \A t \in Tasks : MaxVersion[t] \in Nat /\ MaxVersion[t] > 0
  /\ \A v \in Versions : v \in Nat /\ v > 0
  /\ \A t \in Tasks : \A v \in Nat : v > 0 /\ v <= MaxVersion[t] => v \in Versions
<1>1. \A t \in Tasks : MaxVersion[t] \in Nat /\ MaxVersion[t] > 0
  BY TasksAssumption
<1> QED BY <1>1 DEF Versions

\* A step of one session (or of none) that writes no row leaves what the others know as it is.
LEMMA OthersKnow ==
  ASSUME IndInv, NEW s \in Sessions \cup {Nothing}, UNCHANGED <<row, waitsFor, picture>>,
         \A t \in Tasks : lock'[t] = lock[t] \/ (lock[t] \in {Nothing, s} /\ lock'[t] \in {Nothing, s}),
         NEW r \in Sessions \ {s}, txn'[r] = txn[r]
  PROVE  Knows(r)'
<1>1. Knows(r)
  BY DEF IndInv
<1>2. \A t \in Tasks : lock[t] = r => lock'[t] = r
  BY TasksAssumption
<1>3. \A t \in Tasks : Born(t)' <=> Born(t)
  BY DEF Born
<1>5. \A t : Holds(r, t) => Holds(r, t)'
  BY <1>2, <1>3 DEF Holds
<1>6. \A t \in Tasks : PartsAreSettled(t)' <=> PartsAreSettled(t)
  BY DEF PartsAreSettled, Children, Settled, External, Approved, Born
<1>7. KnowsOfChange(r)'
  BY <1>1, <1>5, <1>6 DEF Knows, KnowsOfChange, Holds
<1>8. KnowsOfAgree(r)' /\ KnowsOfReport(r)'
  BY <1>1, <1>5 DEF Knows, KnowsOfAgree, KnowsOfReport
<1>9. KnowsOfReopen(r)'
  <2> DEFINE t == txn[r].task
             p == row[t].parent
  <2>1. SUFFICES ASSUME txn[r].cmd = "reopen" PROVE KnowsOfReopen(r)'
    BY DEF KnowsOfReopen
  <2>2. /\ Holds(r, t) /\ row[t].state \in Over /\ txn[r].other \in {Nothing, p}
        /\ txn[r].other = Nothing /\ p # Nothing => lock[p] = r /\ row[p].state \notin Over
    BY <1>1, <2>1 DEF Knows, KnowsOfReopen
  <2>3. p \in Tasks \cup {Nothing}
    BY <2>2 DEF Holds, IndInv, TypeOK, Rows
  <2> QED BY <1>2, <1>5, <2>1, <2>2, <2>3 DEF KnowsOfReopen
<1>10. KnowsOfMove(r)'
  BY <1>1, <1>3, <1>5 DEF Knows, KnowsOfMove
<1>11. KnowsOfOrder(r)'
  BY <1>1, <1>5 DEF Knows, KnowsOfOrder
<1>12. KnowsOfAdd(r)'
  BY <1>1, <1>3 DEF Knows, KnowsOfAdd
<1>13. KnowsOfDecide(r)'
  BY <1>1, <1>6 DEF Knows, KnowsOfDecide
<1> QED BY <1>7, <1>8, <1>9, <1>10, <1>11, <1>12, <1>13 DEF Knows

\* So it keeps the invariant when its own session knows what it has to.
LEMMA ReadingKeeps ==
  ASSUME IndInv, NEW s \in Sessions, UNCHANGED <<row, waitsFor, picture>>,
         lock' \in [Tasks -> Sessions \cup {Nothing}],
         \A t \in Tasks : lock'[t] = lock[t] \/ (lock[t] \in {Nothing, s} /\ lock'[t] \in {Nothing, s}),
         NEW x \in Txns, txn' = [txn EXCEPT ![s] = x],
         Knows(s)', \A r \in Sessions : RunsAlone(r)'
  PROVE  IndInv'
<1>1. txn \in [Sessions -> Txns] /\ txn' \in [Sessions -> Txns] /\ \A r \in Sessions \ {s} : txn'[r] = txn[r]
  BY DEF IndInv, TypeOK
<1>2. TypeOK'
  BY <1>1 DEF IndInv, TypeOK
<1>3. \A t \in Tasks : RowIsSound(t)' /\ PictureIsSound(t)'
  BY DEF IndInv, RowIsSound, PictureIsSound, Born
<1>4. \A r \in Sessions : Knows(r)'
  <2> SUFFICES ASSUME NEW r \in Sessions \ {s} PROVE Knows(r)'
    OBVIOUS
  <2> QED BY <1>1, OthersKnow
<1>5. PartsAreOrdered => DoneTaskHasNoOpenPart'
  BY DEF IndInv, PartsAreOrdered, DoneTaskHasNoOpenPart, Children, Settled, External, Approved, Born
<1> QED BY <1>2, <1>3, <1>4, <1>5 DEF IndInv

\* A command that begins finds nobody in flight that it may not overlap.
LEMMA BeginningAlone ==
  ASSUME IndInv, NEW s \in Sessions, NEW x \in Txns, Begins(s, x.cmd), x.cmd # "none",
         txn' = [txn EXCEPT ![s] = x]
  PROVE  \A r \in Sessions : RunsAlone(r)'
<1>1. txn \in [Sessions -> Txns] /\ txn'[s] = x /\ \A r \in Sessions \ {s} : txn'[r] = txn[r]
  BY DEF IndInv, TypeOK
<1>2. txn[s].cmd = "none"
  BY DEF Begins, NoTxn
<1>3. \A r \in Sessions : txn[r].cmd # "none" => x.cmd \in Overlapping /\ txn[r].cmd \in Overlapping
  BY DEF Begins, InFlight
<1> SUFFICES ASSUME NEW r \in Sessions, txn'[r].cmd \notin Overlapping \cup {"none"}, NEW q \in Sessions \ {r}
             PROVE  txn'[q].cmd = "none"
  BY DEF RunsAlone
<1>4. CASE r = s
  BY <1>1, <1>3, <1>4
<1>5. CASE r # s
  BY <1>1, <1>3, <1>5
<1> QED BY <1>4, <1>5

\* A step that goes on with a command, or ends it, leaves the others as alone as they were.
LEMMA GoingOnAlone ==
  ASSUME IndInv, NEW s \in Sessions, NEW x \in Txns, x.cmd \in {txn[s].cmd, "none"}, txn' = [txn EXCEPT ![s] = x]
  PROVE  \A r \in Sessions : RunsAlone(r)'
<1>1. txn \in [Sessions -> Txns] /\ txn'[s] = x /\ \A r \in Sessions \ {s} : txn'[r] = txn[r]
  BY DEF IndInv, TypeOK
<1>2. \A r \in Sessions : txn'[r].cmd \in {txn[r].cmd, "none"}
  BY <1>1
<1> QED BY <1>2 DEF IndInv, RunsAlone

\* The end of a transaction frees its locks.
LEMMA Ending ==
  ASSUME IndInv, NEW s \in Sessions, Ends(s)
  PROVE  /\ NoTxn \in Txns /\ NoTxn.cmd = "none" /\ txn' = [txn EXCEPT ![s] = NoTxn]
         /\ txn'[s] = NoTxn /\ \A r \in Sessions \ {s} : txn'[r] = txn[r]
         /\ txn' \in [Sessions -> Txns]
         /\ lock' \in [Tasks -> Sessions \cup {Nothing}]
         /\ \A t \in Tasks : lock'[t] = IF lock[t] = s THEN Nothing ELSE lock[t]
         /\ Knows(s)' /\ \A r \in Sessions : RunsAlone(r)'
<1>1. NoTxn \in Txns /\ NoTxn.cmd = "none"
  BY DEF NoTxn, Txns, States
<1>2. txn' = [txn EXCEPT ![s] = NoTxn] /\ lock' = [t \in Tasks |-> IF lock[t] = s THEN Nothing ELSE lock[t]]
      /\ txn \in [Sessions -> Txns] /\ lock \in [Tasks -> Sessions \cup {Nothing}]
  BY DEF Ends, IndInv, TypeOK
<1>3. txn'[s] = NoTxn /\ txn' \in [Sessions -> Txns] /\ \A r \in Sessions \ {s} : txn'[r] = txn[r]
  BY <1>1, <1>2
<1>4. Knows(s)'
  BY <1>1, <1>3 DEF Knows, KnowsOfChange, KnowsOfAgree, KnowsOfReport, KnowsOfReopen, KnowsOfMove,
                    KnowsOfOrder, KnowsOfAdd, KnowsOfDecide
<1>5. \A r \in Sessions : RunsAlone(r)'
  BY <1>1, <1>2, GoingOnAlone
<1> QED BY <1>1, <1>2, <1>3, <1>4, <1>5

\* A rollback writes nothing.
LEMMA RollbackKeeps ==
  ASSUME IndInv, NEW s \in Sessions, Rollback(s)
  PROVE  IndInv'
<1>1. Ends(s) /\ UNCHANGED <<row, waitsFor, picture>>
  BY DEF Rollback
<1> QED BY <1>1, Ending, ReadingKeeps

\* A task that is locked was free, and is locked by nobody else.
LEMMA Locking ==
  ASSUME IndInv, NEW s \in Sessions, NEW t \in Tasks, Locks(s, t), UNCHANGED <<row, waitsFor, picture>>
  PROVE  /\ lock' \in [Tasks -> Sessions \cup {Nothing}] /\ lock'[t] = s
         /\ \A u \in Tasks : lock'[u] = lock[u] \/ (lock[u] \in {Nothing, s} /\ lock'[u] \in {Nothing, s})
         /\ Born(t) /\ row[t].version < MaxVersion[t]
         /\ \A r \in Sessions : txn'[r].task = t /\ r = s => Holds(r, t)'
BY DEF IndInv, TypeOK, Locks, Holds, Born

\* change: the state, the predecessors and the parts are read under the lock.
LEMMA BeginChangeKeeps ==
  ASSUME IndInv, NEW s \in Sessions, NEW t \in Tasks, NEW target \in States,
         BeginChange(s, t, target)
  PROVE  IndInv'
<1> DEFINE x == [NoTxn EXCEPT !.cmd = "change", !.task = t, !.target = target]
<1>1. /\ Begins(s, "change") /\ Locks(s, t) /\ MayChange(t, target) /\ txn' = [txn EXCEPT ![s] = x]
      /\ UNCHANGED <<row, waitsFor, picture>>
  BY DEF BeginChange
<1>2. NoTxn \in Txns
  BY DEF NoTxn, Txns, States
<1>3. x \in Txns /\ x.cmd = "change" /\ x.task = t /\ x.target = target
  BY <1>1, <1>2 DEF Begins, Txns
<1> HIDE DEF x
<1>4. \A r \in Sessions : RunsAlone(r)'
  BY <1>1, <1>3, BeginningAlone
<1>5. txn'[s] = x
  BY <1>1 DEF IndInv, TypeOK
<1>6. KnowsOfChange(s)'
  <2>1. Holds(s, t)'
    BY <1>1, <1>3, <1>5, Locking
  <2>2. row[t].state = "done" => Restarts
    BY <1>1 DEF MayChange
  <2>3. target = "done" => PartsAreSettled(t)
    BY <1>1 DEF MayChange, PartsAreSettled
  <2>4. PartsAreSettled(t)' <=> PartsAreSettled(t)
    BY <1>1 DEF PartsAreSettled, Children, Settled, External, Approved, Born
  <2> QED BY <1>1, <1>3, <1>5, <2>1, <2>2, <2>3, <2>4 DEF KnowsOfChange, MayChange, PartsAreOrdered
<1>7. Knows(s)'
  BY <1>3, <1>5, <1>6 DEF Knows, KnowsOfAgree, KnowsOfReport, KnowsOfReopen, KnowsOfMove, KnowsOfOrder,
                          KnowsOfAdd, KnowsOfDecide
<1> QED BY <1>1, <1>3, <1>4, <1>7, Locking, ReadingKeeps

\* agree: a request may be cancelled in any state.
LEMMA BeginAgreeKeeps ==
  ASSUME IndInv, NEW s \in Sessions, NEW t \in Tasks, BeginAgree(s, t)
  PROVE  IndInv'
<1> DEFINE x == [NoTxn EXCEPT !.cmd = "agree", !.task = t, !.target = "cancelled"]
<1>1. /\ Begins(s, "agree") /\ Locks(s, t) /\ txn' = [txn EXCEPT ![s] = x]
      /\ UNCHANGED <<row, waitsFor, picture>>
  BY DEF BeginAgree
<1>2. NoTxn \in Txns
  BY DEF NoTxn, Txns, States
<1>3. x \in Txns /\ x.cmd = "agree" /\ x.task = t /\ x.target = "cancelled"
  BY <1>1, <1>2 DEF Begins, States, Txns
<1> HIDE DEF x
<1>4. \A r \in Sessions : RunsAlone(r)'
  BY <1>1, <1>3, BeginningAlone
<1>5. txn'[s] = x
  BY <1>1 DEF IndInv, TypeOK
<1>6. KnowsOfAgree(s)'
  BY <1>1, <1>3, <1>5, Locking DEF KnowsOfAgree
<1>7. Knows(s)'
  BY <1>3, <1>5, <1>6 DEF Knows, KnowsOfChange, KnowsOfReport, KnowsOfReopen, KnowsOfMove, KnowsOfOrder,
                          KnowsOfAdd, KnowsOfDecide
<1> QED BY <1>1, <1>3, <1>4, <1>7, Locking, ReadingKeeps

\* report: a request in progress or blocked.
LEMMA BeginReportKeeps ==
  ASSUME IndInv, NEW s \in Sessions, NEW t \in Tasks, BeginReport(s, t)
  PROVE  IndInv'
<1> DEFINE x == [NoTxn EXCEPT !.cmd = "report", !.task = t]
<1>1. /\ Begins(s, "report") /\ Locks(s, t) /\ txn' = [txn EXCEPT ![s] = x]
      /\ t \in Requested /\ row[t].state \in {"in_progress", "blocked"}
      /\ UNCHANGED <<row, waitsFor, picture>>
  BY DEF BeginReport
<1>2. NoTxn \in Txns
  BY DEF NoTxn, Txns, States
<1>3. x \in Txns /\ x.cmd = "report" /\ x.task = t
  BY <1>1, <1>2 DEF Begins, States, Txns
<1> HIDE DEF x
<1>4. \A r \in Sessions : RunsAlone(r)'
  BY <1>1, <1>3, BeginningAlone
<1>5. txn'[s] = x
  BY <1>1 DEF IndInv, TypeOK
<1>6. KnowsOfReport(s)'
  BY <1>1, <1>3, <1>5, Locking DEF KnowsOfReport
<1>7. Knows(s)'
  BY <1>3, <1>5, <1>6 DEF Knows, KnowsOfChange, KnowsOfAgree, KnowsOfReopen, KnowsOfMove, KnowsOfOrder,
                          KnowsOfAdd, KnowsOfDecide
<1> QED BY <1>1, <1>3, <1>4, <1>7, Locking, ReadingKeeps

\* reopen: the task first; its parent is not locked yet.
LEMMA BeginReopenKeeps ==
  ASSUME IndInv, NEW s \in Sessions, NEW t \in Tasks, BeginReopen(s, t)
  PROVE  IndInv'
<1> DEFINE x == [NoTxn EXCEPT !.cmd = "reopen", !.task = t, !.other = row[t].parent]
<1>1. /\ Begins(s, "reopen") /\ Locks(s, t) /\ txn' = [txn EXCEPT ![s] = x]
      /\ row[t].state \in Over
      /\ UNCHANGED <<row, waitsFor, picture>>
  BY DEF BeginReopen, Over
<1>2. NoTxn \in Txns
  BY DEF NoTxn, Txns, States
<1>3. x \in Txns /\ x.cmd = "reopen" /\ x.task = t /\ x.other = row[t].parent
  <2>1. row[t].parent \in Tasks \cup {Nothing}
    BY DEF IndInv, TypeOK, Rows
  <2> QED BY <1>1, <1>2, <2>1 DEF Begins, States, Txns
<1> HIDE DEF x
<1>4. \A r \in Sessions : RunsAlone(r)'
  BY <1>1, <1>3, BeginningAlone
<1>5. txn'[s] = x
  BY <1>1 DEF IndInv, TypeOK
<1>6. KnowsOfReopen(s)'
  BY <1>1, <1>3, <1>5, Locking DEF KnowsOfReopen
<1>7. Knows(s)'
  BY <1>3, <1>5, <1>6 DEF Knows, KnowsOfChange, KnowsOfAgree, KnowsOfReport, KnowsOfMove, KnowsOfOrder,
                          KnowsOfAdd, KnowsOfDecide
<1> QED BY <1>1, <1>3, <1>4, <1>7, Locking, ReadingKeeps

\* ... then the parent, which is not over; or the reopening is refused.
LEMMA LockParentKeeps ==
  ASSUME IndInv, NEW s \in Sessions, LockParent(s)
  PROVE  IndInv'
<1> DEFINE p == txn[s].other
           t == txn[s].task
           x == [txn[s] EXCEPT !.other = Nothing]
<1>1. /\ txn[s].cmd = "reopen" /\ p # Nothing /\ lock[p] = Nothing /\ UNCHANGED <<row, waitsFor, picture>>
      /\ txn \in [Sessions -> Txns] /\ lock \in [Tasks -> Sessions \cup {Nothing}]
  BY DEF LockParent, IndInv, TypeOK
<1>2. p \in Tasks /\ p = row[t].parent /\ Holds(s, t) /\ row[t].state \in Over
  <2>1. p \in Tasks
    BY <1>1 DEF Txns
  <2> QED BY <1>1, <2>1 DEF IndInv, Knows, KnowsOfReopen
<1>3. CASE Ends(s)
  BY <1>1, <1>3, Ending, ReadingKeeps
<1>4. CASE /\ row[p].state \notin Over
           /\ lock' = [lock EXCEPT ![p] = s] /\ txn' = [txn EXCEPT ![s].other = Nothing]
  <2>1. txn' = [txn EXCEPT ![s] = x] /\ x \in Txns /\ x.cmd = "reopen" /\ x.task = t /\ x.other = Nothing
    BY <1>1, <1>4 DEF Txns
  <2> HIDE DEF x
  <2>2. txn'[s] = x
    BY <1>1, <2>1
  <2>3. lock' \in [Tasks -> Sessions \cup {Nothing}] /\ lock'[p] = s /\ \A u \in Tasks \ {p} : lock'[u] = lock[u]
    BY <1>1, <1>2, <1>4
  <2>4. /\ txn'[s].task = t /\ t \in Tasks /\ Born(t) /\ row[t].version < MaxVersion[t]
        /\ lock[t] = s /\ lock'[t] = s
    <3>1. lock[t] = s /\ t \in Tasks /\ t # p
      BY <1>1, <1>2, TasksAssumption DEF Holds
    <3> QED BY <1>2, <2>1, <2>2, <2>3, <3>1 DEF Holds
  <2>5. KnowsOfReopen(s)'
    <3> HIDE DEF t, p
    <3> QED BY <1>1, <1>2, <1>4, <2>1, <2>2, <2>3, <2>4 DEF KnowsOfReopen, Holds, Born
  <2>6. Knows(s)'
    BY <2>1, <2>2, <2>5 DEF Knows, KnowsOfChange, KnowsOfAgree, KnowsOfReport, KnowsOfMove, KnowsOfOrder,
                            KnowsOfAdd, KnowsOfDecide
  <2>7. \A r \in Sessions : RunsAlone(r)'
    BY <1>1, <2>1, GoingOnAlone
  <2> QED BY <1>1, <2>1, <2>3, <2>6, <2>7, ReadingKeeps
<1> QED BY <1>1, <1>3, <1>4 DEF LockParent, Over

\* move: the new parent is read without its lock.
LEMMA BeginMoveKeeps ==
  ASSUME IndInv, NEW s \in Sessions, NEW t \in Tasks, NEW p \in Tasks \cup {Nothing},
         BeginMove(s, t, p)
  PROVE  IndInv'
<1> DEFINE x == [NoTxn EXCEPT !.cmd = "move", !.task = t, !.other = p]
<1>1. /\ Begins(s, "move") /\ Locks(s, t) /\ txn' = [txn EXCEPT ![s] = x]
      /\ p # Nothing => Born(p) /\ row[p].state # "done"
      /\ UNCHANGED <<row, waitsFor, picture>>
  BY DEF BeginMove
<1>2. NoTxn \in Txns
  BY DEF NoTxn, Txns, States
<1>3. x \in Txns /\ x.cmd = "move" /\ x.task = t /\ x.other = p
  BY <1>1, <1>2 DEF Begins, States, Txns
<1> HIDE DEF x
<1>4. \A r \in Sessions : RunsAlone(r)'
  BY <1>1, <1>3, BeginningAlone
<1>5. txn'[s] = x
  BY <1>1 DEF IndInv, TypeOK
<1>6. KnowsOfMove(s)'
  <2>1. \A u \in Tasks : Born(u)' <=> Born(u)
    BY <1>1 DEF Born
  <2>2. Holds(s, t)'
    BY <1>1, <1>3, <1>5, Locking
  <2> QED BY <1>1, <1>3, <1>5, <2>1, <2>2 DEF KnowsOfMove
<1>7. Knows(s)'
  BY <1>3, <1>5, <1>6 DEF Knows, KnowsOfChange, KnowsOfAgree, KnowsOfReport, KnowsOfReopen, KnowsOfOrder,
                          KnowsOfAdd, KnowsOfDecide
<1> QED BY <1>1, <1>3, <1>4, <1>7, Locking, ReadingKeeps

\* order: only the row of the task is locked.
LEMMA BeginOrderKeeps ==
  ASSUME IndInv, NEW s \in Sessions, NEW t \in Tasks, NEW wanted \in SUBSET Tasks,
         BeginOrder(s, t, wanted)
  PROVE  IndInv'
<1> DEFINE x == [NoTxn EXCEPT !.cmd = "order", !.task = t, !.wanted = wanted]
<1>1. /\ Begins(s, "order") /\ Locks(s, t) /\ txn' = [txn EXCEPT ![s] = x]
      /\ UNCHANGED <<row, waitsFor, picture>>
  BY DEF BeginOrder
<1>2. NoTxn \in Txns
  BY DEF NoTxn, Txns, States
<1>3. x \in Txns /\ x.cmd = "order" /\ x.task = t /\ x.wanted = wanted
  BY <1>1, <1>2 DEF Begins, States, Txns
<1> HIDE DEF x
<1>4. \A r \in Sessions : RunsAlone(r)'
  BY <1>1, <1>3, BeginningAlone
<1>5. txn'[s] = x
  BY <1>1 DEF IndInv, TypeOK
<1>6. KnowsOfOrder(s)'
  BY <1>1, <1>3, <1>5, Locking DEF KnowsOfOrder
<1>7. Knows(s)'
  BY <1>3, <1>5, <1>6 DEF Knows, KnowsOfChange, KnowsOfAgree, KnowsOfReport, KnowsOfReopen, KnowsOfMove,
                          KnowsOfAdd, KnowsOfDecide
<1> QED BY <1>1, <1>3, <1>4, <1>7, Locking, ReadingKeeps

\* add: the parent is read without its lock.
LEMMA BeginAddKeeps ==
  ASSUME IndInv, NEW s \in Sessions, NEW c \in Tasks, NEW p \in Tasks \cup {Nothing},
         BeginAdd(s, c, p)
  PROVE  IndInv'
<1> DEFINE v == IF p = Nothing THEN 0 ELSE row[p].version
           state == IF p = Nothing THEN "open" ELSE row[p].state
           x == [NoTxn EXCEPT !.cmd = "add", !.task = c, !.other = p, !.seen = v, !.target = state]
<1>1. /\ Begins(s, "add") /\ ~Born(c) /\ txn' = [txn EXCEPT ![s] = x] /\ lock' = lock
      /\ p # Nothing => Born(p) /\ row[p].state # "done" /\ row[p].version < MaxVersion[p]
      /\ UNCHANGED <<row, waitsFor, picture>>
      /\ lock \in [Tasks -> Sessions \cup {Nothing}]
  BY DEF BeginAdd, IndInv, TypeOK
<1>2. NoTxn \in Txns
  BY DEF NoTxn, Txns, States
<1>3. x \in Txns /\ x.cmd = "add" /\ x.task = c /\ x.other = p /\ x.seen = v /\ x.target = state
  <2>1. v \in {0} \cup Versions /\ state \in States
    BY <1>1 DEF IndInv, TypeOK, Rows, Born, States
  <2> HIDE DEF v, state
  <2> QED BY <1>1, <1>2, <2>1 DEF Begins, States, Txns
<1> HIDE DEF x
<1>4. \A r \in Sessions : RunsAlone(r)'
  BY <1>1, <1>3, BeginningAlone
<1>5. txn'[s] = x
  BY <1>1 DEF IndInv, TypeOK
<1>6. KnowsOfAdd(s)'
  BY <1>1, <1>3, <1>5 DEF KnowsOfAdd, Born
<1>7. Knows(s)'
  BY <1>3, <1>5, <1>6 DEF Knows, KnowsOfChange, KnowsOfAgree, KnowsOfReport, KnowsOfReopen, KnowsOfMove,
                          KnowsOfOrder, KnowsOfDecide
<1> QED BY <1>1, <1>3, <1>4, <1>7, ReadingKeeps

\* decide: the report and the parts are read without the lock.
LEMMA BeginDecideKeeps ==
  ASSUME IndInv, NEW s \in Sessions, NEW t \in Tasks, NEW decision \in {"done", "in_progress"},
         BeginDecide(s, t, decision)
  PROVE  IndInv'
<1> DEFINE x == [NoTxn EXCEPT !.cmd = "decide", !.task = t, !.target = decision,
                              !.seen = row[t].version, !.round = row[t].round]
<1>1. /\ Begins(s, "decide") /\ txn' = [txn EXCEPT ![s] = x] /\ lock' = lock
      /\ row[t].state = "completion_submitted" /\ row[t].version < MaxVersion[t]
      /\ decision = "done" => PartsAreSettled(t)
      /\ UNCHANGED <<row, waitsFor, picture>>
      /\ lock \in [Tasks -> Sessions \cup {Nothing}]
  BY DEF BeginDecide, PartsAreSettled, IndInv, TypeOK
<1>2. NoTxn \in Txns
  BY DEF NoTxn, Txns, States
<1>3. /\ x \in Txns /\ x.cmd = "decide" /\ x.task = t /\ x.target = decision
      /\ x.seen = row[t].version /\ x.round = row[t].round
  <2>1. row[t].version \in Versions /\ row[t].round \in {0} \cup Versions /\ decision \in States
    BY DEF IndInv, TypeOK, Rows, States
  <2> QED BY <1>1, <1>2, <2>1 DEF Begins, Txns
<1> HIDE DEF x
<1>4. \A r \in Sessions : RunsAlone(r)'
  BY <1>1, <1>3, BeginningAlone
<1>5. txn'[s] = x
  BY <1>1 DEF IndInv, TypeOK
<1>6. KnowsOfDecide(s)'
  <2>1. PartsAreSettled(t)' <=> PartsAreSettled(t)
    BY <1>1 DEF PartsAreSettled, Children, Settled, External, Approved, Born
  <2> QED BY <1>1, <1>3, <1>5, <2>1 DEF KnowsOfDecide
<1>7. Knows(s)'
  BY <1>3, <1>5, <1>6 DEF Knows, KnowsOfChange, KnowsOfAgree, KnowsOfReport, KnowsOfReopen, KnowsOfMove,
                          KnowsOfOrder, KnowsOfAdd
<1> QED BY <1>1, <1>3, <1>4, <1>7, ReadingKeeps

-----------------------------------------------------------------------------
(* Steps that write and commit.                                            *)

\* The row that a commit moves is the new one, one version on.
LEMMA WritingARow ==
  ASSUME IndInv, NEW s \in Sessions, NEW t \in Tasks, Holds(s, t), NEW new \in Rows, new.state # "none",
         Moves(s, t, new)
  PROVE  /\ row' \in [Tasks -> Rows] /\ Ends(s)
         /\ row'[t].state = new.state /\ row'[t].version = row[t].version + 1 /\ row'[t].parent = new.parent
         /\ row'[t].round = new.round /\ row'[t].answered = new.answered /\ row'[t].accepted = new.accepted
         /\ \A u \in Tasks \ {t} : row'[u] = row[u]
         /\ \A u \in Tasks : Born(u)' <=> Born(u)
<1> DEFINE v == row[t].version + 1
           n == [new EXCEPT !.version = v]
<1>1. row \in [Tasks -> Rows] /\ row' = [row EXCEPT ![t] = n] /\ Ends(s) /\ Born(t)
  BY DEF IndInv, TypeOK, Moves, Holds
<1>2. v \in Versions
  BY <1>1, VersionFacts DEF Holds, Rows
<1>3. /\ n \in Rows /\ n.state = new.state /\ n.version = v /\ n.parent = new.parent
      /\ n.round = new.round /\ n.answered = new.answered /\ n.accepted = new.accepted
  <2> HIDE DEF v
  <2> QED BY <1>2 DEF Rows
<1> HIDE DEF n
<1>4. row' \in [Tasks -> Rows] /\ row'[t] = n /\ \A u \in Tasks \ {t} : row'[u] = row[u]
  BY <1>1, <1>3
<1> QED BY <1>1, <1>3, <1>4 DEF Born

\* It gets the picture of its new version.
LEMMA TakingThePicture ==
  ASSUME IndInv, NEW s \in Sessions, NEW t \in Tasks, Holds(s, t), NEW new \in Rows, new.state # "none",
         Moves(s, t, new)
  PROVE  /\ picture' \in [Tasks -> [Versions -> States \cup {"none"}]]
         /\ \A u \in Tasks : PictureIsSound(u)'
<1> DEFINE v == row[t].version + 1
<1>1. /\ row'[t].state = new.state /\ row'[t].version = v
      /\ \A u \in Tasks \ {t} : row'[u] = row[u]
      /\ \A u \in Tasks : Born(u)' <=> Born(u)
  BY WritingARow
<1>2. row[t].version \in Nat /\ v \in Versions /\ Born(t) /\ new.state \in States
  BY VersionFacts DEF IndInv, TypeOK, Rows, Holds, Born
<1>3. picture \in [Tasks -> [Versions -> States \cup {"none"}]] /\ picture[t][v] = "none"
  BY <1>2 DEF IndInv, TypeOK, PictureIsSound
<1>4. picture' = [picture EXCEPT ![t][v] = new.state]
  BY <1>3 DEF Moves, Pictured
<1> HIDE DEF v
<1>5. /\ picture' \in [Tasks -> [Versions -> States \cup {"none"}]]
      /\ picture'[t][v] = new.state /\ \A w \in Versions \ {v} : picture'[t][w] = picture[t][w]
      /\ \A u \in Tasks \ {t} : picture'[u] = picture[u]
  BY <1>2, <1>3, <1>4
<1>6. PictureIsSound(t)'
  <2>1. \A w \in Versions : w > v => picture'[t][w] = "none"
    <3> TAKE w \in Versions
    <3>1. w \in Nat /\ (w > v => w > row[t].version /\ w # v)
      BY <1>2, VersionFacts DEF v
    <3> QED BY <1>2, <1>5, <3>1 DEF IndInv, PictureIsSound
  <2> QED BY <1>1, <1>2, <1>5, <2>1 DEF PictureIsSound
<1>7. ASSUME NEW u \in Tasks \ {t} PROVE PictureIsSound(u)'
  BY <1>1, <1>5 DEF IndInv, PictureIsSound
<1> QED BY <1>5, <1>6, <1>7

\* What a commit may write in the row of a task it has locked.
MayWrite(s, t, new) ==
    /\ new.state # "none" /\ new.round <= row[t].version
    /\ new.parent # Nothing => Born(new.parent)
    /\ \A r \in new.accepted : r <= new.round
    /\ new.state = "completion_submitted" =>
          t \in Requested /\ new.round # 0 /\ new.round \notin new.accepted

\* A commit that keeps the task where it is among the parts.  It leaves the task as settled
\* as it was, or opens a settled one only under the lock of a parent that is not done.
KeepsParts(s, t, new) ==
    /\ new.parent = row[t].parent
    /\ \/ new.state = row[t].state /\ new.round = row[t].round /\ new.accepted = row[t].accepted
       \/ /\ new.state = "done" => t \notin Requested /\ PartsAreSettled(t)
          /\ Settled(t) /\ row[t].parent # Nothing =>
                \/ new.state = "cancelled"
                \/ lock[row[t].parent] = s /\ row[row[t].parent].state # "done"

\* The parts of a task stay settled, save under the lock of the transaction that opens one.
LEMMA PartsStaySettled ==
  ASSUME IndInv, NEW s \in Sessions, NEW t \in Tasks, Holds(s, t), NEW new \in Rows, Moves(s, t, new),
         MayWrite(s, t, new), KeepsParts(s, t, new),
         NEW p \in Tasks, PartsAreSettled(p), lock[p] # s \/ row[p].state = "done"
  PROVE  PartsAreSettled(p)'
<1>1. /\ row'[t].state = new.state /\ row'[t].parent = row[t].parent
      /\ row'[t].round = new.round /\ row'[t].accepted = new.accepted
      /\ \A u \in Tasks \ {t} : row'[u] = row[u]
      /\ \A u \in Tasks : Born(u)' <=> Born(u)
  BY WritingARow DEF MayWrite, KeepsParts
<1> SUFFICES ASSUME NEW c \in Children(p)' PROVE Settled(c)'
  BY DEF PartsAreSettled
<1>2. c \in Children(p) /\ Settled(c) /\ c \in Tasks
  BY <1>1 DEF Children, PartsAreSettled
<1>3. CASE c # t
  BY <1>1, <1>2, <1>3 DEF Settled, External, Approved
<1>4. CASE c = t /\ new.state = row[t].state /\ new.round = row[t].round /\ new.accepted = row[t].accepted
  BY <1>1, <1>2, <1>4 DEF Settled, External, Approved
<1>5. CASE c = t /\ new.state = "cancelled"
  BY <1>1, <1>5 DEF Settled
<1>6. c = t => row[t].parent = p /\ p # Nothing
  BY <1>2, TasksAssumption DEF Children
<1> QED BY <1>2, <1>3, <1>4, <1>5, <1>6 DEF KeepsParts

\* Such a commit keeps rows and pictures sound.
LEMMA WrittenRows ==
  ASSUME IndInv, NEW s \in Sessions, NEW t \in Tasks, Holds(s, t), NEW new \in Rows, Moves(s, t, new),
         MayWrite(s, t, new), waitsFor' \in [Tasks -> SUBSET Tasks]
  PROVE  TypeOK' /\ \A u \in Tasks : RowIsSound(u)' /\ PictureIsSound(u)'
<1>1. /\ row' \in [Tasks -> Rows] /\ Ends(s)
      /\ row'[t].state = new.state /\ row'[t].version = row[t].version + 1 /\ row'[t].parent = new.parent
      /\ row'[t].round = new.round /\ row'[t].accepted = new.accepted
      /\ \A u \in Tasks \ {t} : row'[u] = row[u]
      /\ \A u \in Tasks : Born(u)' <=> Born(u)
  BY WritingARow DEF MayWrite
<1>2. /\ picture' \in [Tasks -> [Versions -> States \cup {"none"}]]
      /\ \A u \in Tasks : PictureIsSound(u)'
  BY TakingThePicture DEF MayWrite
<1>3. TypeOK'
  BY <1>1, <1>2, Ending DEF IndInv, TypeOK
<1>4. new.parent \in Tasks \cup {Nothing} /\ \A u \in Tasks : row[u].parent \in Tasks \cup {Nothing}
  BY DEF IndInv, TypeOK, Rows
<1>5. RowIsSound(t)'
  <2>1. /\ row[t].version \in Nat /\ new.round \in Nat /\ row[t].version < MaxVersion[t]
        /\ MaxVersion[t] \in Nat /\ Born(t)
    BY VersionFacts DEF IndInv, TypeOK, Rows, Holds
  <2>2. row'[t].version <= MaxVersion[t] /\ row'[t].round < row'[t].version
    BY <1>1, <2>1 DEF MayWrite
  <2>3. row'[t].parent # Nothing => row'[row'[t].parent].state # "none"
    BY <1>1, <1>4 DEF MayWrite, Born
  <2> QED BY <1>1, <2>1, <2>2, <2>3 DEF RowIsSound, MayWrite, Born
<1>6. ASSUME NEW u \in Tasks \ {t} PROVE RowIsSound(u)'
  <2>1. row'[u].parent # Nothing => row'[row'[u].parent].state # "none"
    BY <1>1, <1>4 DEF IndInv, RowIsSound, Born
  <2> QED BY <1>1, <2>1 DEF IndInv, RowIsSound, Born
<1> QED BY <1>2, <1>3, <1>5, <1>6

\* A session that does not write knows afterwards what it knew.
LEMMA OthersStillKnow ==
  ASSUME VersionsAreOrdered, IndInv, NEW s \in Sessions, NEW t \in Tasks, Holds(s, t), NEW new \in Rows,
         Moves(s, t, new), MayWrite(s, t, new), PartsAreOrdered => KeepsParts(s, t, new),
         txn[s].cmd # "none", NEW r \in Sessions \ {s}
  PROVE  Knows(r)'
<1>1. /\ \A u \in Tasks \ {t} : row'[u] = row[u]
      /\ \A u \in Tasks : Born(u)' <=> Born(u)
  BY WritingARow DEF MayWrite
<1>2. txn'[r] = txn[r] /\ \A u \in Tasks : lock'[u] = IF lock[u] = s THEN Nothing ELSE lock[u]
  BY WritingARow, Ending DEF MayWrite
<1>3. Knows(r) /\ txn[r].cmd \in Overlapping \cup {"none"}
  BY DEF IndInv, RunsAlone
<1>4. lock[t] = s /\ \A u \in Tasks : lock[u] = r => u # t /\ lock'[u] = r
  BY <1>2 DEF Holds
<1> DEFINE q == txn[r].task
<1>5. Holds(r, q) => Holds(r, q)' /\ q \in Tasks /\ row'[q] = row[q] /\ lock[q] = r
  BY <1>1, <1>2, <1>4 DEF Holds
<1>6. KnowsOfChange(r)'
  <2> SUFFICES ASSUME txn[r].cmd = "change" PROVE KnowsOfChange(r)'
    BY <1>2 DEF KnowsOfChange
  <2>1. /\ Holds(r, q) /\ txn[r].target \in Allowed[row[q].state]
        /\ txn[r].target \in {"done", "cancelled"} => q \notin Requested
        /\ PartsAreOrdered => row[q].state # "done" /\ (txn[r].target = "done" => PartsAreSettled(q))
    BY <1>3 DEF Knows, KnowsOfChange
  <2>2. ASSUME PartsAreOrdered, NEW p \in Tasks, PartsAreSettled(p), lock[p] = r
        PROVE  PartsAreSettled(p)'
    BY <2>2, PartsStaySettled
  <2>3. q \in Tasks /\ lock[q] = r
    BY <2>1 DEF Holds
  <2> QED BY <1>2, <1>5, <2>1, <2>2, <2>3 DEF KnowsOfChange
<1>7. KnowsOfAgree(r)' /\ KnowsOfReport(r)' /\ KnowsOfOrder(r)'
  BY <1>2, <1>3, <1>5 DEF Knows, KnowsOfAgree, KnowsOfReport, KnowsOfOrder
<1>8. KnowsOfReopen(r)'
  <2> SUFFICES ASSUME txn[r].cmd = "reopen" PROVE KnowsOfReopen(r)'
    BY <1>2 DEF KnowsOfReopen
  <2> DEFINE p == row[q].parent
  <2>1. /\ Holds(r, q) /\ row[q].state \in Over /\ txn[r].other \in {Nothing, p}
        /\ txn[r].other = Nothing /\ p # Nothing => lock[p] = r /\ row[p].state \notin Over
    BY <1>3 DEF Knows, KnowsOfReopen
  <2>2. p \in Tasks \cup {Nothing}
    BY <2>1 DEF Holds, IndInv, TypeOK, Rows
  <2>3. txn[r].other = Nothing /\ p # Nothing => lock'[p] = r /\ row'[p].state \notin Over
    BY <1>1, <1>4, <2>1, <2>2
  <2> QED BY <1>2, <1>5, <2>1, <2>3 DEF KnowsOfReopen
<1>9. KnowsOfMove(r)'
  <2>1. txn[r].cmd = "move" => ~PartsAreOrdered
    BY <1>3 DEF PartsAreOrdered
  <2> QED BY <1>1, <1>2, <1>3, <1>5, <2>1 DEF Knows, KnowsOfMove
<1>10. txn[r].cmd \notin {"add", "decide"}
  BY <1>3 DEF VersionsAreOrdered
<1> QED BY <1>2, <1>6, <1>7, <1>8, <1>9, <1>10 DEF Knows, KnowsOfAdd, KnowsOfDecide

\* So such a commit keeps the invariant.
LEMMA WritingKeeps ==
  ASSUME VersionsAreOrdered, IndInv, NEW s \in Sessions, NEW t \in Tasks, Holds(s, t), NEW new \in Rows,
         Moves(s, t, new), MayWrite(s, t, new), PartsAreOrdered => KeepsParts(s, t, new),
         waitsFor' \in [Tasks -> SUBSET Tasks], txn[s].cmd # "none"
  PROVE  IndInv'
<1>1. /\ Ends(s) /\ row'[t].state = new.state /\ row'[t].parent = new.parent
      /\ \A u \in Tasks \ {t} : row'[u] = row[u]
  BY WritingARow DEF MayWrite
<1>2. TypeOK' /\ \A u \in Tasks : RowIsSound(u)' /\ PictureIsSound(u)'
  BY WrittenRows
<1>3. \A r \in Sessions : RunsAlone(r)' /\ Knows(r)'
  <2>1. Knows(s)' /\ \A r \in Sessions : RunsAlone(r)'
    BY <1>1, Ending
  <2> QED BY <2>1, OthersStillKnow
<1>4. ASSUME PartsAreOrdered PROVE DoneTaskHasNoOpenPart'
  <2> SUFFICES ASSUME NEW p \in Tasks, row'[p].state = "done" PROVE PartsAreSettled(p)'
    BY DEF DoneTaskHasNoOpenPart, PartsAreSettled
  <2>1. CASE row[p].state = "done"
    <3>1. PartsAreSettled(p)
      BY <1>4, <2>1 DEF IndInv, DoneTaskHasNoOpenPart, PartsAreSettled
    <3> QED BY <1>4, <2>1, <3>1, PartsStaySettled
  <2>2. CASE row[p].state # "done"
    <3>1. p = t /\ t \notin Requested /\ PartsAreSettled(t)
      BY <1>1, <1>4, <2>2 DEF KeepsParts
    <3> SUFFICES ASSUME NEW c \in Children(t)' PROVE Settled(c)'
      BY <3>1 DEF PartsAreSettled
    <3>2. CASE c = t
      BY <1>1, <3>1, <3>2 DEF Settled, External
    <3>3. CASE c # t
      <4>1. c \in Tasks /\ row'[c] = row[c] /\ Settled(c)
        BY <1>1, <3>1, <3>3 DEF Children, PartsAreSettled, Born
      <4> QED BY <4>1 DEF Settled, External, Approved
    <3> QED BY <3>2, <3>3
  <2> QED BY <2>1, <2>2
<1> QED BY <1>2, <1>3, <1>4 DEF IndInv

\* change and agree: what was checked under the lock is still so.
LEMMA EndChangeKeeps ==
  ASSUME VersionsAreOrdered, IndInv, NEW s \in Sessions, EndChange(s)
  PROVE  IndInv'
<1> DEFINE t == txn[s].task
           target == txn[s].target
           new == [row[t] EXCEPT !.state = target]
<1>1. /\ txn[s].cmd \in {"change", "agree"} /\ Moves(s, t, new) /\ UNCHANGED waitsFor
      /\ KnowsOfChange(s) /\ KnowsOfAgree(s)
  BY DEF EndChange, IndInv, Knows
<1>2. Holds(s, t) /\ t \in Tasks
  BY <1>1 DEF KnowsOfChange, KnowsOfAgree, Holds
<1>3. row[t] \in Rows /\ target \in States /\ RowIsSound(t)
  BY <1>2 DEF IndInv, TypeOK, Txns
<1>4. /\ txn[s].cmd = "change" => target \in Allowed[row[t].state]
      /\ target \in {"done", "cancelled"} /\ txn[s].cmd = "change" => t \notin Requested
      /\ txn[s].cmd = "agree" => target = "cancelled"
      /\ PartsAreOrdered /\ txn[s].cmd = "change" =>
            row[t].state # "done" /\ (target = "done" => PartsAreSettled(t))
  BY <1>1 DEF KnowsOfChange, KnowsOfAgree
<1>5. row[t].state \in States /\ Allowed[row[t].state] \subseteq States \ {"completion_submitted"}
  BY <1>2, <1>3 DEF Holds, Born, Rows, States, Allowed
<1> HIDE DEF t, target
<1>6. /\ new \in Rows /\ new.state = target /\ new.parent = row[t].parent
      /\ new.round = row[t].round /\ new.accepted = row[t].accepted
  BY <1>3 DEF Rows
<1> HIDE DEF new
<1>7. target # "none" /\ target # "completion_submitted"
  BY <1>1, <1>3, <1>4, <1>5 DEF States
<1>8. new.round <= row[t].version /\ \A r \in new.accepted : r <= new.round
  BY <1>3, <1>6, VersionFacts DEF RowIsSound, Rows
<1>9. target = "done" => txn[s].cmd = "change"
  BY <1>1, <1>4
<1>10. ASSUME PartsAreOrdered, Settled(t) PROVE target = "cancelled"
  <2>1. CASE txn[s].cmd = "agree"
    BY <1>4, <2>1
  <2>2. CASE txn[s].cmd = "change"
    <3>1. row[t].state \in {"cancelled", "completion_submitted"}
      BY <1>4, <1>10, <2>2 DEF Settled, External
    <3> QED BY <1>4, <2>2, <3>1 DEF Allowed
  <2> QED BY <1>1, <2>1, <2>2
<1>11. MayWrite(s, t, new) /\ (PartsAreOrdered => KeepsParts(s, t, new))
  BY <1>3, <1>4, <1>6, <1>7, <1>8, <1>9, <1>10 DEF MayWrite, KeepsParts, RowIsSound
<1>12. waitsFor' \in [Tasks -> SUBSET Tasks]
  BY <1>1 DEF IndInv, TypeOK
<1> QED BY <1>1, <1>2, <1>6, <1>11, <1>12, WritingKeeps

\* report: a task that is reported was not settled.
LEMMA EndReportKeeps ==
  ASSUME VersionsAreOrdered, IndInv, NEW s \in Sessions, EndReport(s)
  PROVE  IndInv'
<1> DEFINE t == txn[s].task
           new == [row[t] EXCEPT !.state = "completion_submitted", !.round = @ + 1]
<1>1. txn[s].cmd = "report" /\ Moves(s, t, new) /\ UNCHANGED waitsFor /\ KnowsOfReport(s)
  BY DEF EndReport, IndInv, Knows
<1>2. Holds(s, t) /\ t \in Tasks /\ t \in Requested /\ row[t].state \in {"in_progress", "blocked"}
      /\ row[t].version < MaxVersion[t]
  BY <1>1 DEF KnowsOfReport, Holds
<1>3. row[t] \in Rows /\ RowIsSound(t)
  BY <1>2 DEF IndInv, TypeOK
<1> HIDE DEF t
<1>4. /\ row[t].round \in Nat /\ row[t].version \in Nat /\ row[t].round + 1 <= row[t].version
      /\ row[t].round + 1 \in Versions
      /\ \A r \in row[t].accepted : r \in Nat /\ r < row[t].round + 1
  <2>1. row[t].round \in Nat /\ row[t].version \in Nat /\ \A r \in row[t].accepted : r \in Nat
    BY <1>3, VersionFacts DEF Rows
  <2>2. row[t].round + 1 \in Nat /\ row[t].round + 1 <= MaxVersion[t]
    BY <1>2, <1>3, <2>1, VersionFacts DEF RowIsSound
  <2> QED BY <1>2, <1>3, <2>1, <2>2, VersionFacts DEF RowIsSound
<1>5. /\ new \in Rows /\ new.state = "completion_submitted" /\ new.parent = row[t].parent
      /\ new.round = row[t].round + 1 /\ new.accepted = row[t].accepted
  <2> DEFINE n == row[t].round + 1
  <2>1. n \in Versions
    BY <1>4
  <2> HIDE DEF n
  <2>2. new = [row[t] EXCEPT !.state = "completion_submitted", !.round = n]
    BY DEF n
  <2> QED BY <1>3, <2>1, <2>2 DEF Rows, States, n
<1> HIDE DEF new
<1>6. ~ Settled(t)
  BY <1>2 DEF Settled, External
<1>7. new.round # 0 /\ new.round \notin new.accepted /\ \A r \in new.accepted : r <= new.round
  BY <1>4, <1>5
<1>8. MayWrite(s, t, new) /\ KeepsParts(s, t, new)
  BY <1>2, <1>3, <1>4, <1>5, <1>6, <1>7 DEF MayWrite, KeepsParts, RowIsSound
<1>9. waitsFor' \in [Tasks -> SUBSET Tasks]
  BY <1>1 DEF IndInv, TypeOK
<1> QED BY <1>1, <1>2, <1>5, <1>8, <1>9, WritingKeeps

\* reopen: the parent is locked and not over.
LEMMA EndReopenKeeps ==
  ASSUME VersionsAreOrdered, IndInv, NEW s \in Sessions, EndReopen(s)
  PROVE  IndInv'
<1> DEFINE t == txn[s].task
           p == row[t].parent
           new == [row[t] EXCEPT !.state = "in_progress", !.accepted = {}]
<1>1. /\ txn[s].cmd = "reopen" /\ txn[s].other = Nothing /\ Moves(s, t, new) /\ UNCHANGED waitsFor
      /\ KnowsOfReopen(s)
  BY DEF EndReopen, IndInv, Knows
<1>2. Holds(s, t) /\ t \in Tasks /\ (p # Nothing => lock[p] = s /\ row[p].state # "done")
  BY <1>1 DEF KnowsOfReopen, Holds, Over
<1>3. row[t] \in Rows /\ RowIsSound(t)
  BY <1>2 DEF IndInv, TypeOK
<1> HIDE DEF t
<1>4. /\ new \in Rows /\ new.state = "in_progress" /\ new.parent = row[t].parent
      /\ new.round = row[t].round /\ new.accepted = {}
  BY <1>3 DEF Rows, States
<1>5. row[t].round <= row[t].version
  BY <1>3, VersionFacts DEF RowIsSound, Rows
<1> HIDE DEF new
<1>6. MayWrite(s, t, new) /\ KeepsParts(s, t, new)
  BY <1>2, <1>3, <1>4, <1>5 DEF MayWrite, KeepsParts, RowIsSound
<1>7. waitsFor' \in [Tasks -> SUBSET Tasks]
  BY <1>1 DEF IndInv, TypeOK
<1> QED BY <1>1, <1>2, <1>4, <1>6, <1>7, WritingKeeps

\* Where a command runs alone, nobody is left in flight when it ends.
LEMMA EndingAlone ==
  ASSUME IndInv, NEW s \in Sessions, Ends(s), txn[s].cmd \notin Overlapping \cup {"none"}
  PROVE  \A r \in Sessions : RunsAlone(r)' /\ Knows(r)'
<1>1. \A r \in Sessions : txn'[r].cmd = "none"
  <2>1. txn'[s] = NoTxn /\ NoTxn.cmd = "none" /\ \A r \in Sessions \ {s} : txn'[r] = txn[r]
    BY Ending
  <2>2. \A r \in Sessions \ {s} : txn[r].cmd = "none"
    BY DEF IndInv, RunsAlone
  <2> QED BY <2>1, <2>2
<1> QED BY <1>1, Ending DEF Knows, KnowsOfChange, KnowsOfAgree, KnowsOfReport, KnowsOfReopen, KnowsOfMove,
                            KnowsOfOrder, KnowsOfAdd, KnowsOfDecide

\* move: the new parent exists, and where moves run alone it is not done.
LEMMA EndMoveKeeps ==
  ASSUME VersionsAreOrdered, IndInv, NEW s \in Sessions, EndMove(s)
  PROVE  IndInv'
<1> DEFINE t == txn[s].task
           p == txn[s].other
           new == [row[t] EXCEPT !.parent = p]
<1>1. /\ txn[s].cmd = "move" /\ Moves(s, t, new) /\ KnowsOfMove(s)
      /\ waitsFor' \in [Tasks -> SUBSET Tasks]
  BY DEF EndMove, IndInv, TypeOK, Knows
<1>2. /\ Holds(s, t) /\ t \in Tasks /\ Born(t) /\ p \in Tasks \cup {Nothing}
      /\ p # Nothing => Born(p) /\ (PartsAreOrdered => row[p].state # "done")
  BY <1>1 DEF KnowsOfMove, Holds
<1>3. row[t] \in Rows /\ RowIsSound(t)
  BY <1>2 DEF IndInv, TypeOK
<1> HIDE DEF t, p
<1>4. /\ new \in Rows /\ new.state = row[t].state /\ new.parent = p
      /\ new.round = row[t].round /\ new.accepted = row[t].accepted
  BY <1>2, <1>3 DEF Rows
<1> HIDE DEF new
<1>5. row[t].round <= row[t].version
  BY <1>3, VersionFacts DEF RowIsSound, Rows
<1>6. MayWrite(s, t, new)
  BY <1>2, <1>3, <1>4, <1>5 DEF MayWrite, RowIsSound, Born
<1>7. CASE ~PartsAreOrdered
  BY <1>1, <1>2, <1>4, <1>6, <1>7, WritingKeeps
<1>8. CASE PartsAreOrdered
  <2>1. TypeOK' /\ \A u \in Tasks : RowIsSound(u)' /\ PictureIsSound(u)'
    BY <1>1, <1>2, <1>4, <1>6, WrittenRows
  <2>2. /\ Ends(s) /\ row'[t].state = row[t].state /\ row'[t].parent = p
        /\ \A u \in Tasks \ {t} : row'[u] = row[u]
        /\ \A u \in Tasks : Born(u)' <=> Born(u)
    BY <1>1, <1>2, <1>4, WritingARow DEF Born
  <2>3. \A r \in Sessions : RunsAlone(r)' /\ Knows(r)'
    BY <1>1, <1>8, <2>2, EndingAlone DEF PartsAreOrdered
  <2>4. DoneTaskHasNoOpenPart'
    <3> SUFFICES ASSUME NEW q \in Tasks, row'[q].state = "done", NEW c \in Children(q)' PROVE Settled(c)'
      BY DEF DoneTaskHasNoOpenPart
    <3>1. row[q].state = "done" /\ c \in Tasks /\ q # Nothing /\ row'[c].parent = q /\ Born(c)
      BY <2>2, TasksAssumption DEF Children
    <3>2. c # t
      BY <1>2, <1>8, <2>2, <3>1
    <3>3. row'[c] = row[c] /\ Settled(c)
      BY <1>8, <2>2, <3>1, <3>2 DEF IndInv, DoneTaskHasNoOpenPart, Children
    <3> QED BY <3>3 DEF Settled, External, Approved
  <2> QED BY <2>1, <2>3, <2>4 DEF IndInv
<1> QED BY <1>7, <1>8

\* order: the row gets a version and keeps everything else.
LEMMA EndOrderKeeps ==
  ASSUME VersionsAreOrdered, IndInv, NEW s \in Sessions, EndOrder(s)
  PROVE  IndInv'
<1> DEFINE t == txn[s].task
           new == row[t]
<1>1. /\ txn[s].cmd = "order" /\ Moves(s, t, new) /\ KnowsOfOrder(s)
      /\ waitsFor' = [waitsFor EXCEPT ![t] = txn[s].wanted]
  BY DEF EndOrder, IndInv, Knows
<1>2. Holds(s, t) /\ t \in Tasks /\ Born(t) /\ txn[s].wanted \in SUBSET Tasks
  BY <1>1 DEF KnowsOfOrder, Holds, IndInv, TypeOK, Txns
<1>3. new \in Rows /\ RowIsSound(t)
  BY <1>2 DEF IndInv, TypeOK
<1>4. waitsFor' \in [Tasks -> SUBSET Tasks]
  BY <1>1, <1>2 DEF IndInv, TypeOK
<1> HIDE DEF t
<1>5. new.round <= row[t].version
  BY <1>3, VersionFacts DEF RowIsSound, Rows
<1>6. MayWrite(s, t, new) /\ KeepsParts(s, t, new)
  BY <1>2, <1>3, <1>5 DEF MayWrite, KeepsParts, RowIsSound, Born
<1> QED BY <1>1, <1>2, <1>3, <1>4, <1>6, WritingKeeps

\* add: nobody is a part of a task that does not exist yet, and the parent is not done.
LEMMA EndAddKeeps ==
  ASSUME VersionsAreOrdered, IndInv, NEW s \in Sessions, EndAdd(s)
  PROVE  IndInv'
<1>1. /\ txn[s].cmd = "add" /\ Ends(s) /\ waitsFor' = waitsFor /\ KnowsOfAdd(s)
      /\ row \in [Tasks -> Rows] /\ picture \in [Tasks -> [Versions -> States \cup {"none"}]]
      /\ \A u \in Tasks : RowIsSound(u) /\ PictureIsSound(u)
  BY DEF EndAdd, IndInv, TypeOK, Knows
<1>2. PICK c \in Tasks, p \in Tasks \cup {Nothing} :
        /\ c = txn[s].task /\ p = txn[s].other /\ ~Born(c)
        /\ p # Nothing => /\ p \in Tasks /\ p # c /\ Born(p) /\ row[p].state # "done"
                          /\ row[p].version < MaxVersion[p] /\ txn[s].seen = row[p].version
                          /\ txn[s].target = row[p].state
  <2>1. txn[s].other \in Tasks \cup {Nothing}
    BY DEF IndInv, TypeOK, Txns
  <2> QED BY <1>1, <2>1 DEF KnowsOfAdd
<1> DEFINE v == txn[s].seen + 1
<1>3. /\ row' = [t \in Tasks |-> IF t = c THEN Fresh(p)
                                 ELSE IF t = p THEN [row[t] EXCEPT !.version = v] ELSE row[t]]
      /\ picture' = [t \in Tasks |-> IF t = c THEN [picture[c] EXCEPT ![1] = "open"]
                                     ELSE IF t = p THEN Pictured(p, v, txn[s].target)[p] ELSE picture[t]]
  BY <1>2 DEF EndAdd
<1>4. 1 \in Versions /\ (p # Nothing => v \in Versions /\ v = row[p].version + 1 /\ v <= MaxVersion[p])
  BY <1>1, <1>2, VersionFacts DEF Rows
<1> HIDE DEF v
<1>5. /\ Fresh(p).state = "open" /\ Fresh(p).version = 1 /\ Fresh(p).parent = p
      /\ Fresh(p).round = 0 /\ Fresh(p).answered = {} /\ Fresh(p).accepted = {}
      /\ Fresh(p) \in Rows
  <2>1. Unborn \in Rows
    BY <1>4 DEF Unborn, Rows
  <2> QED BY <1>2, <2>1 DEF Fresh, Unborn, Rows, States
<1>6. \A u \in Tasks \ {c, p} : row'[u] = row[u] /\ picture'[u] = picture[u]
  BY <1>3
<1>7. row'[c] = Fresh(p) /\ picture'[c] = [picture[c] EXCEPT ![1] = "open"]
  BY <1>3
<1>8. ASSUME p # Nothing
      PROVE  /\ row'[p] \in Rows /\ row'[p].state = row[p].state /\ row'[p].version = row[p].version + 1
             /\ row'[p].parent = row[p].parent /\ row'[p].round = row[p].round
             /\ row'[p].accepted = row[p].accepted
             /\ picture'[p] = [picture[p] EXCEPT ![v] = row[p].state]
  <2>1. row'[p] = [row[p] EXCEPT !.version = v]
    BY <1>2, <1>3, <1>8
  <2>2. picture[p][v] = "none"
    <3>1. v > row[p].version
      BY <1>1, <1>2, <1>4, <1>8, VersionFacts DEF Rows
    <3> QED BY <1>1, <1>2, <1>4, <1>8, <3>1 DEF PictureIsSound
  <2>3. picture'[p] = [picture[p] EXCEPT ![v] = row[p].state]
    BY <1>1, <1>2, <1>3, <1>8, <2>2 DEF Pictured
  <2>4. row[p] \in Rows /\ v \in Versions /\ v = row[p].version + 1
    BY <1>1, <1>2, <1>4, <1>8
  <2>5. /\ row'[p] \in Rows /\ row'[p].state = row[p].state /\ row'[p].version = v
        /\ row'[p].parent = row[p].parent /\ row'[p].round = row[p].round
        /\ row'[p].accepted = row[p].accepted
    BY <2>1, <2>4 DEF Rows
  <2> QED BY <2>3, <2>4, <2>5
<1>9. /\ row' \in [Tasks -> Rows] /\ picture' \in [Tasks -> [Versions -> States \cup {"none"}]]
      /\ \A u \in Tasks \ {c} : /\ row'[u].state = row[u].state /\ row'[u].parent = row[u].parent
                                /\ row'[u].round = row[u].round /\ row'[u].accepted = row[u].accepted
      /\ \A u \in Tasks : Born(u)' <=> Born(u) \/ u = c
  <2>1. ASSUME NEW u \in Tasks PROVE row'[u] \in Rows
    <3>1. CASE u = c BY <1>5, <1>7, <3>1
    <3>2. CASE u = p BY <1>2, <1>8, <3>2, TasksAssumption
    <3>3. CASE u \notin {c, p} BY <1>1, <1>6, <3>3
    <3> QED BY <3>1, <3>2, <3>3
  <2>2. ASSUME NEW u \in Tasks PROVE picture'[u] \in [Versions -> States \cup {"none"}]
    <3>1. CASE u = c BY <1>1, <1>7, <3>1 DEF States
    <3>2. CASE u = p
      <4>1. p # Nothing /\ p \in Tasks /\ row[p].state \in States \cup {"none"}
        BY <1>1, <3>2, TasksAssumption DEF Rows
      <4>2. picture[p] \in [Versions -> States \cup {"none"}]
        BY <1>1, <4>1
      <4> QED BY <1>8, <3>2, <4>1, <4>2
    <3>3. CASE u \notin {c, p} BY <1>1, <1>6, <3>3
    <3> QED BY <3>1, <3>2, <3>3
  <2>3. row' \in [Tasks -> Rows] /\ picture' \in [Tasks -> [Versions -> States \cup {"none"}]]
    BY <1>3, <2>1, <2>2
  <2>4. ASSUME NEW u \in Tasks \ {c}
        PROVE  /\ row'[u].state = row[u].state /\ row'[u].parent = row[u].parent
               /\ row'[u].round = row[u].round /\ row'[u].accepted = row[u].accepted
    <3>1. CASE u = p BY <1>2, <1>8, <3>1, TasksAssumption
    <3>2. CASE u \notin {c, p} BY <1>6, <3>2
    <3> QED BY <3>1, <3>2
  <2> QED BY <1>5, <1>7, <2>3, <2>4 DEF Born
<1>10. TypeOK'
  BY <1>1, <1>9, Ending DEF IndInv, TypeOK
<1>11. \A u \in Tasks : row[u].parent \in Tasks \cup {Nothing}
  BY <1>1 DEF Rows
<1>12. ASSUME NEW u \in Tasks PROVE RowIsSound(u)'
  <2>1. CASE u = c
    <3>1. MaxVersion[c] >= 1 /\ ~Born(c) /\ row'[c].state = "open"
      BY <1>2, <1>5, <1>7, VersionFacts
    <3>2. p # Nothing => row'[p].state # "none"
      BY <1>2, <1>8 DEF Born
    <3> QED BY <1>5, <1>7, <2>1, <3>1, <3>2 DEF RowIsSound, Born
  <2>2. CASE u # c
    <3>1. row'[u].version <= MaxVersion[u] /\ row'[u].round < row'[u].version
      <4>1. CASE u = p
        <5>1. row[u].round \in Nat /\ row[u].version \in Nat /\ row[u].round < row[u].version /\ p # Nothing
          BY <1>1, <4>1, VersionFacts, TasksAssumption DEF RowIsSound, Rows
        <5> QED BY <1>4, <1>8, <4>1, <5>1
      <4>2. CASE u # p
        BY <1>1, <1>6, <2>2, <4>2 DEF RowIsSound
      <4> QED BY <4>1, <4>2
    <3>2. row'[u].parent # Nothing => row'[row'[u].parent].state # "none"
      BY <1>1, <1>9, <1>11, <2>2 DEF RowIsSound, Born
    <3>3. row'[u].state = "none" => row'[u] = Unborn
      <4>1. row'[u].state = "none" => u # p
        BY <1>2, <1>9, <2>2, TasksAssumption DEF Born
      <4> QED BY <1>1, <1>6, <2>2, <4>1 DEF RowIsSound, Born
    <3> QED BY <1>1, <1>9, <2>2, <3>1, <3>2, <3>3 DEF RowIsSound, Born
  <2> QED BY <2>1, <2>2
<1>13. ASSUME NEW u \in Tasks PROVE PictureIsSound(u)'
  <2>1. CASE u = c
    <3>1. \A w \in Versions : picture[c][w] = "none"
      BY <1>1, <1>2 DEF PictureIsSound
    <3>2. picture'[c][1] = "open" /\ \A w \in Versions : w > 1 => picture'[c][w] = "none"
      BY <1>1, <1>4, <1>7, <3>1
    <3> QED BY <1>5, <1>7, <2>1, <3>2 DEF PictureIsSound, Born
  <2>2. CASE u = p
    <3>1. p # Nothing /\ p \in Tasks /\ row[p].version \in Nat
      BY <1>1, <2>2, VersionFacts, TasksAssumption DEF Rows
    <3>2. picture'[p][v] = row[p].state
      BY <1>1, <1>4, <1>8, <3>1
    <3>3. \A w \in Versions : w > v => picture'[p][w] = "none"
      <4> SUFFICES ASSUME NEW w \in Versions, w > v PROVE picture'[p][w] = "none"
        OBVIOUS
      <4>1. w # v /\ w > row[p].version
        BY <1>4, <3>1, VersionFacts
      <4> QED BY <1>1, <1>4, <1>8, <3>1, <4>1 DEF PictureIsSound
    <3> QED BY <1>2, <1>4, <1>8, <2>2, <3>1, <3>2, <3>3 DEF PictureIsSound, Born
  <2>3. CASE u \notin {c, p}
    BY <1>1, <1>6, <2>3 DEF PictureIsSound, Born
  <2> QED BY <2>1, <2>2, <2>3
<1>14. \A r \in Sessions : RunsAlone(r)' /\ Knows(r)'
  BY <1>1, EndingAlone DEF VersionsAreOrdered
<1>16. ASSUME PartsAreOrdered PROVE DoneTaskHasNoOpenPart'
  <2> SUFFICES ASSUME NEW q \in Tasks, row'[q].state = "done", NEW x \in Children(q)' PROVE Settled(x)'
    BY DEF DoneTaskHasNoOpenPart
  <2>1. q # c /\ row[q].state = "done" /\ x \in Tasks /\ row'[x].parent = q /\ Born(x)'
    BY <1>5, <1>7, <1>9 DEF Children
  <2>2. x # c
    BY <1>2, <1>5, <1>7, <2>1, TasksAssumption
  <2>3. Settled(x)
    BY <1>9, <1>16, <2>1, <2>2 DEF IndInv, DoneTaskHasNoOpenPart, Children
  <2> QED BY <1>9, <2>1, <2>2, <2>3 DEF Settled, External, Approved
<1> QED BY <1>10, <1>12, <1>13, <1>14, <1>16 DEF IndInv

\* decide: the report is answered as it was read; its task was nobody's settled part.
LEMMA EndDecideKeeps ==
  ASSUME VersionsAreOrdered, IndInv, NEW s \in Sessions, EndDecide(s)
  PROVE  IndInv'
<1>1. /\ txn[s].cmd = "decide" /\ Ends(s) /\ waitsFor' = waitsFor /\ KnowsOfDecide(s)
      /\ row \in [Tasks -> Rows] /\ picture \in [Tasks -> [Versions -> States \cup {"none"}]]
      /\ \A u \in Tasks : RowIsSound(u) /\ PictureIsSound(u)
  BY DEF EndDecide, IndInv, TypeOK, Knows
<1>2. PICK t \in Tasks, decision \in {"done", "in_progress"} :
        /\ t = txn[s].task /\ decision = txn[s].target
        /\ row[t].state = "completion_submitted" /\ row[t].version < MaxVersion[t]
        /\ txn[s].seen = row[t].version /\ txn[s].round = row[t].round
        /\ decision = "done" => PartsAreSettled(t)
  BY <1>1 DEF KnowsOfDecide
<1> DEFINE r == row[t].round
           v == row[t].version + 1
           yes == IF decision = "done" THEN row[t].accepted \cup {r} ELSE row[t].accepted
           n == [row[t] EXCEPT !.state = decision, !.version = v, !.answered = @ \cup {r}, !.accepted = yes]
<1>3. v \in Versions /\ v > row[t].version /\ v <= MaxVersion[t] /\ r < v /\ r \in Versions
      /\ t \in Requested /\ row[t].round \notin row[t].accepted
  <2>1. /\ row[t].version \in Nat /\ MaxVersion[t] \in Nat /\ r \in {0} \cup Versions /\ r \in Nat
        /\ r < row[t].version /\ r # 0 /\ t \in Requested /\ row[t].round \notin row[t].accepted
    BY <1>1, <1>2, VersionFacts DEF Rows, RowIsSound
  <2> QED BY <1>2, <2>1, VersionFacts
<1>4. row' = [row EXCEPT ![t] = n] /\ picture' = [picture EXCEPT ![t][v] = decision]
  <2>1. picture[t][v] = "none"
    BY <1>1, <1>3 DEF PictureIsSound
  <2>2. picture' = [picture EXCEPT ![t][v] = decision]
    BY <1>2, <2>1 DEF EndDecide, Pictured
  <2>3. row' = [row EXCEPT ![t] = n]
    <3>1. CASE decision = "done"
      BY <1>1, <1>2, <3>1 DEF EndDecide
    <3>2. CASE decision # "done"
      BY <1>1, <1>2, <3>2 DEF EndDecide
    <3> QED BY <3>1, <3>2
  <2> QED BY <2>2, <2>3
<1>5. /\ n \in Rows /\ n.state = decision /\ n.version = v /\ n.parent = row[t].parent
      /\ n.round = r /\ n.accepted = yes
  <2>1. row[t] \in Rows /\ yes \in SUBSET Versions /\ row[t].answered \cup {r} \in SUBSET Versions
        /\ decision \in States
    BY <1>1, <1>3 DEF Rows, States
  <2> HIDE DEF yes, r, v
  <2>2. v \in Versions
    BY <1>3
  <2> QED BY <2>1, <2>2 DEF Rows, r
<1> HIDE DEF n
<1>6. /\ row' \in [Tasks -> Rows] /\ row'[t] = n /\ \A u \in Tasks \ {t} : row'[u] = row[u]
      /\ \A u \in Tasks : Born(u)' <=> Born(u)
  BY <1>1, <1>2, <1>4, <1>5 DEF Born
<1>7. /\ picture' \in [Tasks -> [Versions -> States \cup {"none"}]]
      /\ picture'[t][v] = decision /\ \A w \in Versions \ {v} : picture'[t][w] = picture[t][w]
      /\ \A u \in Tasks \ {t} : picture'[u] = picture[u]
  <2> HIDE DEF v
  <2> QED BY <1>1, <1>2, <1>3, <1>4 DEF States
<1>8. TypeOK'
  BY <1>1, <1>6, <1>7, Ending DEF IndInv, TypeOK
<1>9. ASSUME NEW u \in Tasks PROVE RowIsSound(u)'
  <2>1. row[u].parent \in Tasks \cup {Nothing}
    BY <1>1 DEF Rows
  <2>2. row'[u].parent # Nothing => row'[row'[u].parent].state # "none"
    <3>1. row'[u].parent = row[u].parent
      BY <1>5, <1>6
    <3> QED BY <1>1, <1>6, <2>1, <3>1 DEF RowIsSound, Born
  <2>3. CASE u = t
    <3>1. \A a \in yes : a <= r
      BY <1>1, <1>3, VersionFacts DEF RowIsSound
    <3> HIDE DEF yes, r, v
    <3> QED BY <1>2, <1>3, <1>5, <1>6, <2>2, <2>3, <3>1 DEF RowIsSound, Born
  <2>4. CASE u # t
    BY <1>1, <1>6, <2>2, <2>4 DEF RowIsSound, Born
  <2> QED BY <2>3, <2>4
<1>10. ASSUME NEW u \in Tasks PROVE PictureIsSound(u)'
  <2>1. CASE u = t
    <3>1. \A w \in Versions : w > v => picture'[t][w] = "none"
      <4> SUFFICES ASSUME NEW w \in Versions, w > v PROVE picture'[t][w] = "none"
        OBVIOUS
      <4>1. w # v /\ w > row[t].version
        BY <1>1, <1>3, VersionFacts DEF Rows
      <4> QED BY <1>1, <1>7, <4>1 DEF PictureIsSound
    <3> HIDE DEF v
    <3> QED BY <1>2, <1>5, <1>6, <1>7, <2>1, <3>1 DEF PictureIsSound, Born
  <2>2. CASE u # t
    BY <1>1, <1>6, <1>7, <2>2 DEF PictureIsSound, Born
  <2> QED BY <2>1, <2>2
<1>11. \A q \in Sessions : RunsAlone(q)' /\ Knows(q)'
  BY <1>1, EndingAlone DEF VersionsAreOrdered
<1>13. ASSUME PartsAreOrdered PROVE DoneTaskHasNoOpenPart'
  <2>1. ~ Settled(t)
    BY <1>2, <1>3 DEF Settled, External, Approved
  <2> SUFFICES ASSUME NEW q \in Tasks, row'[q].state = "done", NEW c \in Children(q)' PROVE Settled(c)'
    BY DEF DoneTaskHasNoOpenPart
  <2>2. c \in Children(q)
    BY <1>5, <1>6 DEF Children
  <2>3. Settled(c)
    <3>1. CASE q = t
      BY <1>2, <1>5, <1>6, <2>2, <3>1 DEF PartsAreSettled
    <3>2. CASE q # t
      BY <1>6, <1>13, <2>2, <3>2 DEF IndInv, DoneTaskHasNoOpenPart
    <3> QED BY <3>1, <3>2
  <2>4. c \in Tasks \ {t}
    BY <2>1, <2>2, <2>3 DEF Children
  <2> QED BY <1>6, <2>3, <2>4 DEF Settled, External, Approved
<1> QED BY <1>8, <1>9, <1>10, <1>11, <1>13 DEF IndInv

-----------------------------------------------------------------------------
(* The invariant, and what follows from it.                                *)

\* Before any command nothing is in flight, and no task has a part.
LEMMA Beginning == Init => IndInv
<1> SUFFICES ASSUME Init PROVE IndInv
  OBVIOUS
<1>1. \A t \in Tasks : 1 \in Versions /\ 1 <= MaxVersion[t]
  BY VersionFacts
<1>2. \A x \in {Unborn, Fresh(Nothing)} :
        /\ x.version = 1 /\ x.parent = Nothing /\ x.round = 0 /\ x.answered = {} /\ x.accepted = {}
        /\ x.state \in {"none", "open"} /\ (x.state = "none" => x = Unborn)
        /\ (\A t \in Tasks : x \in Rows)
  <2>1. \A t \in Tasks : Unborn \in Rows
    BY <1>1 DEF Unborn, Rows
  <2>2. \A t \in Tasks : Fresh(Nothing) \in Rows
    BY <2>1 DEF Fresh, Rows, States
  <2>3. /\ Unborn.version = 1 /\ Unborn.parent = Nothing /\ Unborn.round = 0 /\ Unborn.answered = {}
        /\ Unborn.accepted = {} /\ Unborn.state = "none"
    BY DEF Unborn
  <2>4. /\ Fresh(Nothing).version = 1 /\ Fresh(Nothing).parent = Nothing /\ Fresh(Nothing).round = 0
        /\ Fresh(Nothing).answered = {} /\ Fresh(Nothing).accepted = {} /\ Fresh(Nothing).state = "open"
    BY DEF Fresh, Unborn
  <2> QED BY <2>1, <2>2, <2>3, <2>4
<1>3. \A t \in Tasks : row[t] \in {Unborn, Fresh(Nothing)} /\ row[t] \in Rows
  BY <1>2 DEF Init
<1>4. NoTxn \in Txns /\ NoTxn.cmd = "none"
  BY DEF NoTxn, Txns, States
<1>5. TypeOK
  <2>1. row \in [Tasks -> Rows]
    BY <1>3 DEF Init
  <2>2. picture \in [Tasks -> [Versions -> States \cup {"none"}]]
    BY <2>1 DEF Init, Rows
  <2> QED BY <1>4, <2>1, <2>2 DEF Init, TypeOK
<1>6. ASSUME NEW t \in Tasks PROVE RowIsSound(t) /\ PictureIsSound(t)
  <2>1. RowIsSound(t)
    BY <1>1, <1>2, <1>3 DEF RowIsSound, Born
  <2>2. picture[t] = [v \in Versions |-> IF v = 1 THEN row[t].state ELSE "none"]
    BY DEF Init
  <2> QED BY <1>1, <1>2, <1>3, <2>1, <2>2, VersionFacts DEF PictureIsSound, Born
<1>7. \A s \in Sessions : RunsAlone(s) /\ Knows(s)
  BY <1>4 DEF Init, RunsAlone, Knows, KnowsOfChange, KnowsOfAgree, KnowsOfReport, KnowsOfReopen, KnowsOfMove,
              KnowsOfOrder, KnowsOfAdd, KnowsOfDecide
<1>9. DoneTaskHasNoOpenPart
  BY <1>2, <1>3 DEF DoneTaskHasNoOpenPart
<1> QED BY <1>5, <1>6, <1>7, <1>9 DEF IndInv

\* Every step keeps the invariant.
LEMMA Stepping == VersionsAreOrdered /\ IndInv /\ [Next]_vars => IndInv'
<1> SUFFICES ASSUME VersionsAreOrdered, IndInv, [Next]_vars PROVE IndInv'
  OBVIOUS
<1>1. ASSUME NEW s \in Sessions, Begin(s) PROVE IndInv'
  <2>1. PICK t \in Tasks :
          \/ \E target \in States : BeginChange(s, t, target)
          \/ BeginAgree(s, t) \/ BeginReport(s, t) \/ BeginReopen(s, t)
          \/ \E p \in Tasks \cup {Nothing} : BeginMove(s, t, p) \/ BeginAdd(s, t, p)
          \/ \E wanted \in SUBSET Tasks : BeginOrder(s, t, wanted)
          \/ \E decision \in {"done", "in_progress"} : BeginDecide(s, t, decision)
    BY <1>1 DEF Begin
  <2>2. CASE \E target \in States : BeginChange(s, t, target)
    BY <2>2, BeginChangeKeeps
  <2>3. CASE BeginAgree(s, t) \/ BeginReport(s, t) \/ BeginReopen(s, t)
    BY <2>3, BeginAgreeKeeps, BeginReportKeeps, BeginReopenKeeps
  <2>4. CASE \E p \in Tasks \cup {Nothing} : BeginMove(s, t, p) \/ BeginAdd(s, t, p)
    BY <2>4, BeginMoveKeeps, BeginAddKeeps
  <2>5. CASE \E wanted \in SUBSET Tasks : BeginOrder(s, t, wanted)
    BY <2>5, BeginOrderKeeps
  <2>6. CASE \E decision \in {"done", "in_progress"} : BeginDecide(s, t, decision)
    BY <2>6, BeginDecideKeeps
  <2> QED BY <2>1, <2>2, <2>3, <2>4, <2>5, <2>6
<1>2. ASSUME NEW s \in Sessions, End(s) PROVE IndInv'
  BY <1>2, EndChangeKeeps, EndReportKeeps, EndReopenKeeps, EndMoveKeeps, EndOrderKeeps, EndAddKeeps,
     EndDecideKeeps DEF End
<1>3. CASE UNCHANGED vars
  <2> USE <1>3 DEF vars
  <2>1. TypeOK' /\ \A t \in Tasks : RowIsSound(t)' /\ PictureIsSound(t)'
    BY DEF IndInv, TypeOK, RowIsSound, PictureIsSound, Born
  <2>2. \A s \in Sessions : RunsAlone(s)' /\ Knows(s)'
    <3> TAKE s \in Sessions
    <3>1. s \in Sessions \ {Nothing}
      BY TasksAssumption
    <3>2. Knows(s)'
      BY <3>1, OthersKnow
    <3> QED BY <3>2 DEF IndInv, RunsAlone
  <2>3. PartsAreOrdered => DoneTaskHasNoOpenPart'
    BY DEF IndInv, PartsAreOrdered, DoneTaskHasNoOpenPart, Children, Settled, External, Approved, Born
  <2> QED BY <2>1, <2>2, <2>3 DEF IndInv
<1> QED BY <1>1, <1>2, <1>3, LockParentKeeps, RollbackKeeps DEF Next

\* The invariant holds of every run whose additions and decisions run alone.
THEOREM Invariance == VersionsAreOrdered /\ Spec => []IndInv
<1> SUFFICES ASSUME VersionsAreOrdered PROVE Spec => []IndInv
  OBVIOUS
<1>1. Init => IndInv
  BY Beginning
<1>2. IndInv /\ [Next]_vars => IndInv'
  BY Stepping
<1> QED BY <1>1, <1>2, PTL DEF Spec

\* Every row, picture, lock and transaction keeps its type: no command gets past the
\* last version, and no round is counted that was not reported.
THEOREM TypeCorrect == VersionsAreOrdered /\ Spec => []TypeOK
<1>1. IndInv => TypeOK
  BY DEF IndInv
<1> QED BY <1>1, Invariance, PTL

\* The picture frozen for a version shows the task in that version.
THEOREM PicturesShowTheirTasks == VersionsAreOrdered /\ Spec => []PictureShowsTheTask
<1>1. IndInv => PictureShowsTheTask
  BY DEF IndInv, PictureIsSound, PictureShowsTheTask
<1> QED BY <1>1, Invariance, PTL

\* A finished task has no unfinished part: complete reads the parts under the lock of
\* the task, reopen takes the parent's lock before it writes, and each waits for the
\* other; finished tasks are not started again.
THEOREM NoOpenPartUnderADoneTask ==
  VersionsAreOrdered /\ PartsAreOrdered /\ Spec => []DoneTaskHasNoOpenPart
<1> SUFFICES ASSUME VersionsAreOrdered, PartsAreOrdered PROVE Spec => []DoneTaskHasNoOpenPart
  OBVIOUS
<1>1. IndInv => DoneTaskHasNoOpenPart
  BY DEF IndInv
<1>2. Spec => []IndInv
  BY Invariance
<1> QED BY <1>1, <1>2, PTL

-----------------------------------------------------------------------------
(* What can be reached, and cycles.                                        *)

Edges == [Tasks -> SUBSET Tasks]
Acyclic(edges) == \A t \in Tasks : t \notin Reach(edges[t], edges)

\* What can be reached holds the set it starts from, and is closed ...
LEMMA ReachIsClosed ==
  ASSUME NEW edges \in Edges, NEW S \in SUBSET Tasks
  PROVE  /\ S \subseteq Reach(S, edges) /\ Reach(S, edges) \subseteq Tasks
         /\ \A u \in Reach(S, edges) : edges[u] \subseteq Reach(S, edges)
BY DEF Reach, Edges

\* ... and lies in every closed set that holds it.
LEMMA ReachIsLeast ==
  ASSUME NEW edges \in Edges, NEW S \in SUBSET Tasks, NEW C \in SUBSET Tasks,
         S \subseteq C, \A u \in C : edges[u] \subseteq C
  PROVE  Reach(S, edges) \subseteq C
BY DEF Reach

\* New edges of one task close no cycle when they do not lead back to it: the walk of
\* _require_no_predecessor_cycle and of _ancestor_ids is enough.
LEMMA NewEdgesCloseNoCycle ==
  ASSUME NEW edges \in Edges, Acyclic(edges), NEW t \in Tasks, NEW W \in SUBSET Tasks,
         t \notin Reach(W, edges)
  PROVE  Acyclic([edges EXCEPT ![t] = W])
<1> DEFINE new == [edges EXCEPT ![t] = W]
<1>1. new \in Edges /\ new[t] = W /\ \A u \in Tasks \ {t} : new[u] = edges[u]
  BY DEF Edges
<1> HIDE DEF new
<1>2. \A u \in Tasks : edges[u] \in SUBSET Tasks /\ new[u] \in SUBSET Tasks
  BY <1>1 DEF Edges
<1> DEFINE C == Reach(W, edges)
<1>3. /\ W \subseteq C /\ C \subseteq Tasks /\ t \notin C
      /\ \A u \in C : edges[u] \subseteq C
  BY ReachIsClosed
<1> HIDE DEF C
<1>4. \A u \in C : new[u] \subseteq C
  BY <1>1, <1>3
<1>5. ASSUME NEW u \in Tasks PROVE u \notin Reach(new[u], new)
  <2>1. CASE u = t
    <3>1. Reach(W, new) \subseteq C
      BY <1>1, <1>3, <1>4, ReachIsLeast
    <3> QED BY <1>1, <1>3, <2>1, <3>1
  <2>2. CASE u # t
    <3> DEFINE D == Reach(edges[u], edges)
    <3>1. /\ edges[u] \subseteq D /\ D \subseteq Tasks /\ u \notin D
          /\ \A x \in D : edges[x] \subseteq D
      BY <1>2, ReachIsClosed DEF Acyclic
    <3> HIDE DEF D
    <3>2. CASE t \notin D
      <4>1. \A x \in D : new[x] \subseteq D
        BY <1>1, <3>1, <3>2
      <4>2. Reach(new[u], new) \subseteq D
        BY <1>1, <1>2, <2>2, <3>1, <4>1, ReachIsLeast
      <4> QED BY <3>1, <4>2
    <3>3. CASE t \in D
      <4>1. u \notin C
        <5> SUFFICES ASSUME u \in C PROVE FALSE
          OBVIOUS
        <5>1. edges[u] \subseteq C
          BY <1>3
        <5>2. D \subseteq C
          BY <1>2, <1>3, <5>1, ReachIsLeast DEF D
        <5> QED BY <1>3, <3>3, <5>2
      <4>2. \A x \in C \cup D : new[x] \subseteq C \cup D
        BY <1>1, <1>3, <3>1
      <4>3. Reach(new[u], new) \subseteq C \cup D
        BY <1>1, <1>2, <1>3, <2>2, <3>1, <4>2, ReachIsLeast
      <4> QED BY <3>1, <4>1, <4>3
    <3> QED BY <3>2, <3>3
  <2> QED BY <2>1, <2>2
<1> QED BY <1>5 DEF Acyclic, new

-----------------------------------------------------------------------------
(***************************************************************************)
(* Cycles.  Every command may overlap every other one here, those included *)
(* that spoil the versions: this invariant bounds no version and no round. *)
(* It says of the walk of a command in flight what locks make last (the    *)
(* way back is no single edge), and what lasts until somebody else commits *)
(* an edge (there is no way back).                                         *)
(***************************************************************************)

LooseRows == [state : States \cup {"none"}, version : Int, parent : Tasks \cup {Nothing},
              round : Int, answered : SUBSET Int, accepted : SUBSET Int]
LooseTxns == [cmd : Commands \cup {"none"}, task : Tasks \cup {Nothing}, other : Tasks \cup {Nothing},
              target : States, wanted : SUBSET Tasks, seen : Int, round : Int]

LooselyTyped ==
    /\ row \in [Tasks -> LooseRows]
    /\ waitsFor \in [Tasks -> SUBSET Tasks]
    /\ lock \in [Tasks -> Sessions \cup {Nothing}]
    /\ txn \in [Sessions -> LooseTxns]

\* What does not exist is a part of nothing, and has no parts.
PartsExist ==
    \A t \in Tasks :
        /\ ~Born(t) => row[t].parent = Nothing
        /\ row[t].parent # Nothing => Born(row[t].parent)

Walks == {"order", "move"}

\* What a command that began may count on until it ends: its tasks exist, and those it
\* leads an edge to have none back.
Walked(x) ==
    /\ x.cmd \notin {"none", "add"} => x.task \in Tasks /\ Born(x.task)
    /\ x.cmd = "add" => x.task \in Tasks /\ ~Born(x.task)
    /\ x.cmd \in {"add", "move"} /\ x.other # Nothing => Born(x.other)
    /\ x.cmd = "move" /\ x.other # Nothing => x.other # x.task /\ row[x.other].parent # x.task
    /\ x.cmd = "order" => x.task \notin x.wanted /\ \A p \in x.wanted : x.task \notin waitsFor[p]

\* Its walk would find no way back, if it were made now.
WalkHolds(x) ==
    /\ x.cmd = "move" /\ x.other # Nothing => x.task \notin Reach({x.other}, Parents)
    /\ x.cmd = "order" => NoCycle(x.task, x.wanted)

HoldsItsTask(s) == txn[s].cmd \in Walks => lock[txn[s].task] = s

NoTaskIsAddedTwice ==
    \A r, s \in Sessions :
        r # s /\ txn[r].cmd = "add" /\ txn[s].cmd = "add" => txn[r].task # txn[s].task

CycleInv ==
    /\ LooselyTyped /\ PartsExist /\ NoTaskIsAddedTwice
    /\ \A s \in Sessions : /\ Walked(txn[s]) /\ HoldsItsTask(s)
                           /\ s \notin overtaken => WalkHolds(txn[s])
    /\ NoTwoTasksWaitForEachOther

\* The parts and the predecessors are edges.
LEMMA PartsAndPredecessors ==
  ASSUME LooselyTyped
  PROVE  /\ Parents \in Edges /\ waitsFor \in Edges
         /\ NothingWaitsForItself <=> Acyclic(waitsFor) /\ Acyclic(Parents)
<1>1. Parents \in Edges /\ waitsFor \in Edges
  BY DEF LooselyTyped, LooseRows, Parents, Edges
<1> QED BY <1>1 DEF NothingWaitsForItself, PredecessorsAreAcyclic, PartsAreAcyclic, Acyclic

\* What a session is about after a step of another one, and its own.
LEMMA NextTxn ==
  ASSUME CycleInv, NEW s \in Sessions, NEW x \in LooseTxns, txn' = [txn EXCEPT ![s] = x]
  PROVE  /\ txn' \in [Sessions -> LooseTxns] /\ txn'[s] = x
         /\ \A r \in Sessions \ {s} : txn'[r] = txn[r]
BY DEF CycleInv, LooselyTyped

\* A walk that nobody has overtaken held before the step, and its edges are as they were.
LEMMA NotOvertaken ==
  ASSUME CycleInv, Record, NEW r \in Sessions, txn'[r] = txn[r], r \notin overtaken'
  PROVE  /\ WalkHolds(txn[r])
         /\ txn[r].cmd = "order" => waitsFor' = waitsFor
         /\ txn[r].cmd = "move" => \A t \in Tasks : Born(t) => row'[t].parent = row[t].parent
<1>1. CASE txn[r].cmd \in Walks
  BY <1>1 DEF CycleInv, Record, ChangesEdges, Walks
<1>2. CASE txn[r].cmd \notin Walks
  BY <1>2 DEF WalkHolds, Walks
<1> QED BY <1>1, <1>2

\* A step that leaves every task where it is keeps the invariant, if the command of its
\* session may count on what it has to.
LEMMA StandingKeeps ==
  ASSUME CycleInv, Record, NEW s \in Sessions, NEW x \in LooseTxns, txn' = [txn EXCEPT ![s] = x],
         row' \in [Tasks -> LooseRows], waitsFor' = waitsFor,
         \A u \in Tasks : row'[u].parent = row[u].parent /\ (Born(u)' <=> Born(u)),
         lock' \in [Tasks -> Sessions \cup {Nothing}],
         \A u \in Tasks : \A r \in Sessions \ {s} : lock[u] = r => lock'[u] = r,
         Walked(x), WalkHolds(x), x.cmd \in Walks => lock'[x.task] = s,
         x.cmd = "add" => \A r \in Sessions \ {s} : txn[r].cmd = "add" => txn[r].task # x.task
  PROVE  CycleInv'
<1>1. /\ txn' \in [Sessions -> LooseTxns] /\ txn'[s] = x
      /\ \A r \in Sessions \ {s} : txn'[r] = txn[r]
  BY NextTxn
<1>2. LooselyTyped'
  BY <1>1 DEF CycleInv, LooselyTyped
<1>3. Parents' = Parents
  BY DEF Parents
<1>4. \A u \in Tasks : row[u].parent \in Tasks \cup {Nothing}
  BY DEF CycleInv, LooselyTyped, LooseRows
<1>5. PartsExist'
  <2> SUFFICES ASSUME NEW u \in Tasks
               PROVE  /\ ~Born(u)' => row'[u].parent = Nothing
                      /\ row'[u].parent # Nothing => row'[row'[u].parent].state # "none"
    BY DEF PartsExist, Born
  <2> QED BY <1>4 DEF CycleInv, PartsExist, Born
<1>6. NoTaskIsAddedTwice'
  BY <1>1 DEF CycleInv, NoTaskIsAddedTwice
<1>7. ASSUME NEW y \in LooseTxns, Walked(y)
      PROVE  /\ y.cmd \notin {"none", "add"} => y.task \in Tasks /\ row'[y.task].state # "none"
             /\ y.cmd = "add" => y.task \in Tasks /\ row'[y.task].state = "none"
             /\ y.cmd \in {"add", "move"} /\ y.other # Nothing => row'[y.other].state # "none"
             /\ y.cmd = "move" /\ y.other # Nothing => y.other # y.task /\ row'[y.other].parent # y.task
             /\ y.cmd = "order" => y.task \notin y.wanted /\ \A p \in y.wanted : y.task \notin waitsFor'[p]
  <2>1. y.other \in Tasks \cup {Nothing}
    BY DEF LooseTxns
  <2> QED BY <1>7, <2>1 DEF Walked, Born
<1>8. ASSUME NEW r \in Sessions
      PROVE  Walked(txn[r])' /\ HoldsItsTask(r)' /\ (r \notin overtaken' => WalkHolds(txn[r])')
  <2>1. txn'[r] \in LooseTxns /\ Walked(txn'[r])
    <3>1. CASE r = s
      BY <1>1, <3>1
    <3>2. CASE r # s
      BY <1>1, <3>2 DEF CycleInv
    <3> QED BY <3>1, <3>2
  <2>2. Walked(txn[r])'
    BY <2>1, <1>7 DEF Walked, Born
  <2>3. HoldsItsTask(r)'
    <3>1. CASE r = s
      BY <1>1, <3>1 DEF HoldsItsTask
    <3>2. CASE r # s
      <4>1. txn'[r] = txn[r] /\ HoldsItsTask(r) /\ Walked(txn[r])
        BY <1>1, <3>2 DEF CycleInv
      <4> QED BY <3>2, <4>1 DEF HoldsItsTask, Walked, Walks
    <3> QED BY <3>1, <3>2
  <2>4. r \notin overtaken' => WalkHolds(txn'[r])
    <3>1. CASE r = s
      BY <1>1, <3>1
    <3>2. CASE r # s
      BY <1>1, <3>2, NotOvertaken
    <3> QED BY <3>1, <3>2
  <2>5. WalkHolds(txn'[r]) => WalkHolds(txn[r])'
    BY <1>3 DEF WalkHolds, NoCycle, Reach
  <2> QED BY <2>2, <2>3, <2>4, <2>5
<1>9. NoTwoTasksWaitForEachOther'
  BY <1>3 DEF CycleInv, NoTwoTasksWaitForEachOther
<1> QED BY <1>2, <1>5, <1>6, <1>8, <1>9 DEF CycleInv

\* A command that begins.
LEMMA StartingKeeps ==
  ASSUME CycleInv, Record, NEW s \in Sessions, NEW x \in LooseTxns, txn' = [txn EXCEPT ![s] = x],
         UNCHANGED <<row, waitsFor>>,
         lock' = lock \/ \E t \in Tasks : lock[t] = Nothing /\ lock' = [lock EXCEPT ![t] = s],
         Walked(x), WalkHolds(x), x.cmd \in Walks => lock'[x.task] = s,
         x.cmd = "add" => \A r \in InFlight : txn[r].task # x.task
  PROVE  CycleInv'
<1>1. row' \in [Tasks -> LooseRows] /\ \A u \in Tasks : row'[u].parent = row[u].parent /\ (Born(u)' <=> Born(u))
  BY DEF CycleInv, LooselyTyped, Born
<1>2. /\ lock' \in [Tasks -> Sessions \cup {Nothing}]
      /\ \A u \in Tasks : \A r \in Sessions \ {s} : lock[u] = r => lock'[u] = r
  BY TasksAssumption DEF CycleInv, LooselyTyped
<1>3. x.cmd = "add" => \A r \in Sessions \ {s} : txn[r].cmd = "add" => txn[r].task # x.task
  BY DEF InFlight
<1> QED BY <1>1, <1>2, <1>3, StandingKeeps

\* The transaction that ends knows nothing any more.
LEMMA NothingIsKnownAtTheEnd ==
  NoTxn \in LooseTxns /\ NoTxn.cmd = "none" /\ Walked(NoTxn) /\ WalkHolds(NoTxn)
<1>1. NoTxn \in LooseTxns /\ NoTxn.cmd = "none"
  BY DEF NoTxn, LooseTxns, States
<1> QED BY <1>1 DEF Walked, WalkHolds

\* Its locks are free, and those of the others stay.
LEMMA LocksOfOthersStay ==
  ASSUME CycleInv, NEW s \in Sessions, Ends(s)
  PROVE  /\ lock' \in [Tasks -> Sessions \cup {Nothing}]
         /\ \A u \in Tasks : \A r \in Sessions \ {s} : lock[u] = r => lock'[u] = r
         /\ txn' = [txn EXCEPT ![s] = NoTxn]
BY DEF CycleInv, LooselyTyped, Ends

\* A command that ends without moving a task.
LEMMA EndsWhereItStands ==
  ASSUME CycleInv, Record, NEW s \in Sessions, Ends(s), row' \in [Tasks -> LooseRows], waitsFor' = waitsFor,
         \A u \in Tasks : row'[u].parent = row[u].parent /\ (Born(u)' <=> Born(u))
  PROVE  CycleInv'
<1>1. NoTxn.cmd \notin Walks /\ NoTxn.cmd # "add"
  BY NothingIsKnownAtTheEnd DEF Walks
<1> QED BY <1>1, NothingIsKnownAtTheEnd, LocksOfOthersStay, StandingKeeps

\* Beginnings read: the parent and its ancestors, or the predecessors and theirs.
LEMMA BeginKeepsWalks ==
  ASSUME CycleInv, Record, NEW s \in Sessions, Begin(s)
  PROVE  CycleInv'
<1> PICK t \in Tasks :
      \/ \E target \in States : BeginChange(s, t, target)
      \/ BeginAgree(s, t) \/ BeginReport(s, t) \/ BeginReopen(s, t)
      \/ \E p \in Tasks \cup {Nothing} : BeginMove(s, t, p) \/ BeginAdd(s, t, p)
      \/ \E wanted \in SUBSET Tasks : BeginOrder(s, t, wanted)
      \/ \E decision \in {"done", "in_progress"} : BeginDecide(s, t, decision)
  BY DEF Begin
<1>1. /\ NoTxn \in LooseTxns /\ row[t] \in LooseRows /\ MaxVersion[t] \in Int
  BY NothingIsKnownAtTheEnd, TasksAssumption DEF CycleInv, LooselyTyped
<1>2. \A x \in LooseTxns : x.cmd \notin {"none", "add", "move", "order"} /\ x.task = t /\ Born(t) =>
                           Walked(x) /\ WalkHolds(x) /\ x.cmd \notin Walks
  BY DEF Walked, WalkHolds, Walks
<1> DEFINE Locked == lock[t] = Nothing /\ lock' = [lock EXCEPT ![t] = s] /\ lock'[t] = s
<1>11. Locks(s, t) => Locked
  BY DEF Locks, CycleInv, LooselyTyped
<1> HIDE DEF Locked
<1>3. ASSUME NEW target \in States, BeginChange(s, t, target) PROVE CycleInv'
  <2> DEFINE x == [NoTxn EXCEPT !.cmd = "change", !.task = t, !.target = target]
  <2>1. Begins(s, "change") /\ Born(t) /\ Locked /\ txn' = [txn EXCEPT ![s] = x] /\ UNCHANGED <<row, waitsFor>>
    BY <1>3, <1>11 DEF BeginChange, Locks
  <2>2. x \in LooseTxns /\ x.cmd = "change" /\ x.task = t
    BY <1>1, <2>1 DEF Begins, LooseTxns
  <2> HIDE DEF x
  <2> QED BY <1>2, <2>1, <2>2, StartingKeeps DEF Locked
<1>4. ASSUME BeginAgree(s, t) PROVE CycleInv'
  <2> DEFINE x == [NoTxn EXCEPT !.cmd = "agree", !.task = t, !.target = "cancelled"]
  <2>1. Begins(s, "agree") /\ Born(t) /\ Locked /\ txn' = [txn EXCEPT ![s] = x] /\ UNCHANGED <<row, waitsFor>>
    BY <1>4, <1>11 DEF BeginAgree, Locks
  <2>2. x \in LooseTxns /\ x.cmd = "agree" /\ x.task = t
    BY <1>1, <2>1 DEF Begins, LooseTxns, States
  <2> HIDE DEF x
  <2> QED BY <1>2, <2>1, <2>2, StartingKeeps DEF Locked
<1>5. ASSUME BeginReport(s, t) PROVE CycleInv'
  <2> DEFINE x == [NoTxn EXCEPT !.cmd = "report", !.task = t]
  <2>1. Begins(s, "report") /\ Born(t) /\ Locked /\ txn' = [txn EXCEPT ![s] = x] /\ UNCHANGED <<row, waitsFor>>
    BY <1>5, <1>11 DEF BeginReport, Locks
  <2>2. x \in LooseTxns /\ x.cmd = "report" /\ x.task = t
    BY <1>1, <2>1 DEF Begins, LooseTxns
  <2> HIDE DEF x
  <2> QED BY <1>2, <2>1, <2>2, StartingKeeps DEF Locked
<1>6. ASSUME BeginReopen(s, t) PROVE CycleInv'
  <2> DEFINE x == [NoTxn EXCEPT !.cmd = "reopen", !.task = t, !.other = row[t].parent]
  <2>1. Begins(s, "reopen") /\ Born(t) /\ Locked /\ txn' = [txn EXCEPT ![s] = x] /\ UNCHANGED <<row, waitsFor>>
    BY <1>6, <1>11 DEF BeginReopen, Locks
  <2>2. x \in LooseTxns /\ x.cmd = "reopen" /\ x.task = t
    <3>1. row[t].parent \in Tasks \cup {Nothing}
      BY <1>1 DEF LooseRows
    <3> QED BY <1>1, <2>1, <3>1 DEF Begins, LooseTxns
  <2> HIDE DEF x
  <2> QED BY <1>2, <2>1, <2>2, StartingKeeps DEF Locked
<1>7. ASSUME NEW p \in Tasks \cup {Nothing}, BeginMove(s, t, p) PROVE CycleInv'
  <2> DEFINE x == [NoTxn EXCEPT !.cmd = "move", !.task = t, !.other = p]
  <2>1. /\ Begins(s, "move") /\ Born(t) /\ Locked /\ txn' = [txn EXCEPT ![s] = x] /\ UNCHANGED <<row, waitsFor>>
        /\ p # Nothing => Born(p) /\ t \notin Reach({p}, Parents)
    BY <1>7, <1>11 DEF BeginMove, Locks
  <2>2. x \in LooseTxns /\ x.cmd = "move" /\ x.task = t /\ x.other = p
    BY <1>1, <2>1 DEF Begins, LooseTxns
  <2> HIDE DEF x
  <2>3. p # Nothing => p # t /\ row[p].parent # t
    <3>1. Parents \in Edges
      BY PartsAndPredecessors DEF CycleInv
    <3>2. p # Nothing => /\ {p} \subseteq Reach({p}, Parents)
                         /\ \A u \in Reach({p}, Parents) : Parents[u] \subseteq Reach({p}, Parents)
      BY <3>1, ReachIsClosed
    <3>3. p # Nothing => t \notin Parents[p]
      BY <2>1, <3>2
    <3> QED BY <2>1, <3>2, <3>3, TasksAssumption DEF Parents
  <2>4. Walked(x) /\ WalkHolds(x)
    BY <2>1, <2>2, <2>3 DEF Walked, WalkHolds
  <2> QED BY <2>1, <2>2, <2>4, StartingKeeps DEF Locked
<1>8. ASSUME NEW p \in Tasks \cup {Nothing}, BeginAdd(s, t, p) PROVE CycleInv'
  <2> DEFINE v == IF p = Nothing THEN 0 ELSE row[p].version
             state == IF p = Nothing THEN "open" ELSE row[p].state
             x == [NoTxn EXCEPT !.cmd = "add", !.task = t, !.other = p, !.seen = v, !.target = state]
  <2>1. /\ Begins(s, "add") /\ ~Born(t) /\ lock' = lock /\ txn' = [txn EXCEPT ![s] = x] /\ UNCHANGED <<row, waitsFor>>
        /\ p # Nothing => Born(p)
        /\ \A r \in InFlight : txn[r].task # t
    BY <1>8 DEF BeginAdd
  <2>2. v \in Int /\ state \in States
    BY <2>1 DEF CycleInv, LooselyTyped, LooseRows, Born, States
  <2> HIDE DEF v, state
  <2>3. x \in LooseTxns /\ x.cmd = "add" /\ x.task = t /\ x.other = p
    BY <1>1, <2>1, <2>2 DEF Begins, LooseTxns
  <2> HIDE DEF x
  <2>4. Walked(x) /\ WalkHolds(x) /\ x.cmd \notin Walks
    BY <2>1, <2>3 DEF Walked, WalkHolds, Walks
  <2> QED BY <2>1, <2>3, <2>4, StartingKeeps
<1>9. ASSUME NEW wanted \in SUBSET Tasks, BeginOrder(s, t, wanted) PROVE CycleInv'
  <2> DEFINE x == [NoTxn EXCEPT !.cmd = "order", !.task = t, !.wanted = wanted]
  <2>1. /\ Begins(s, "order") /\ Born(t) /\ Locked /\ txn' = [txn EXCEPT ![s] = x] /\ UNCHANGED <<row, waitsFor>>
        /\ NoCycle(t, wanted)
    BY <1>9, <1>11 DEF BeginOrder, Locks
  <2>2. x \in LooseTxns /\ x.cmd = "order" /\ x.task = t /\ x.wanted = wanted
    BY <1>1, <2>1 DEF Begins, LooseTxns
  <2> HIDE DEF x
  <2>3. t \notin wanted /\ \A p \in wanted : t \notin waitsFor[p]
    <3>1. waitsFor \in Edges
      BY PartsAndPredecessors DEF CycleInv
    <3>2. /\ wanted \subseteq Reach(wanted, waitsFor)
          /\ \A u \in Reach(wanted, waitsFor) : waitsFor[u] \subseteq Reach(wanted, waitsFor)
      BY <3>1, ReachIsClosed
    <3> QED BY <2>1, <3>2 DEF NoCycle
  <2>4. Walked(x) /\ WalkHolds(x)
    BY <2>1, <2>2, <2>3 DEF Walked, WalkHolds
  <2> QED BY <2>1, <2>2, <2>4, StartingKeeps DEF Locked
<1>10. ASSUME NEW decision \in {"done", "in_progress"}, BeginDecide(s, t, decision) PROVE CycleInv'
  <2> DEFINE x == [NoTxn EXCEPT !.cmd = "decide", !.task = t, !.target = decision,
                                !.seen = row[t].version, !.round = row[t].round]
  <2>1. Begins(s, "decide") /\ Born(t) /\ lock' = lock /\ txn' = [txn EXCEPT ![s] = x] /\ UNCHANGED <<row, waitsFor>>
    BY <1>10 DEF BeginDecide, Born
  <2>2. x \in LooseTxns /\ x.cmd = "decide" /\ x.task = t
    <3>1. row[t].version \in Int /\ row[t].round \in Int /\ decision \in States
      BY <1>1 DEF LooseRows, States
    <3> QED BY <1>1, <2>1, <3>1 DEF Begins, LooseTxns
  <2> HIDE DEF x
  <2> QED BY <1>2, <2>1, <2>2, StartingKeeps DEF Locked
<1> QED BY <1>3, <1>4, <1>5, <1>6, <1>7, <1>8, <1>9, <1>10

\* The row that a commit moves, whatever its version is.
LEMMA MovedRow ==
  ASSUME CycleInv, NEW s \in Sessions, NEW t \in Tasks, NEW new \in LooseRows, Moves(s, t, new)
  PROVE  /\ row' \in [Tasks -> LooseRows] /\ Ends(s)
         /\ row'[t].state = new.state /\ row'[t].parent = new.parent
         /\ \A u \in Tasks \ {t} : row'[u] = row[u]
<1> DEFINE v == row[t].version + 1
           n == [new EXCEPT !.version = v]
<1>1. row \in [Tasks -> LooseRows] /\ row' = [row EXCEPT ![t] = n]
  BY DEF CycleInv, LooselyTyped, Moves
<1>2. v \in Int
  BY <1>1 DEF LooseRows
<1> HIDE DEF v
<1>3. n \in LooseRows /\ n.state = new.state /\ n.parent = new.parent
  BY <1>2 DEF LooseRows
<1> HIDE DEF n
<1> QED BY <1>1, <1>3 DEF Moves

\* change, agree, report and reopen move no task to another parent.
LEMMA EndingStands ==
  ASSUME CycleInv, NEW s \in Sessions, EndChange(s) \/ EndReport(s) \/ EndReopen(s)
  PROVE  /\ Ends(s) /\ row' \in [Tasks -> LooseRows] /\ waitsFor' = waitsFor
         /\ \A u \in Tasks : row'[u].parent = row[u].parent /\ (Born(u)' <=> Born(u))
<1> DEFINE t == txn[s].task
<1>1. txn[s].cmd \in {"change", "agree", "report", "reopen"} /\ waitsFor' = waitsFor
  BY DEF EndChange, EndReport, EndReopen
<1>2. t \in Tasks /\ Born(t) /\ row[t] \in LooseRows /\ txn[s].target \in States
  BY <1>1 DEF CycleInv, Walked, LooselyTyped, LooseTxns
<1>3. PICK new \in LooseRows : Moves(s, t, new) /\ new.state \in States /\ new.parent = row[t].parent
  <2>1. CASE EndChange(s)
    <3> DEFINE new == [row[t] EXCEPT !.state = txn[s].target]
    <3>1. new \in LooseRows /\ new.state \in States /\ new.parent = row[t].parent
      BY <1>2 DEF LooseRows
    <3> QED BY <2>1, <3>1 DEF EndChange
  <2>2. CASE EndReport(s)
    <3> DEFINE n == row[t].round + 1
               new == [row[t] EXCEPT !.state = "completion_submitted", !.round = n]
    <3>1. n \in Int
      BY <1>2 DEF LooseRows
    <3>2. Moves(s, t, new)
      BY <2>2 DEF EndReport
    <3> HIDE DEF n
    <3>3. new \in LooseRows /\ new.state \in States /\ new.parent = row[t].parent
      BY <1>2, <3>1 DEF LooseRows, States
    <3> QED BY <3>2, <3>3
  <2>3. CASE EndReopen(s)
    <3> DEFINE new == [row[t] EXCEPT !.state = "in_progress", !.accepted = {}]
    <3>1. new \in LooseRows /\ new.state \in States /\ new.parent = row[t].parent
      BY <1>2 DEF LooseRows, States
    <3> QED BY <2>3, <3>1 DEF EndReopen
  <2> QED BY <2>1, <2>2, <2>3
<1> HIDE DEF t
<1>4. /\ row' \in [Tasks -> LooseRows] /\ Ends(s)
      /\ \A u \in Tasks : row'[u].parent = row[u].parent /\ (Born(u)' <=> Born(u))
  <2>1. "none" \notin States
    BY DEF States
  <2> QED BY <1>2, <1>3, <2>1, MovedRow DEF Born
<1> QED BY <1>1, <1>4

\* decide, even with a version that others have passed meanwhile.
LEMMA DecidingStands ==
  ASSUME CycleInv, NEW s \in Sessions, EndDecide(s)
  PROVE  /\ Ends(s) /\ row' \in [Tasks -> LooseRows] /\ waitsFor' = waitsFor
         /\ \A u \in Tasks : row'[u].parent = row[u].parent /\ (Born(u)' <=> Born(u))
<1> DEFINE t == txn[s].task
           r == txn[s].round
           v == txn[s].seen + 1
           answers == row[t].answered \cup {r}
           yes == IF txn[s].target = "done" THEN row[t].accepted \cup {r} ELSE row[t].accepted
           n == [row[t] EXCEPT !.state = txn[s].target, !.version = v, !.answered = answers, !.accepted = yes]
<1>1. /\ txn[s].cmd = "decide" /\ waitsFor' = waitsFor /\ Ends(s)
      /\ row \in [Tasks -> LooseRows] /\ txn[s] \in LooseTxns
  BY DEF EndDecide, CycleInv, LooselyTyped
<1>2. t \in Tasks /\ Born(t) /\ row[t] \in LooseRows /\ txn[s].target \in States /\ r \in Int /\ v \in Int
  <2>1. Walked(txn[s]) /\ txn[s].target \in States /\ r \in Int /\ txn[s].seen \in Int
    BY <1>1 DEF CycleInv, LooseTxns
  <2>2. t \in Tasks /\ Born(t)
    BY <1>1, <2>1 DEF Walked
  <2> QED BY <1>1, <2>1, <2>2
<1>3. answers \in SUBSET Int /\ yes \in SUBSET Int
  BY <1>2 DEF LooseRows
<1>4. row' = [row EXCEPT ![t] = n]
  <2>1. CASE txn[s].target = "done"
    BY <1>1, <1>2, <2>1 DEF EndDecide
  <2>2. CASE txn[s].target # "done"
    BY <1>1, <1>2, <2>2 DEF EndDecide
  <2> QED BY <2>1, <2>2
<1> HIDE DEF v, answers, yes, r
<1>5. n \in LooseRows /\ n.state \in States /\ n.parent = row[t].parent
  BY <1>2, <1>3 DEF LooseRows
<1> HIDE DEF n, t
<1>6. row' \in [Tasks -> LooseRows] /\ row'[t] = n /\ \A u \in Tasks \ {t} : row'[u] = row[u]
  BY <1>1, <1>2, <1>4, <1>5
<1>7. \A u \in Tasks : row'[u].parent = row[u].parent /\ (Born(u)' <=> Born(u))
  BY <1>2, <1>5, <1>6 DEF Born, States
<1> QED BY <1>1, <1>6, <1>7

\* The lock of a parent, and rollbacks.
LEMMA OtherStepsKeepWalks ==
  ASSUME CycleInv, Record, NEW s \in Sessions, LockParent(s) \/ Rollback(s)
  PROVE  CycleInv'
<1>1. /\ UNCHANGED <<row, waitsFor>> /\ row \in [Tasks -> LooseRows] /\ txn[s] \in LooseTxns
      /\ Walked(txn[s])
  BY DEF LockParent, Rollback, CycleInv, LooselyTyped
<1>2. CASE Ends(s)
  BY <1>1, <1>2, EndsWhereItStands DEF Born
<1>3. CASE /\ txn[s].cmd = "reopen" /\ txn' = [txn EXCEPT ![s].other = Nothing]
           /\ lock[txn[s].other] = Nothing /\ lock' = [lock EXCEPT ![txn[s].other] = s]
  <2> DEFINE x == [txn[s] EXCEPT !.other = Nothing]
  <2>1. /\ x \in LooseTxns /\ x.cmd = "reopen" /\ x.task = txn[s].task
        /\ txn' = [txn EXCEPT ![s] = x]
    BY <1>1, <1>3 DEF LooseTxns, CycleInv, LooselyTyped
  <2> HIDE DEF x
  <2>2. Walked(x) /\ WalkHolds(x) /\ x.cmd \notin Walks
    BY <1>1, <1>3, <2>1 DEF Walked, WalkHolds, Walks
  <2>3. /\ lock' \in [Tasks -> Sessions \cup {Nothing}]
        /\ \A u \in Tasks : \A r \in Sessions \ {s} : lock[u] = r => lock'[u] = r
    <3>1. \A u \in Tasks : lock'[u] = lock[u] \/ (lock[u] = Nothing /\ lock'[u] = s)
      BY <1>3 DEF CycleInv, LooselyTyped
    <3>2. lock' = [lock EXCEPT ![txn[s].other] = s] /\ lock \in [Tasks -> Sessions \cup {Nothing}]
      BY <1>3 DEF CycleInv, LooselyTyped
    <3> QED BY <3>1, <3>2, TasksAssumption
  <2> QED BY <1>1, <1>3, <2>1, <2>2, <2>3, StandingKeeps DEF Born
<1> QED BY <1>2, <1>3 DEF LockParent, Rollback

\* A command that ends with new edges keeps the invariant, if they close no short cycle and
\* the walks of the others may still count on what they have to.
LEMMA EndsWithEdges ==
  ASSUME CycleInv, NEW s \in Sessions, Ends(s),
         row' \in [Tasks -> LooseRows], waitsFor' \in [Tasks -> SUBSET Tasks],
         PartsExist', NoTwoTasksWaitForEachOther',
         \A r \in Sessions \ {s} : Walked(txn[r])' /\ (r \notin overtaken' => WalkHolds(txn[r])')
  PROVE  CycleInv'
<1>1. /\ txn' \in [Sessions -> LooseTxns] /\ txn'[s] = NoTxn
      /\ \A r \in Sessions \ {s} : txn'[r] = txn[r]
  BY NextTxn, LocksOfOthersStay, NothingIsKnownAtTheEnd
<1>2. LooselyTyped'
  BY <1>1, LocksOfOthersStay DEF LooselyTyped
<1>3. NoTaskIsAddedTwice'
  BY <1>1, NothingIsKnownAtTheEnd DEF CycleInv, NoTaskIsAddedTwice
<1>4. Walked(txn[s])' /\ WalkHolds(txn[s])' /\ HoldsItsTask(s)'
  BY <1>1, NothingIsKnownAtTheEnd DEF Walked, WalkHolds, HoldsItsTask, Walks
<1>5. ASSUME NEW r \in Sessions \ {s} PROVE HoldsItsTask(r)'
  <2>1. txn'[r] = txn[r] /\ HoldsItsTask(r) /\ Walked(txn[r])
    BY <1>1 DEF CycleInv
  <2> QED BY <2>1, LocksOfOthersStay DEF HoldsItsTask, Walked, Walks
<1>6. \A r \in Sessions : Walked(txn[r])' /\ HoldsItsTask(r)' /\ (r \notin overtaken' => WalkHolds(txn[r])')
  BY <1>4, <1>5
<1> QED BY <1>2, <1>3, <1>6 DEF CycleInv

\* move: what the task and its new parent are, and who holds them.
LEMMA MoveFacts ==
  ASSUME CycleInv, NEW s \in Sessions, EndMove(s)
  PROVE  \E t \in Tasks, p \in Tasks \cup {Nothing} :
           /\ t = txn[s].task /\ p = txn[s].other /\ txn[s].cmd = "move"
           /\ Born(t) /\ Free(s, p) /\ Ends(s) /\ waitsFor' = waitsFor
           /\ p # Nothing => Born(p) /\ p # t /\ row[p].parent # t
           /\ row' \in [Tasks -> LooseRows] /\ row'[t].parent = p
           /\ \A u \in Tasks : Born(u)' <=> Born(u)
           /\ \A u \in Tasks \ {t} : row'[u].parent = row[u].parent
<1> DEFINE t == txn[s].task
           p == txn[s].other
           new == [row[t] EXCEPT !.parent = p]
<1>1. txn[s].cmd = "move" /\ Moves(s, t, new) /\ waitsFor' = waitsFor /\ Free(s, p)
  BY DEF EndMove
<1>2. /\ t \in Tasks /\ Born(t) /\ p \in Tasks \cup {Nothing} /\ row[t] \in LooseRows
      /\ p # Nothing => Born(p) /\ p # t /\ row[p].parent # t
  BY <1>1 DEF CycleInv, Walked, LooselyTyped, LooseTxns
<1>3. new \in LooseRows /\ new.state = row[t].state /\ new.parent = p
  BY <1>2 DEF LooseRows
<1> HIDE DEF new
<1>4. /\ row' \in [Tasks -> LooseRows] /\ Ends(s)
      /\ row'[t].state = row[t].state /\ row'[t].parent = p
      /\ \A u \in Tasks \ {t} : row'[u] = row[u]
  BY <1>1, <1>2, <1>3, MovedRow
<1>5. \A u \in Tasks : Born(u)' <=> Born(u)
  BY <1>4 DEF Born
<1> QED BY <1>1, <1>2, <1>4, <1>5

\* The key of the new parent waits for the lock of whoever moves that parent.
LEMMA MovingKeepsWalks ==
  ASSUME CycleInv, Record, NEW s \in Sessions, EndMove(s)
  PROVE  CycleInv'
<1> PICK t \in Tasks, p \in Tasks \cup {Nothing} :
      /\ t = txn[s].task /\ p = txn[s].other /\ txn[s].cmd = "move"
      /\ Born(t) /\ Free(s, p) /\ Ends(s) /\ waitsFor' = waitsFor
      /\ p # Nothing => Born(p) /\ p # t /\ row[p].parent # t
      /\ row' \in [Tasks -> LooseRows] /\ row'[t].parent = p
      /\ \A u \in Tasks : Born(u)' <=> Born(u)
      /\ \A u \in Tasks \ {t} : row'[u].parent = row[u].parent
  BY MoveFacts
<1>1. \A u \in Tasks : row[u].parent \in Tasks \cup {Nothing}
  BY DEF CycleInv, LooselyTyped, LooseRows
<1>2. PartsExist'
  <2> SUFFICES ASSUME NEW u \in Tasks
               PROVE  /\ ~Born(u)' => row'[u].parent = Nothing
                      /\ row'[u].parent # Nothing => row'[row'[u].parent].state # "none"
    BY DEF PartsExist, Born
  <2>1. CASE u = t
    BY <2>1 DEF Born
  <2>2. CASE u # t
    BY <1>1, <2>2 DEF CycleInv, PartsExist, Born
  <2> QED BY <2>1, <2>2
<1>3. NoTwoTasksWaitForEachOther'
  <2>1. ASSUME NEW u \in Tasks, NEW w \in Tasks, row'[u].parent = w PROVE row'[w].parent # u
    <3>1. Nothing \notin Tasks
      BY TasksAssumption
    <3>2. row[u].parent = w => row[w].parent # u
      BY <3>1 DEF CycleInv, NoTwoTasksWaitForEachOther, Parents
    <3> QED BY <2>1, <3>1, <3>2
  <2> QED BY <2>1 DEF CycleInv, NoTwoTasksWaitForEachOther, Parents
<1>4. ASSUME NEW r \in Sessions \ {s} PROVE Walked(txn[r])' /\ (r \notin overtaken' => WalkHolds(txn[r])')
  <2>1. txn'[r] = txn[r] /\ Walked(txn[r]) /\ txn[r] \in LooseTxns /\ HoldsItsTask(r)
    BY NextTxn, LocksOfOthersStay, NothingIsKnownAtTheEnd DEF CycleInv, LooselyTyped
  <2>2. txn[r].other \in Tasks \cup {Nothing} /\ r # Nothing /\ Nothing \notin Tasks
    BY <2>1, TasksAssumption DEF LooseTxns
  <2>3. txn[r].cmd = "move" /\ txn[r].other # Nothing => row'[txn[r].other].parent # txn[r].task
    <3> SUFFICES ASSUME txn[r].cmd = "move", txn[r].other = t PROVE p # txn[r].task
      BY <2>1, <2>2 DEF Walked
    <3>1. lock[txn[r].task] = r /\ txn[r].task \in Tasks
      BY <2>1 DEF HoldsItsTask, Walked, Walks
    <3> QED BY <2>2, <3>1 DEF Free
  <2>4. Walked(txn[r])'
    BY <2>1, <2>2, <2>3 DEF Walked, Born
  <2>5. ASSUME r \notin overtaken' PROVE WalkHolds(txn[r])'
    <3>1. WalkHolds(txn[r]) /\ (txn[r].cmd = "move" => \A u \in Tasks : row'[u].parent = row[u].parent)
      BY <2>1, <2>5, NotOvertaken
    <3>2. txn[r].cmd = "move" => Parents' = Parents
      BY <3>1 DEF Parents
    <3> QED BY <2>1, <3>1, <3>2 DEF WalkHolds, NoCycle, Reach
  <2> QED BY <2>4, <2>5
<1>5. waitsFor' \in [Tasks -> SUBSET Tasks]
  BY DEF CycleInv, LooselyTyped
<1> QED BY <1>2, <1>3, <1>4, <1>5, EndsWithEdges

\* A move whose walk holds closes no cycle.
LEMMA MovingClosesNoCycle ==
  ASSUME CycleInv, NEW s \in Sessions, EndMove(s), s \notin overtaken, NothingWaitsForItself
  PROVE  NothingWaitsForItself'
<1> PICK t \in Tasks, p \in Tasks \cup {Nothing} :
      /\ t = txn[s].task /\ p = txn[s].other /\ txn[s].cmd = "move" /\ waitsFor' = waitsFor
      /\ row'[t].parent = p
      /\ \A u \in Tasks \ {t} : row'[u].parent = row[u].parent
  BY MoveFacts
<1>1. Parents \in Edges /\ waitsFor \in Edges /\ Acyclic(waitsFor) /\ Acyclic(Parents)
  BY PartsAndPredecessors DEF CycleInv
<1>2. Parents' = [Parents EXCEPT ![t] = {p} \ {Nothing}]
  BY DEF Parents
<1>3. t \notin Reach({p} \ {Nothing}, Parents)
  <2>1. CASE p = Nothing
    <3>1. Reach({}, Parents) \subseteq {}
      BY <1>1, ReachIsLeast
    <3> QED BY <2>1, <3>1
  <2>2. CASE p # Nothing
    <3>1. {p} \ {Nothing} = {p}
      BY <2>2
    <3> QED BY <2>2, <3>1 DEF CycleInv, WalkHolds
  <2> QED BY <2>1, <2>2
<1>4. Acyclic(Parents')
  <2>1. {p} \ {Nothing} \in SUBSET Tasks
    OBVIOUS
  <2>2. Acyclic([Parents EXCEPT ![t] = {p} \ {Nothing}])
    BY <1>1, <1>3, <2>1, NewEdgesCloseNoCycle
  <2> QED BY <1>2, <2>2
<1> QED BY <1>1, <1>4 DEF NothingWaitsForItself, PredecessorsAreAcyclic, PartsAreAcyclic, Acyclic

\* order: what the task and its new predecessors are, and who holds them.
LEMMA OrderFacts ==
  ASSUME CycleInv, NEW s \in Sessions, EndOrder(s)
  PROVE  \E t \in Tasks, wanted \in SUBSET Tasks :
           /\ t = txn[s].task /\ wanted = txn[s].wanted /\ txn[s].cmd = "order" /\ Ends(s)
           /\ \A p \in wanted : p \in waitsFor[t] \/ lock[p] \in {Nothing, s}
           /\ t \notin wanted /\ \A p \in wanted : t \notin waitsFor[p]
           /\ waitsFor' = [waitsFor EXCEPT ![t] = wanted]
           /\ row' \in [Tasks -> LooseRows]
           /\ \A u \in Tasks : row'[u].parent = row[u].parent /\ (Born(u)' <=> Born(u))
<1> DEFINE t == txn[s].task
           wanted == txn[s].wanted
<1>1. /\ txn[s].cmd = "order" /\ Moves(s, t, row[t]) /\ waitsFor' = [waitsFor EXCEPT ![t] = wanted]
      /\ \A p \in wanted \ waitsFor[t] : Free(s, p)
  BY DEF EndOrder
<1>2. /\ t \in Tasks /\ wanted \in SUBSET Tasks /\ row[t] \in LooseRows
      /\ t \notin wanted /\ \A p \in wanted : t \notin waitsFor[p]
  BY <1>1 DEF CycleInv, Walked, LooselyTyped, LooseTxns
<1> HIDE DEF t, wanted
<1>3. /\ row' \in [Tasks -> LooseRows] /\ Ends(s)
      /\ \A u \in Tasks : row'[u].state = row[u].state /\ row'[u].parent = row[u].parent
  BY <1>1, <1>2, MovedRow
<1>4. \A p \in wanted : p \in waitsFor[t] \/ lock[p] \in {Nothing, s}
  BY <1>1, <1>2 DEF Free
<1> QED BY <1>1, <1>2, <1>3, <1>4 DEF Born, t, wanted

\* The key of a new predecessor waits for the lock of whoever updates that predecessor.
LEMMA OrderingKeepsWalks ==
  ASSUME CycleInv, Record, NEW s \in Sessions, EndOrder(s)
  PROVE  CycleInv'
<1> PICK t \in Tasks, wanted \in SUBSET Tasks :
      /\ t = txn[s].task /\ wanted = txn[s].wanted /\ txn[s].cmd = "order" /\ Ends(s)
      /\ \A p \in wanted : p \in waitsFor[t] \/ lock[p] \in {Nothing, s}
      /\ t \notin wanted /\ \A p \in wanted : t \notin waitsFor[p]
      /\ waitsFor' = [waitsFor EXCEPT ![t] = wanted]
      /\ row' \in [Tasks -> LooseRows]
      /\ \A u \in Tasks : row'[u].parent = row[u].parent /\ (Born(u)' <=> Born(u))
  BY OrderFacts
<1>1. /\ waitsFor' \in [Tasks -> SUBSET Tasks] /\ waitsFor'[t] = wanted
      /\ \A u \in Tasks \ {t} : waitsFor'[u] = waitsFor[u]
      /\ \A u \in Tasks : row[u].parent \in Tasks \cup {Nothing}
  BY DEF CycleInv, LooselyTyped, LooseRows
<1>2. PartsExist'
  BY <1>1 DEF CycleInv, PartsExist, Born
<1>3. Parents' = Parents
  BY DEF Parents
<1>4. NoTwoTasksWaitForEachOther'
  <2>1. ASSUME NEW u \in Tasks, NEW w \in Tasks, w \in waitsFor'[u] PROVE u \notin waitsFor'[w]
    BY <1>1, <2>1 DEF CycleInv, NoTwoTasksWaitForEachOther
  <2> QED BY <1>3, <2>1 DEF CycleInv, NoTwoTasksWaitForEachOther
<1>5. ASSUME NEW r \in Sessions \ {s} PROVE Walked(txn[r])' /\ (r \notin overtaken' => WalkHolds(txn[r])')
  <2>1. txn'[r] = txn[r] /\ Walked(txn[r]) /\ txn[r] \in LooseTxns /\ HoldsItsTask(r)
    BY NextTxn, LocksOfOthersStay, NothingIsKnownAtTheEnd DEF CycleInv, LooselyTyped
  <2>2. txn[r].other \in Tasks \cup {Nothing} /\ txn[r].wanted \subseteq Tasks /\ r # Nothing /\ r # s
    BY <2>1, TasksAssumption DEF LooseTxns
  <2>3. ASSUME txn[r].cmd = "order", NEW p \in txn[r].wanted PROVE txn[r].task \notin waitsFor'[p]
    <3>1. lock[txn[r].task] = r /\ txn[r].task \in Tasks /\ txn[r].task \notin waitsFor[p] /\ p \in Tasks
      BY <2>1, <2>2, <2>3 DEF HoldsItsTask, Walked, Walks
    <3>2. CASE p = t
      BY <1>1, <2>2, <3>1, <3>2
    <3>3. CASE p # t
      BY <1>1, <3>1, <3>3
    <3> QED BY <3>2, <3>3
  <2>4. Walked(txn[r])'
    BY <2>1, <2>2, <2>3 DEF Walked, Born
  <2>5. r \notin overtaken' => WalkHolds(txn[r]) /\ (txn[r].cmd = "order" => waitsFor' = waitsFor)
    BY <2>1, NotOvertaken
  <2> QED BY <1>3, <2>1, <2>4, <2>5 DEF WalkHolds, NoCycle, Reach
<1> QED BY <1>1, <1>2, <1>4, <1>5, EndsWithEdges

\* A new list of predecessors whose walk holds closes no cycle.
LEMMA OrderingClosesNoCycle ==
  ASSUME CycleInv, NEW s \in Sessions, EndOrder(s), s \notin overtaken, NothingWaitsForItself
  PROVE  NothingWaitsForItself'
<1> PICK t \in Tasks, wanted \in SUBSET Tasks :
      /\ t = txn[s].task /\ wanted = txn[s].wanted /\ txn[s].cmd = "order" /\ Ends(s)
      /\ \A p \in wanted : p \in waitsFor[t] \/ lock[p] \in {Nothing, s}
      /\ t \notin wanted /\ \A p \in wanted : t \notin waitsFor[p]
      /\ waitsFor' = [waitsFor EXCEPT ![t] = wanted]
      /\ row' \in [Tasks -> LooseRows]
      /\ \A u \in Tasks : row'[u].parent = row[u].parent /\ (Born(u)' <=> Born(u))
  BY OrderFacts
<1>1. waitsFor \in Edges /\ Acyclic(waitsFor) /\ Acyclic(Parents) /\ t \notin Reach(wanted, waitsFor)
  BY PartsAndPredecessors DEF CycleInv, WalkHolds, NoCycle
<1>2. Acyclic(waitsFor')
  <2>1. Acyclic([waitsFor EXCEPT ![t] = wanted])
    BY <1>1, NewEdgesCloseNoCycle
  <2> QED BY <2>1
<1>3. Parents' = Parents
  BY DEF Parents
<1> QED BY <1>1, <1>2, <1>3 DEF NothingWaitsForItself, PredecessorsAreAcyclic, PartsAreAcyclic, Acyclic

\* add: who the new task and its parent are.
LEMMA AddFacts ==
  ASSUME CycleInv, NEW s \in Sessions, EndAdd(s)
  PROVE  \E c \in Tasks, p \in Tasks \cup {Nothing} :
           /\ c = txn[s].task /\ txn[s].cmd = "add" /\ ~Born(c) /\ Ends(s) /\ waitsFor' = waitsFor
           /\ p # Nothing => Born(p) /\ p # c
           /\ row' \in [Tasks -> LooseRows] /\ row'[c].parent = p
           /\ \A u \in Tasks : Born(u)' <=> Born(u) \/ u = c
           /\ \A u \in Tasks \ {c} : row'[u].parent = row[u].parent
<1>1. /\ txn[s].cmd = "add" /\ waitsFor' = waitsFor /\ Ends(s)
      /\ row \in [Tasks -> LooseRows] /\ Walked(txn[s]) /\ txn[s] \in LooseTxns
  BY DEF EndAdd, CycleInv, LooselyTyped
<1>2. PICK c \in Tasks, p \in Tasks \cup {Nothing} :
        c = txn[s].task /\ p = txn[s].other /\ ~Born(c) /\ p # c /\ (p # Nothing => Born(p))
  <2>1. txn[s].other \in Tasks \cup {Nothing} /\ txn[s].task \in Tasks /\ ~Born(txn[s].task)
        /\ (txn[s].other # Nothing => Born(txn[s].other))
    BY <1>1 DEF Walked, LooseTxns
  <2> QED BY <2>1, TasksAssumption
<1> DEFINE v == txn[s].seen + 1
<1>3. row' = [u \in Tasks |-> IF u = c THEN Fresh(p)
                              ELSE IF u = p THEN [row[u] EXCEPT !.version = v] ELSE row[u]]
  BY <1>2 DEF EndAdd
<1>4. v \in Int
  BY <1>1 DEF LooseTxns
<1> HIDE DEF v
<1>5. Fresh(p) \in LooseRows /\ Fresh(p).state = "open" /\ Fresh(p).parent = p
  <2>1. Unborn \in LooseRows
    BY DEF Unborn, LooseRows
  <2> QED BY <1>2, <2>1 DEF Fresh, Unborn, LooseRows, States
<1>6. row' \in [Tasks -> LooseRows] /\ row'[c] = Fresh(p)
      /\ \A u \in Tasks \ {c} : row'[u].state = row[u].state /\ row'[u].parent = row[u].parent
  <2>1. \A u \in Tasks : [row[u] EXCEPT !.version = v] \in LooseRows
    BY <1>1, <1>4 DEF LooseRows
  <2>2. \A u \in Tasks : LET n == [row[u] EXCEPT !.version = v]
                         IN  n.state = row[u].state /\ n.parent = row[u].parent
    BY <1>1 DEF LooseRows
  <2>3. row' \in [Tasks -> LooseRows] /\ row'[c] = Fresh(p)
    BY <1>1, <1>2, <1>3, <1>5, <2>1
  <2> QED BY <1>3, <2>2, <2>3
<1>7. \A u \in Tasks : Born(u)' <=> Born(u) \/ u = c
  BY <1>5, <1>6 DEF Born
<1>8. row'[c].parent = p
  BY <1>5, <1>6
<1> QED BY <1>1, <1>2, <1>6, <1>7, <1>8

\* Nobody is a part of a task that does not exist yet, so its parent is new to no walk.
LEMMA AddingLeavesReach ==
  ASSUME LooselyTyped, PartsExist, NEW c \in Tasks, ~Born(c), NEW up \in SUBSET (Tasks \ {c}),
         Parents' = [Parents EXCEPT ![c] = up], NEW from \in SUBSET (Tasks \ {c})
  PROVE  c \notin Reach(from, Parents) /\ Reach(from, Parents') \subseteq Reach(from, Parents)
<1>1. Parents \in Edges /\ Parents' \in Edges
  <2>1. Parents \in Edges
    BY PartsAndPredecessors
  <2> QED BY <2>1 DEF Edges
<1>2. \A u \in Tasks : Parents[u] \subseteq Tasks \ {c}
  BY DEF Parents, PartsExist, LooselyTyped, LooseRows
<1>3. Reach(from, Parents) \subseteq Tasks \ {c}
  BY <1>1, <1>2, ReachIsLeast
<1> DEFINE D == Reach(from, Parents)
           new == Parents'
<1>4. from \subseteq D /\ D \subseteq Tasks /\ \A u \in D : Parents[u] \subseteq D
  BY <1>1, ReachIsClosed
<1>5. new \in Edges /\ \A u \in D : new[u] = Parents[u]
  BY <1>1, <1>3 DEF Edges
<1> HIDE DEF D, new
<1>6. Reach(from, new) \subseteq D
  BY <1>4, <1>5, ReachIsLeast
<1> QED BY <1>3, <1>6 DEF D, new

\* add closes no cycle, and keeps what the others may count on.
LEMMA AddingKeepsWalks ==
  ASSUME CycleInv, Record, NEW s \in Sessions, EndAdd(s)
  PROVE  CycleInv' /\ (NothingWaitsForItself => NothingWaitsForItself')
<1> PICK c \in Tasks, p \in Tasks \cup {Nothing} :
      /\ c = txn[s].task /\ txn[s].cmd = "add" /\ ~Born(c) /\ Ends(s) /\ waitsFor' = waitsFor
      /\ p # Nothing => Born(p) /\ p # c
      /\ row' \in [Tasks -> LooseRows] /\ row'[c].parent = p
      /\ \A u \in Tasks : Born(u)' <=> Born(u) \/ u = c
      /\ \A u \in Tasks \ {c} : row'[u].parent = row[u].parent
  BY AddFacts
<1>1. /\ \A u \in Tasks : row[u].parent \in Tasks \cup {Nothing}
      /\ PartsExist /\ LooselyTyped /\ Nothing \notin Tasks
  BY TasksAssumption DEF LooseRows, CycleInv, LooselyTyped
<1>2. PartsExist'
  <2> SUFFICES ASSUME NEW u \in Tasks
               PROVE  /\ ~Born(u)' => row'[u].parent = Nothing
                      /\ row'[u].parent # Nothing => row'[row'[u].parent].state # "none"
    BY DEF PartsExist, Born
  <2>1. CASE u = c
    BY <2>1 DEF Born
  <2>2. CASE u # c
    BY <1>1, <2>2 DEF PartsExist, Born
  <2> QED BY <2>1, <2>2
<1> DEFINE up == {p} \ {Nothing}
<1>3. up \in SUBSET (Tasks \ {c}) /\ Parents' = [Parents EXCEPT ![c] = up]
  BY <1>1 DEF Parents
<1>4. NoTwoTasksWaitForEachOther'
  <2>1. ASSUME NEW u \in Tasks, NEW w \in Tasks, row'[u].parent = w PROVE row'[w].parent # u
    <3>1. \A x \in Tasks : row[x].parent # c
      BY <1>1 DEF PartsExist
    <3>2. row[u].parent = w => row[w].parent # u
      BY <1>1 DEF CycleInv, NoTwoTasksWaitForEachOther, Parents
    <3> QED BY <1>1, <2>1, <3>1, <3>2
  <2> QED BY <2>1 DEF CycleInv, NoTwoTasksWaitForEachOther, Parents
<1>5. ASSUME NEW r \in Sessions \ {s} PROVE Walked(txn[r])' /\ (r \notin overtaken' => WalkHolds(txn[r])')
  <2>1. txn'[r] = txn[r] /\ Walked(txn[r]) /\ txn[r] \in LooseTxns
    BY NextTxn, LocksOfOthersStay, NothingIsKnownAtTheEnd DEF CycleInv, LooselyTyped
  <2>2. txn[r].other \in Tasks \cup {Nothing} /\ (txn[r].cmd = "add" => txn[r].task # c)
    BY <2>1 DEF LooseTxns, CycleInv, NoTaskIsAddedTwice
  <2>3. Walked(txn[r])'
    <3>1. txn[r].cmd \notin {"none", "add"} => txn[r].task \in Tasks /\ Born(txn[r].task)'
      BY <2>1 DEF Walked
    <3>2. txn[r].cmd = "add" => txn[r].task \in Tasks /\ ~Born(txn[r].task)'
      BY <2>1, <2>2 DEF Walked
    <3>3. txn[r].cmd \in {"add", "move"} /\ txn[r].other # Nothing =>
            txn[r].other \in Tasks \ {c} /\ Born(txn[r].other)'
      BY <2>1, <2>2 DEF Walked
    <3>4. txn[r].cmd = "move" /\ txn[r].other # Nothing =>
            txn[r].other # txn[r].task /\ row'[txn[r].other].parent # txn[r].task
      BY <2>1, <3>3 DEF Walked
    <3>5. txn[r].cmd = "order" =>
            txn[r].task \notin txn[r].wanted /\ \A q \in txn[r].wanted : txn[r].task \notin waitsFor'[q]
      BY <2>1 DEF Walked
    <3> QED BY <2>1, <3>1, <3>2, <3>3, <3>4, <3>5 DEF Walked, Born
  <2>4. ASSUME r \notin overtaken' PROVE WalkHolds(txn[r])'
    <3>1. WalkHolds(txn[r])
      BY <2>1, <2>4, NotOvertaken
    <3>2. txn[r].cmd = "order" => txn[r].task \notin Reach(txn[r].wanted, waitsFor')
      BY <3>1 DEF WalkHolds, NoCycle
    <3>3. ASSUME txn[r].cmd = "move", txn[r].other # Nothing
          PROVE  txn[r].task \notin Reach({txn[r].other}, Parents')
      <4>1. {txn[r].other} \in SUBSET (Tasks \ {c})
        BY <2>1, <2>2, <3>3 DEF Walked
      <4>2. Reach({txn[r].other}, Parents') \subseteq Reach({txn[r].other}, Parents)
        <5> HIDE DEF up
        <5> DEFINE from == {txn[r].other}
        <5>1. from \in SUBSET (Tasks \ {c})
          BY <4>1
        <5> HIDE DEF from
        <5>2. Reach(from, Parents') \subseteq Reach(from, Parents)
          BY <1>1, <1>3, <5>1, AddingLeavesReach
        <5> QED BY <5>2 DEF from
      <4> QED BY <3>1, <3>3, <4>2 DEF WalkHolds
    <3> QED BY <2>1, <3>2, <3>3 DEF WalkHolds, NoCycle, Reach
  <2> QED BY <2>3, <2>4
<1>6. waitsFor' \in [Tasks -> SUBSET Tasks]
  BY DEF CycleInv, LooselyTyped
<1>7. ASSUME NothingWaitsForItself PROVE NothingWaitsForItself'
  <2>1. Parents \in Edges /\ Acyclic(waitsFor) /\ Acyclic(Parents)
    BY <1>1, <1>7, PartsAndPredecessors
  <2>2. c \notin Reach(up, Parents)
    BY <1>1, <1>3, AddingLeavesReach
  <2>3. up \in SUBSET Tasks
    BY <1>3
  <2> HIDE DEF up
  <2>4. Acyclic([Parents EXCEPT ![c] = up])
    BY <2>1, <2>2, <2>3, NewEdgesCloseNoCycle
  <2>5. Acyclic(Parents') /\ Acyclic(waitsFor')
    BY <1>3, <2>1, <2>4
  <2> QED BY <2>5 DEF NothingWaitsForItself, PredecessorsAreAcyclic, PartsAreAcyclic, Acyclic
<1> QED BY <1>2, <1>4, <1>5, <1>6, <1>7, EndsWithEdges

\* At first no task has a part or a predecessor.
LEMMA BeginningWithoutEdges == Init => CycleInv
<1> SUFFICES ASSUME Init PROVE CycleInv
  OBVIOUS
<1>1. \A x \in {Unborn, Fresh(Nothing)} : x \in LooseRows /\ x.parent = Nothing
  <2>1. Unborn \in LooseRows /\ Unborn.parent = Nothing
    BY DEF Unborn, LooseRows
  <2>2. Fresh(Nothing) \in LooseRows /\ Fresh(Nothing).parent = Nothing
    BY <2>1 DEF Fresh, LooseRows, States
  <2> QED BY <2>1, <2>2
<1>2. \A t \in Tasks : row[t] \in LooseRows /\ row[t].parent = Nothing
  BY <1>1 DEF Init
<1>3. LooselyTyped
  <2>1. row \in [Tasks -> LooseRows]
    BY <1>2 DEF Init
  <2> QED BY <2>1, NothingIsKnownAtTheEnd DEF Init, LooselyTyped
<1>4. PartsExist
  BY <1>2 DEF PartsExist
<1>5. NoTaskIsAddedTwice /\ \A s \in Sessions : Walked(txn[s]) /\ HoldsItsTask(s) /\ WalkHolds(txn[s])
  BY NothingIsKnownAtTheEnd DEF Init, NoTaskIsAddedTwice, HoldsItsTask, Walks
<1>6. NoTwoTasksWaitForEachOther
  BY <1>2 DEF Init, NoTwoTasksWaitForEachOther, Parents
<1> QED BY <1>3, <1>4, <1>5, <1>6 DEF CycleInv

\* Every step keeps the invariant of the cycles.
LEMMA WalkStepping == CycleInv /\ [Next]_vars => CycleInv'
<1> SUFFICES ASSUME CycleInv, [Next]_vars PROVE CycleInv'
  OBVIOUS
<1>1. ASSUME Record, NEW s \in Sessions, End(s) PROVE CycleInv'
  BY <1>1, EndingStands, DecidingStands, EndsWhereItStands, MovingKeepsWalks, OrderingKeepsWalks,
     AddingKeepsWalks DEF End
<1>2. CASE UNCHANGED vars
  BY <1>2 DEF vars, CycleInv, LooselyTyped, PartsExist, NoTaskIsAddedTwice, Walked, WalkHolds, HoldsItsTask, NoCycle,
              NoTwoTasksWaitForEachOther, Reach, Parents, Born
<1> QED BY <1>1, <1>2, BeginKeepsWalks, OtherStepsKeepWalks DEF Next

\* Edges change only when a command ends, and close a cycle only behind an overtaken walk.
LEMMA CyclesTakeOvertakenWalks ==
  CycleInv /\ [Next]_vars =>
    [NothingWaitsForItself /\ ~NothingWaitsForItself' => \E s \in overtaken : txn'[s] = NoTxn]_vars
<1> SUFFICES ASSUME CycleInv, Next, NothingWaitsForItself, \A s \in overtaken : txn'[s] # NoTxn
             PROVE  NothingWaitsForItself'
  OBVIOUS
<1>1. PICK s \in Sessions : Begin(s) \/ LockParent(s) \/ End(s) \/ Rollback(s)
  BY DEF Next
<1>2. CASE UNCHANGED <<row, waitsFor>>
  BY <1>2 DEF NothingWaitsForItself, PredecessorsAreAcyclic, PartsAreAcyclic, Parents, Reach
<1>3. CASE Begin(s) \/ LockParent(s) \/ Rollback(s)
  BY <1>2, <1>3 DEF Begin, BeginChange, BeginAgree, BeginReport, BeginReopen, BeginMove, BeginAdd, BeginOrder,
                    BeginDecide, LockParent, Rollback
<1>4. CASE EndChange(s) \/ EndReport(s) \/ EndReopen(s) \/ EndDecide(s)
  <2>1. Parents' = Parents /\ waitsFor' = waitsFor
    BY <1>4, EndingStands, DecidingStands DEF Parents
  <2> QED BY <2>1 DEF NothingWaitsForItself, PredecessorsAreAcyclic, PartsAreAcyclic, Reach
<1>5. CASE EndMove(s) \/ EndOrder(s)
  <2>1. txn'[s] = NoTxn
    BY <1>5, MoveFacts, OrderFacts, NextTxn, LocksOfOthersStay, NothingIsKnownAtTheEnd
  <2> QED BY <1>5, <2>1, MovingClosesNoCycle, OrderingClosesNoCycle
<1>6. CASE EndAdd(s)
  BY <1>6, AddingKeepsWalks DEF Next
<1> QED BY <1>1, <1>3, <1>4, <1>5, <1>6 DEF End

\* The invariant of the cycles, whatever overlaps.
THEOREM CycleInvariance == Spec => []CycleInv
<1>1. Init => CycleInv
  BY BeginningWithoutEdges
<1>2. CycleInv /\ [Next]_vars => CycleInv'
  BY WalkStepping
<1> QED BY <1>1, <1>2, PTL DEF Spec

\* Whatever overlaps, no two tasks ever wait for each other, and a longer cycle of tasks
\* that wait is closed only by a commit whose walk another commit has overtaken.
THEOREM CyclesAreLongAndOvertaken == Spec => OnlyOvertakenWalksCloseACycle
<1>1. CycleInv => NoTwoTasksWaitForEachOther
  BY DEF CycleInv
<1>2. CycleInv /\ [Next]_vars =>
        [NothingWaitsForItself /\ ~NothingWaitsForItself' => \E s \in overtaken : txn'[s] = NoTxn]_vars
  BY CyclesTakeOvertakenWalks
<1> QED BY <1>1, <1>2, CycleInvariance, PTL DEF Spec, OnlyOvertakenWalksCloseACycle
=============================================================================
