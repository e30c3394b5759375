----------------------------- MODULE WorkTasks -----------------------------
(***************************************************************************)
(* Tasks, their hierarchy, their predecessors and the rounds in which a    *)
(* requester accepts a result (modules/work/application.py and             *)
(* lifecycle.py, platform/work_tasks.py, the delivery handler of           *)
(* platform/action_center.py).                                             *)
(*                                                                         *)
(* Every command is one READ COMMITTED transaction, here two or three      *)
(* steps: it takes the row lock its code takes and reads what it checks,   *)
(* and later writes and commits.  What it read of rows it did not lock may *)
(* be stale by then.  A write waits for the row locks of others; setting a *)
(* foreign key waits for the row it points to.  A command carries the      *)
(* version its user saw and is refused when the row has moved on, so the   *)
(* commands that get past their first step are those of users who saw the  *)
(* current row.                                                            *)
(***************************************************************************)
EXTENDS Integers, FiniteSets

CONSTANTS Tasks,        \* task identities
          Requested,    \* tasks that somebody else asked for: their requester accepts the result
          Sessions,     \* transactions in flight
          Nothing,      \* no task, no session
          Commands,     \* commands the users of the instance issue
          Overlapping,  \* commands that run while others are in flight
          Restarts,     \* users press start or resume on a finished task
          MaxVersion    \* bound: version of each task

ASSUME TasksAssumption ==
    /\ Requested \subseteq Tasks
    /\ Nothing \notin Tasks \cup Sessions
    /\ Overlapping \subseteq Commands
    /\ Restarts \in BOOLEAN
    /\ MaxVersion \in [Tasks -> Nat \ {0}]

VARIABLES row,      \* the tasks table
          waitsFor, \* active predecessors of each task
          picture,  \* task_versions: the state each version was frozen with
          lock,     \* who holds the row lock of each task
          txn,      \* the transaction of each session
          overtaken \* history: the sessions whose walk a commit of others has overtaken

vars == <<row, waitsFor, picture, lock, txn, overtaken>>

States     == {"open", "in_progress", "blocked", "completion_submitted", "done", "cancelled"}
Versions   == UNION {1 .. MaxVersion[t] : t \in Tasks}

Rows == [state : States \cup {"none"}, version : Versions, parent : Tasks \cup {Nothing},
         round : {0} \cup Versions, answered : SUBSET Versions, accepted : SUBSET Versions]

Unborn == [state |-> "none", version |-> 1, parent |-> Nothing,
           round |-> 0, answered |-> {}, accepted |-> {}]

\* Mutant: a new task has no version.
FreshUnversioned(p) == [Unborn EXCEPT !.state = "open", !.parent = p, !.version = 0]

\* create_self_task: open, in its first version.
Fresh(p) == [Unborn EXCEPT !.state = "open", !.parent = p]

Txns == [cmd : Commands \cup {"none"}, task : Tasks \cup {Nothing}, other : Tasks \cup {Nothing},
         target : States, wanted : SUBSET Tasks, seen : {0} \cup Versions, round : {0} \cup Versions]

NoTxn == [cmd |-> "none", task |-> Nothing, other |-> Nothing, target |-> "open",
          wanted |-> {}, seen |-> 0, round |-> 0]

Init ==
    /\ row \in [Tasks -> {Unborn, Fresh(Nothing)}]
    /\ waitsFor = [t \in Tasks |-> {}]
    /\ picture = [t \in Tasks |-> [v \in Versions |-> IF v = 1 THEN row[t].state ELSE "none"]]
    /\ lock = [t \in Tasks |-> Nothing]
    /\ txn = [s \in Sessions |-> NoTxn]
    /\ overtaken = {}

-----------------------------------------------------------------------------
(* What a command reads.                                                   *)

Born(t) == row[t].state # "none"

Children(p) == {c \in Tasks : Born(c) /\ row[c].parent = p}

Parents == [t \in Tasks |-> {row[t].parent} \ {Nothing}]

\* What can be reached from the set along the edges, the set included.
Reach(set, edges) ==
    {t \in Tasks : \A closed \in SUBSET Tasks :
        set \subseteq closed /\ (\A u \in closed : edges[u] \subseteq closed) => t \in closed}

\* The state others see: a submitted completion counts as done.
External(t) == IF row[t].state = "completion_submitted" THEN "done" ELSE row[t].state

\* _approval_state = "approved": the latest report was accepted, after the last reopening.
Approved(t) == row[t].round \in row[t].accepted

\* is_child_settled.
Settled(t) ==
    \/ row[t].state = "cancelled"
    \/ External(t) = "done" /\ (t \in Requested => Approved(t))

BlockingPredecessors(t) == {p \in waitsFor[t] : External(p) \notin {"done", "cancelled"}}

Allowed ==
    [open                 |-> {"in_progress", "done", "cancelled"},
     in_progress          |-> {"blocked", "done", "cancelled"},
     blocked              |-> {"in_progress", "cancelled"},
     completion_submitted |-> {"cancelled"},
     done                 |-> {"in_progress"},
     cancelled            |-> {}]

-----------------------------------------------------------------------------
(* Transactions.                                                           *)

InFlight == {s \in Sessions : txn[s].cmd # "none"}

Begins(s, cmd) ==
    /\ txn[s] = NoTxn
    /\ cmd \in Commands
    /\ InFlight # {} => {cmd} \cup {txn[r].cmd : r \in InFlight} \subseteq Overlapping

\* SELECT ... FOR UPDATE of the task's own row.
Locks(s, t) ==
    /\ Born(t) /\ lock[t] = Nothing
    /\ row[t].version < MaxVersion[t]
    /\ lock' = [lock EXCEPT ![t] = s]

Free(s, t) == t \in Tasks => lock[t] \in {Nothing, s}

Ends(s) ==
    /\ txn' = [txn EXCEPT ![s] = NoTxn]
    /\ lock' = [t \in Tasks |-> IF lock[t] = s THEN Nothing ELSE lock[t]]

\* capture_version: one picture per version; a version that has one keeps it.
Pictured(t, v, state) ==
    IF picture[t][v] = "none" THEN [picture EXCEPT ![t][v] = state] ELSE picture

\* Mutant: the picture is taken before the change.
MovesAfterPicture(s, t, new) ==
    /\ row' = [row EXCEPT ![t] = [new EXCEPT !.version = row[t].version + 1]]
    /\ picture' = Pictured(t, row[t].version + 1, row[t].state)
    /\ Ends(s)

\* The row of a task its transaction has locked moves to its next version.
Moves(s, t, new) ==
    /\ row' = [row EXCEPT ![t] = [new EXCEPT !.version = row[t].version + 1]]
    /\ picture' = Pictured(t, row[t].version + 1, new.state)
    /\ Ends(s)

\* The session fails, or the database breaks a deadlock: nothing was written.
Rollback(s) ==
    /\ txn[s] # NoTxn
    /\ Ends(s)
    /\ UNCHANGED <<row, waitsFor, picture>>

-----------------------------------------------------------------------------
(* Commands that lock the task.                                            *)

MayChange(t, target) ==
    /\ target \in Allowed[row[t].state]
    /\ row[t].state = "open" /\ target \in {"in_progress", "done"} => BlockingPredecessors(t) = {}
    /\ target = "done" => t \notin Requested /\ \A c \in Children(t) : Settled(c)
    /\ target = "cancelled" => t \notin Requested
    /\ row[t].state = "done" => Restarts

\* start, block, resume, complete, cancel.
BeginChange(s, t, target) ==
    /\ Begins(s, "change")
    /\ Locks(s, t)
    /\ MayChange(t, target)
    /\ txn' = [txn EXCEPT ![s] = [NoTxn EXCEPT !.cmd = "change", !.task = t, !.target = target]]
    /\ UNCHANGED <<row, waitsFor, picture>>

\* respond_to_proposal: the holder agrees to cancel, whatever state the task is in.
BeginAgree(s, t) ==
    /\ Begins(s, "agree")
    /\ Locks(s, t)
    /\ t \in Requested
    /\ txn' = [txn EXCEPT ![s] = [NoTxn EXCEPT !.cmd = "agree", !.task = t, !.target = "cancelled"]]
    /\ UNCHANGED <<row, waitsFor, picture>>

EndChange(s) ==
    LET t == txn[s].task
    IN  /\ txn[s].cmd \in {"change", "agree"}
        /\ Moves(s, t, [row[t] EXCEPT !.state = txn[s].target])
        /\ UNCHANGED waitsFor

\* submit_completion: the holder reports, and a new round waits for the requester.
BeginReport(s, t) ==
    /\ Begins(s, "report")
    /\ Locks(s, t)
    /\ t \in Requested /\ row[t].state \in {"in_progress", "blocked"}
    /\ txn' = [txn EXCEPT ![s] = [NoTxn EXCEPT !.cmd = "report", !.task = t]]
    /\ UNCHANGED <<row, waitsFor, picture>>

EndReport(s) ==
    LET t == txn[s].task
    IN  /\ txn[s].cmd = "report"
        /\ Moves(s, t, [row[t] EXCEPT !.state = "completion_submitted", !.round = @ + 1])
        /\ UNCHANGED waitsFor

\* reopen, first the task ...
BeginReopen(s, t) ==
    /\ Begins(s, "reopen")
    /\ Locks(s, t)
    /\ row[t].state \in {"done", "completion_submitted"}
    /\ txn' = [txn EXCEPT ![s] = [NoTxn EXCEPT !.cmd = "reopen", !.task = t, !.other = row[t].parent]]
    /\ UNCHANGED <<row, waitsFor, picture>>

\* Mutant: the parent is read without its lock.
ReadParent(s) ==
    LET p == txn[s].other
    IN  /\ txn[s].cmd = "reopen" /\ p # Nothing
        /\ row[p].state \notin {"done", "completion_submitted"}
        /\ txn' = [txn EXCEPT ![s].other = Nothing]
        /\ UNCHANGED <<row, waitsFor, picture, lock>>

\* ... then its parent, whose completion is waited for and refuses.
LockParent(s) ==
    LET p == txn[s].other
    IN  /\ txn[s].cmd = "reopen" /\ p # Nothing
        /\ lock[p] = Nothing
        /\ \/ /\ row[p].state \notin {"done", "completion_submitted"}
              /\ lock' = [lock EXCEPT ![p] = s]
              /\ txn' = [txn EXCEPT ![s].other = Nothing]
           \/ /\ row[p].state \in {"done", "completion_submitted"}
              /\ Ends(s)
        /\ UNCHANGED <<row, waitsFor, picture>>

\* Earlier acceptances do not count for what follows.
EndReopen(s) ==
    LET t == txn[s].task
    IN  /\ txn[s].cmd = "reopen" /\ txn[s].other = Nothing
        /\ Moves(s, t, [row[t] EXCEPT !.state = "in_progress", !.accepted = {}])
        /\ UNCHANGED waitsFor

\* update with a new parent, _apply_parent_change: the parent and its
\* ancestors are read without locks.
BeginMove(s, t, p) ==
    /\ Begins(s, "move")
    /\ Locks(s, t)
    /\ row[t].state # "cancelled" /\ p # row[t].parent
    /\ p # Nothing => /\ Born(p) /\ row[p].state \notin {"done", "cancelled"}
                      /\ t \notin Reach({p}, Parents)
    /\ txn' = [txn EXCEPT ![s] = [NoTxn EXCEPT !.cmd = "move", !.task = t, !.other = p]]
    /\ UNCHANGED <<row, waitsFor, picture>>

EndMove(s) ==
    LET t == txn[s].task
    IN  /\ txn[s].cmd = "move"
        /\ Free(s, txn[s].other)
        /\ Moves(s, t, [row[t] EXCEPT !.parent = txn[s].other])
        /\ UNCHANGED waitsFor

\* Mutant: only the predecessors of the predecessors are looked at.
NoCycleNearby(t, wanted) == \A p \in wanted : t \notin waitsFor[p]

\* _require_no_predecessor_cycle: walks the edges that are committed.
NoCycle(t, wanted) == t \notin Reach(wanted, waitsFor)

\* update with a new list of predecessors, which replaces the old one.
BeginOrder(s, t, wanted) ==
    /\ Begins(s, "order")
    /\ Locks(s, t)
    /\ row[t].state # "cancelled"
    /\ wanted # waitsFor[t] /\ t \notin wanted /\ \A p \in wanted : Born(p)
    /\ NoCycle(t, wanted)
    /\ txn' = [txn EXCEPT ![s] = [NoTxn EXCEPT !.cmd = "order", !.task = t, !.wanted = wanted]]
    /\ UNCHANGED <<row, waitsFor, picture>>

EndOrder(s) ==
    LET t == txn[s].task
    IN  /\ txn[s].cmd = "order"
        /\ \A p \in txn[s].wanted \ waitsFor[t] : Free(s, p)
        /\ waitsFor' = [waitsFor EXCEPT ![t] = txn[s].wanted]
        /\ Moves(s, t, row[t])

-----------------------------------------------------------------------------
(* Commands that move a row they have not locked.                          *)

\* create_self under a parent (or under none): parent_for reads the parent.
BeginAdd(s, c, p) ==
    /\ Begins(s, "add")
    /\ ~Born(c) /\ \A r \in InFlight : txn[r].task # c
    /\ p # Nothing => /\ Born(p) /\ row[p].state \notin {"done", "cancelled"}
                      /\ row[p].version < MaxVersion[p]
    /\ txn' = [txn EXCEPT ![s] = [NoTxn EXCEPT !.cmd = "add", !.task = c, !.other = p,
                                               !.seen = IF p = Nothing THEN 0 ELSE row[p].version,
                                               !.target = IF p = Nothing THEN "open" ELSE row[p].state]]
    /\ UNCHANGED <<row, waitsFor, picture, lock>>

\* The child is inserted; record_subtask writes the version after the one read, and
\* freezes the parent as it was read.
EndAdd(s) ==
    LET c == txn[s].task
        p == txn[s].other
        v == txn[s].seen + 1
    IN  /\ txn[s].cmd = "add"
        /\ Free(s, p)
        /\ row' = [t \in Tasks |-> IF t = c THEN Fresh(p)
                                   ELSE IF t = p THEN [row[t] EXCEPT !.version = v] ELSE row[t]]
        /\ picture' = [t \in Tasks |-> IF t = c THEN [picture[c] EXCEPT ![1] = "open"]
                                       ELSE IF t = p THEN Pictured(p, v, txn[s].target)[p] ELSE picture[t]]
        /\ Ends(s)
        /\ UNCHANGED waitsFor

\* accept_delivery ("done") and request_delivery_changes ("in_progress"): the
\* requester answers a report nobody has answered, on rows read without locks.
BeginDecide(s, t, decision) ==
    /\ Begins(s, "decide")
    /\ row[t].state = "completion_submitted" /\ row[t].version < MaxVersion[t]
    /\ row[t].round \notin row[t].answered
    /\ decision = "done" => \A c \in Children(t) : Settled(c)
    /\ txn' = [txn EXCEPT ![s] = [NoTxn EXCEPT !.cmd = "decide", !.task = t, !.target = decision,
                                               !.seen = row[t].version, !.round = row[t].round]]
    /\ UNCHANGED <<row, waitsFor, picture, lock>>

EndDecide(s) ==
    LET t == txn[s].task
        r == txn[s].round
        v == txn[s].seen + 1
    IN  /\ txn[s].cmd = "decide"
        /\ Free(s, t)
        /\ row' = [row EXCEPT ![t].state = txn[s].target, ![t].version = v,
                              ![t].answered = @ \cup {r},
                              ![t].accepted = IF txn[s].target = "done" THEN @ \cup {r} ELSE @]
        /\ picture' = Pictured(t, v, txn[s].target)
        /\ Ends(s)
        /\ UNCHANGED waitsFor

-----------------------------------------------------------------------------
Begin(s) ==
    \E t \in Tasks :
        \/ \E target \in States : BeginChange(s, t, target)
        \/ BeginAgree(s, t)
        \/ BeginReport(s, t)
        \/ BeginReopen(s, t)
        \/ \E p \in Tasks \cup {Nothing} : BeginMove(s, t, p) \/ BeginAdd(s, t, p)
        \/ \E wanted \in SUBSET Tasks : BeginOrder(s, t, wanted)
        \/ \E decision \in {"done", "in_progress"} : BeginDecide(s, t, decision)

End(s) ==
    \/ EndChange(s) \/ EndReport(s) \/ EndReopen(s) \/ EndMove(s) \/ EndOrder(s)
    \/ EndAdd(s) \/ EndDecide(s)

\* A commit adds or removes edges that the walk of such a command has followed.
ChangesEdges(cmd) ==
    \/ cmd = "order" /\ waitsFor' # waitsFor
    \/ cmd = "move" /\ \E t \in Tasks : Born(t) /\ row'[t].parent # row[t].parent

\* The history of the walks under way.
Record ==
    overtaken' = {s \in Sessions : /\ txn[s].cmd \in {"order", "move"} /\ txn'[s] = txn[s]
                                   /\ s \in overtaken \/ ChangesEdges(txn[s].cmd)}

Next ==
    /\ \E s \in Sessions : Begin(s) \/ LockParent(s) \/ End(s) \/ Rollback(s)
    /\ Record

Spec == Init /\ [][Next]_vars

-----------------------------------------------------------------------------
(* Properties.                                                             *)

\* Every row, picture, lock and transaction keeps its type.
TypeOK ==
    /\ row \in [Tasks -> Rows]
    /\ waitsFor \in [Tasks -> SUBSET Tasks]
    /\ picture \in [Tasks -> [Versions -> States \cup {"none"}]]
    /\ lock \in [Tasks -> Sessions \cup {Nothing}]
    /\ txn \in [Sessions -> Txns]

\* A finished task has no unfinished part, though completing a task locks only
\* the task and reopening one locks it and its parent
\* (_no_open_child_under_a_settled_parent).
DoneTaskHasNoOpenPart ==
    \A p \in Tasks : row[p].state = "done" => \A c \in Children(p) : Settled(c)

\* No task waits for itself through its predecessors ...
PredecessorsAreAcyclic == \A t \in Tasks : t \notin Reach(waitsFor[t], waitsFor)

\* ... and none is a part of itself.
PartsAreAcyclic == \A t \in Tasks : t \notin Reach(Parents[t], Parents)

NothingWaitsForItself == PredecessorsAreAcyclic /\ PartsAreAcyclic

NoTwoTasksWaitForEachOther ==
    \A t, u \in Tasks : /\ u \in waitsFor[t] => t \notin waitsFor[u]
                        /\ u \in Parents[t] => t \notin Parents[u]

\* Walks read without locks, so updates that overlap may close a cycle, but only a long
\* one and only so: the key of an edge waits for the lock of the task it leads to, which
\* keeps two tasks from waiting for each other, and a longer cycle is closed by a commit
\* whose walk another commit has overtaken
\* (_require_no_predecessor_cycle, _ancestor_ids).
OnlyOvertakenWalksCloseACycle ==
    /\ []NoTwoTasksWaitForEachOther
    /\ [][NothingWaitsForItself /\ ~NothingWaitsForItself' => \E s \in overtaken : txn'[s] = NoTxn]_vars

\* The picture frozen for a task's current version shows the task as it is
\* (TaskVersionRecord: "frozen in the transaction that made that version").
PictureShowsTheTask == \A t \in Tasks : Born(t) => picture[t][row[t].version] = row[t].state
=============================================================================
