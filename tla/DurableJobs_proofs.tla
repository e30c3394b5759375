------------------------- MODULE DurableJobs_proofs -------------------------
(***************************************************************************)
(* Proofs about the job transport, for every number of rows, keys, callers *)
(* and workers and every lease length.                                     *)
(***************************************************************************)
EXTENDS DurableJobs, TLAPS

\* Some key exists, so AnyKey is one.
LEMMA AnyKeyIsKey == AnyKey \in IdempotencyKeys /\ OrderOf[AnyKey] \in OrderingKeys
  BY KeysAssumption DEF AnyKey

\* Moving a transaction to its next statement keeps the callers' type.
LEMMA GotoType ==
  ASSUME caller \in [Callers -> CallerStates], NEW c \in Callers,
         NEW pc \in CallerPCs, NEW seq \in 0 .. MaxSeq, Goto(c, pc, seq)
  PROVE  caller' \in [Callers -> CallerStates]
  BY DEF Goto, CallerStates

\* The enqueuing transactions keep every column's type.
LEMMA CallerTypeStep ==
  ASSUME TypeOK, NEW c \in Callers, CallerStep(c)
  PROVE  TypeOK'
<1> USE BoundsAssumption, KeysAssumption
<1>1. ASSUME NEW k \in IdempotencyKeys, BeginEnqueue(c, k) PROVE TypeOK'
  <2>1. caller' \in [Callers -> CallerStates]
    BY <1>1 DEF TypeOK, BeginEnqueue, CallerStates, CallerPCs
  <2> QED BY <1>1, <2>1 DEF TypeOK, BeginEnqueue, rowVars
<1>2. CASE LookUp(c)
  <2>1. PICK pc \in CallerPCs, seq \in 0 .. MaxSeq : Goto(c, pc, seq)
    BY <1>2 DEF LookUp, ActiveWith, Seqs, CallerPCs, TypeOK
  <2>2. caller' \in [Callers -> CallerStates]
    BY <2>1, GotoType DEF TypeOK
  <2>3. nextSeq' \in 1 .. MaxSeq + 1
    BY <1>2 DEF LookUp, TypeOK
  <2> QED BY <1>2, <2>2, <2>3 DEF TypeOK, LookUp, rowVars
<1>3. CASE Insert(c)
  <2>1. PICK pc \in CallerPCs, seq \in 0 .. MaxSeq : Goto(c, pc, seq)
    BY <1>3 DEF Insert, CallerPCs, TypeOK, CallerStates
  <2>2. caller' \in [Callers -> CallerStates]
    BY <2>1, GotoType DEF TypeOK
  <2>3. caller[c].idem \in IdempotencyKeys
    BY DEF TypeOK, CallerStates
  <2>4. state' \in [Seqs -> RowStates] /\ idem' \in [Seqs -> IdempotencyKeys]
    BY <1>3, <2>3 DEF Insert, TypeOK, RowStates, rowVars
  <2> QED BY <1>3, <2>2, <2>4 DEF TypeOK, Insert, rowVars
<1>4. CASE Reselect(c)
  <2>1. PICK pc \in CallerPCs, seq \in 0 .. MaxSeq : Goto(c, pc, seq)
    BY <1>4 DEF Reselect, ActiveWith, Seqs, CallerPCs, TypeOK
  <2>2. caller' \in [Callers -> CallerStates]
    BY <2>1, GotoType DEF TypeOK
  <2> QED BY <1>4, <2>2 DEF TypeOK, Reselect, rowVars
<1>5. CASE Commit(c) \/ Rollback(c)
  <2>1. PICK outcome \in RowStates : EndTransaction(c, outcome)
    BY <1>5 DEF Commit, Rollback, RowStates, Active
  <2>2. caller' \in [Callers -> CallerStates]
    BY <2>1, AnyKeyIsKey DEF TypeOK, EndTransaction, Idle, CallerStates, CallerPCs
  <2>3. state' \in [Seqs -> RowStates]
    BY <2>1 DEF TypeOK, EndTransaction
  <2> QED BY <2>1, <2>2, <2>3 DEF TypeOK, EndTransaction
<1> QED
  BY <1>1, <1>2, <1>3, <1>4, <1>5 DEF CallerStep

\* Claims, fenced writes and crashes keep every column's type.
LEMMA WorkerTypeStep ==
  ASSUME TypeOK, NEW w \in Workers, WorkerStep(w)
  PROVE  TypeOK'
<1> USE BoundsAssumption, KeysAssumption
<1>1. ASSUME NEW s \in Seqs, Claim(w, s) PROVE TypeOK'
  <2>1. attempts[s] + 1 \in 0 .. MaxAttempts
    BY <1>1 DEF TypeOK, Claim
  <2>2. held' \in [Workers -> Leases]
    BY <1>1, <2>1 DEF TypeOK, Claim, Leases, Seqs
  <2>3. /\ state' \in [Seqs -> RowStates]
        /\ attempts' \in [Seqs -> 0 .. MaxAttempts]
        /\ token' \in [Seqs -> 0 .. MaxAttempts]
        /\ left' \in [Seqs -> -MaxTxn .. LeaseSeconds]
    BY <1>1, <2>1 DEF TypeOK, Claim, RowStates, Active
  <2> QED BY <1>1, <2>2, <2>3 DEF TypeOK, Claim
<1>2. ASSUME NEW age, NEW next \in RowStates, NEW delay \in 0 .. MaxDelay,
             LeaveRunning(w, age, next, delay)
      PROVE  TypeOK'
  <2>1. held' \in [Workers -> Leases]
    BY <1>2 DEF TypeOK, LeaveRunning, Leases, NoLease
  <2>2. state' \in [Seqs -> RowStates] /\ token' \in [Seqs -> 0 .. MaxAttempts]
    BY <1>2 DEF TypeOK, LeaveRunning
  <2>3. left' \in [Seqs -> -MaxTxn .. LeaseSeconds] /\ wait' \in [Seqs -> 0 .. MaxDelay]
    BY <1>2 DEF TypeOK, LeaveRunning
  <2> QED BY <1>2, <2>1, <2>2, <2>3 DEF TypeOK, LeaveRunning
<1>3. CASE Finish(w)
  <2>1. CASE Complete(w)
    <3>1. PICK a : LeaveRunning(w, a, "completed", 0)
      BY <2>1 DEF Complete
    <3>2. "completed" \in RowStates /\ 0 \in 0 .. MaxDelay
      BY DEF RowStates, Terminal
    <3> QED BY <3>1, <3>2, <1>2
  <2>2. CASE Fail(w)
    <3>1. PICK a : LeaveRunning(w, a, "failed", 0)
      BY <2>2 DEF Fail
    <3>2. "failed" \in RowStates /\ 0 \in 0 .. MaxDelay
      BY DEF RowStates, Terminal
    <3> QED BY <3>1, <3>2, <1>2
  <2>3. CASE Release(w)
    <3>1. PICK a \in TxnAges(held[w].job), d \in 0 .. MaxDelay : LeaveRunning(w, a, "queued", d)
      BY <2>3 DEF Release
    <3>2. "queued" \in RowStates
      BY DEF RowStates, Active
    <3> QED BY <3>1, <3>2, <1>2
  <2> QED BY <1>3, <2>1, <2>2, <2>3 DEF Finish
<1>4. CASE ExtendLease(w)
  <2>1. PICK a \in TxnAges(held[w].job) :
           /\ Fenced(w, a)
           /\ left' = [left EXCEPT ![held[w].job] = LeaseSeconds - a]
    BY <1>4 DEF ExtendLease
  <2>2. LeaseSeconds - a \in -MaxTxn .. LeaseSeconds
    BY <2>1 DEF TxnAges
  <2>3. left' \in [Seqs -> -MaxTxn .. LeaseSeconds]
    BY <2>1, <2>2 DEF TypeOK
  <2> QED BY <1>4, <2>3 DEF TypeOK, ExtendLease
<1>5. CASE Crash(w)
  <2>1. held' \in [Workers -> Leases]
    BY <1>5 DEF TypeOK, Crash, Leases, NoLease
  <2> QED BY <1>5, <2>1 DEF TypeOK, Crash, rowVars
<1> QED
  BY <1>1, <1>3, <1>4, <1>5 DEF WorkerStep

\* Every step keeps every column's type.
LEMMA TypeStep == TypeOK /\ [Next]_vars => TypeOK'
<1> SUFFICES ASSUME TypeOK, [Next]_vars PROVE TypeOK'
  OBVIOUS
<1>1. CASE Tick
  <2>1. left' \in [Seqs -> -MaxTxn .. LeaseSeconds]
    BY <1>1, BoundsAssumption DEF TypeOK, Tick, Elapsed
  <2>2. wait' \in [Seqs -> 0 .. MaxDelay]
    BY <1>1, BoundsAssumption DEF TypeOK, Tick
  <2> QED BY <1>1, <2>1, <2>2 DEF TypeOK, Tick
<1>2. CASE UNCHANGED vars
  BY <1>2 DEF TypeOK, vars
<1> QED
  BY <1>1, <1>2, CallerTypeStep, WorkerTypeStep DEF Next

-----------------------------------------------------------------------------
(* The inductive invariant, one lemma per action of the callers.           *)

\* A step that touches neither rows, callers nor the sequence keeps everything
\* that Inv says of enqueuing.
EnqueueInv == SequenceInv /\ LockInv /\ NewestInv /\ OneOpenPerIdempotencyKey

\* What Inv says of claims.
ClaimInv == LeaseInv /\ HolderInv /\ StartsAfterEarlierOver

\* The two groups are all of the invariant.
LEMMA InvParts == Inv <=> TypeOK /\ EnqueueInv /\ ClaimInv
  BY DEF Inv, EnqueueInv, ClaimInv

\* Opening a transaction keeps the invariant: the row lock of a locked key is
\* free when it is taken.
LEMMA BeginStep ==
  ASSUME Inv, NEW c \in Callers, NEW k \in IdempotencyKeys, BeginEnqueue(c, k)
  PROVE  EnqueueInv' /\ ClaimInv'
<1> USE DEF Inv, TypeOK
<1>1. /\ UNCHANGED rowVars /\ UNCHANGED nextSeq /\ UNCHANGED held
      /\ caller' = [caller EXCEPT ![c] = [pc |-> "lookup", idem |-> k, seq |-> 0]]
  BY DEF BeginEnqueue
<1>2. caller[c].pc = "idle"
  BY DEF BeginEnqueue, InFlight
<1>3. ClaimInv'
  BY <1>1 DEF ClaimInv, LeaseInv, HolderInv, StartsAfterEarlierOver, rowVars, Holding, KeyOf
<1>4. SequenceInv'
  BY <1>1 DEF SequenceInv, Exists, rowVars
<1>5. LockInv'
  <2>1. \A d, e \in Callers :
           InFlight(d)' /\ InFlight(e)' /\ CallerKey(d)' = CallerKey(e)' /\ CallerKey(d)' \in LockedKeys
           => d = e
    BY <1>1, <1>2 DEF LockInv, BeginEnqueue, InFlight, CallerKey
  <2>2. ASSUME NEW s \in Seqs, (state[s] = "uncommitted")'
        PROVE  (\E d \in Callers : Owns(d, s) /\ caller[d].idem = idem[s])'
    <3>1. PICK d \in Callers : Owns(d, s) /\ caller[d].idem = idem[s]
      BY <1>1, <2>2 DEF LockInv, rowVars
    <3>2. d # c
      BY <3>1, <1>2 DEF Owns
    <3> QED BY <1>1, <3>1, <3>2 DEF Owns, rowVars
  <2> QED BY <2>1, <2>2 DEF LockInv
<1>6. NewestInv'
  BY <1>1 DEF NewestInv, Exists, KeyOf, CallerKey, rowVars
<1>7. OneOpenPerIdempotencyKey'
  BY <1>1 DEF OneOpenPerIdempotencyKey, rowVars
<1> QED BY <1>3, <1>4, <1>5, <1>6, <1>7 DEF EnqueueInv

\* The first SELECT and the sequence draw keep the invariant: the value drawn
\* is above every row's.
LEMMA LookUpStep ==
  ASSUME Inv, NEW c \in Callers, LookUp(c)
  PROVE  EnqueueInv' /\ ClaimInv'
<1> USE DEF Inv, TypeOK
<1>1. UNCHANGED rowVars /\ UNCHANGED held /\ caller[c].pc = "lookup"
  BY DEF LookUp
<1>2. PICK s0 \in Seqs :
         \/ Goto(c, "done", s0) /\ state[s0] \in Active /\ nextSeq' = nextSeq
         \/ Goto(c, "insert", s0) /\ s0 = nextSeq /\ nextSeq' = nextSeq + 1
  BY DEF LookUp, ActiveWith, Seqs
<1>3. /\ \A d \in Callers : d # c => caller'[d] = caller[d]
      /\ caller'[c].idem = caller[c].idem
      /\ caller'[c].pc \in {"done", "insert"}
      /\ caller'[c].seq = s0
      /\ caller'[c].pc = "insert" => s0 = nextSeq /\ nextSeq' = nextSeq + 1
      /\ nextSeq' \in {nextSeq, nextSeq + 1}
  BY <1>2 DEF Goto
<1>4. ClaimInv'
  BY <1>1 DEF ClaimInv, LeaseInv, HolderInv, StartsAfterEarlierOver, rowVars, Holding, KeyOf
<1>5. SequenceInv'
  <2>1. \A s \in Seqs : Exists(s)' => s < nextSeq'
    BY <1>1, <1>3 DEF SequenceInv, Exists, rowVars, Seqs
  <2>2. ASSUME NEW d \in Callers, caller'[d].pc = "insert"
        PROVE  /\ caller'[d].seq \in Seqs
               /\ caller'[d].seq < nextSeq'
               /\ ~Exists(caller[d].seq)'
    BY <1>1, <1>3, <2>2 DEF SequenceInv, Exists, rowVars, Seqs
  <2>3. ASSUME NEW d \in Callers, NEW e \in Callers,
               caller'[d].pc = "insert", caller'[e].pc = "insert", caller'[d].seq = caller'[e].seq
        PROVE  d = e
    <3>1. CASE d # c /\ e # c
      BY <1>3, <2>3, <3>1 DEF SequenceInv
    <3>2. CASE d = c /\ e # c
      BY <1>3, <2>3, <3>2 DEF SequenceInv, Seqs
    <3>3. CASE d # c /\ e = c
      BY <1>3, <2>3, <3>3 DEF SequenceInv, Seqs
    <3> QED BY <3>1, <3>2, <3>3
  <2> QED BY <2>1, <2>2, <2>3 DEF SequenceInv
<1>6. LockInv'
  <2>1. \A d \in Callers : InFlight(d)' <=> InFlight(d)
    BY <1>1, <1>3 DEF InFlight
  <2>2. \A d \in Callers : CallerKey(d)' = CallerKey(d)
    BY <1>3 DEF CallerKey
  <2>3. ASSUME NEW s \in Seqs, (state[s] = "uncommitted")'
        PROVE  (\E d \in Callers : Owns(d, s) /\ caller[d].idem = idem[s])'
    <3>1. PICK d \in Callers : Owns(d, s) /\ caller[d].idem = idem[s]
      BY <1>1, <2>3 DEF LockInv, rowVars
    <3>2. d # c
      BY <3>1, <1>1 DEF Owns
    <3> QED BY <1>1, <1>3, <3>1, <3>2 DEF Owns, rowVars
  <2> QED BY <2>1, <2>2, <2>3 DEF LockInv
<1>7. NewestInv'
  <2>1. ASSUME NEW d \in Callers, NEW s \in Seqs, caller'[d].pc = "insert", Exists(s)',
               KeyOf(s)' = CallerKey(d)', KeyOf(s)' \in LockedKeys
        PROVE  s < caller'[d].seq
    <3>1. Exists(s) /\ KeyOf(s)' = KeyOf(s) /\ CallerKey(d)' = CallerKey(d)
      BY <1>1, <1>3, <2>1 DEF Exists, KeyOf, CallerKey, rowVars
    <3> QED BY <1>3, <2>1, <3>1 DEF NewestInv, SequenceInv
  <2> QED BY <1>1, <2>1 DEF NewestInv, Exists, KeyOf, rowVars
<1>8. OneOpenPerIdempotencyKey'
  BY <1>1 DEF OneOpenPerIdempotencyKey, rowVars
<1> QED BY <1>4, <1>5, <1>6, <1>7, <1>8 DEF EnqueueInv

\* The INSERT keeps the invariant: it has waited for every invisible row of its
\* key, and its row is the newest of its ordering key.
LEMMA InsertStep ==
  ASSUME Inv, NEW c \in Callers, Insert(c)
  PROVE  EnqueueInv' /\ ClaimInv'
<1> USE DEF Inv, TypeOK
<1> DEFINE s0 == caller[c].seq
<1>1. /\ UNCHANGED <<attempts, token, left, wait, nextSeq, held>>
      /\ caller[c].pc = "insert"
      /\ \A e \in Seqs : ~(state[e] = "uncommitted" /\ idem[e] = caller[c].idem)
  BY DEF Insert, rowVars
<1>2. s0 \in Seqs /\ s0 < nextSeq /\ state[s0] = "absent" /\ caller[c].idem \in IdempotencyKeys
  BY <1>1 DEF SequenceInv, Exists, CallerStates
<1>3. CASE Goto(c, "reselect", 0) /\ UNCHANGED rowVars
  <2>1. /\ \A d \in Callers : d # c => caller'[d] = caller[d]
        /\ caller'[c].idem = caller[c].idem /\ caller'[c].pc = "reselect"
    BY <1>3 DEF Goto
  <2>2. ClaimInv'
    BY <1>1, <1>3 DEF ClaimInv, LeaseInv, HolderInv, StartsAfterEarlierOver, rowVars, Holding, KeyOf
  <2>3. SequenceInv'
    BY <1>1, <1>3, <2>1 DEF SequenceInv, Exists, rowVars
  <2>4. LockInv'
    <3>1. \A d \in Callers : (InFlight(d)' <=> InFlight(d)) /\ CallerKey(d)' = CallerKey(d)
      BY <1>1, <2>1 DEF InFlight, CallerKey
    <3>2. ASSUME NEW s \in Seqs, (state[s] = "uncommitted")'
          PROVE  (\E d \in Callers : Owns(d, s) /\ caller[d].idem = idem[s])'
      <4>1. PICK d \in Callers : Owns(d, s) /\ caller[d].idem = idem[s]
        BY <1>3, <3>2 DEF LockInv, rowVars
      <4>2. d # c
        BY <4>1, <1>1 DEF Owns
      <4> QED BY <1>3, <2>1, <4>1, <4>2 DEF Owns, rowVars
    <3> QED BY <3>1, <3>2 DEF LockInv
  <2>5. NewestInv'
    BY <1>3, <2>1 DEF NewestInv, Exists, KeyOf, CallerKey, rowVars
  <2>6. OneOpenPerIdempotencyKey'
    BY <1>3 DEF OneOpenPerIdempotencyKey, rowVars
  <2> QED BY <2>2, <2>3, <2>4, <2>5, <2>6 DEF EnqueueInv
<1>4. CASE /\ ActiveWith(caller[c].idem) = {}
           /\ state' = [state EXCEPT ![s0] = "uncommitted"]
           /\ idem' = [idem EXCEPT ![s0] = caller[c].idem]
           /\ Goto(c, "done", s0)
  <2>1. /\ \A d \in Callers : d # c => caller'[d] = caller[d]
        /\ caller'[c].idem = caller[c].idem /\ caller'[c].pc = "done" /\ caller'[c].seq = s0
    BY <1>4 DEF Goto
  <2>2. /\ \A s \in Seqs : s # s0 => state'[s] = state[s] /\ idem'[s] = idem[s]
        /\ state'[s0] = "uncommitted" /\ idem'[s0] = caller[c].idem
    BY <1>2, <1>4
  <2>3. ASSUME NEW s \in Seqs, s # s0
        PROVE  KeyOf(s)' = KeyOf(s) /\ (Exists(s)' <=> Exists(s))
    BY <2>2, <2>3 DEF KeyOf, Exists
  <2>4. KeyOf(s0)' = CallerKey(c)
    BY <2>1, <2>2 DEF KeyOf, CallerKey
  <2>5. \A s \in Seqs : Exists(s) /\ KeyOf(s) = CallerKey(c) /\ KeyOf(s) \in LockedKeys => s < s0
    BY <1>1 DEF NewestInv
  <2>6. \A d \in Callers : (InFlight(d)' <=> InFlight(d)) /\ CallerKey(d)' = CallerKey(d)
    BY <1>1, <2>1 DEF InFlight, CallerKey
  <2>7. LeaseInv'
    BY <1>1, <1>2, <2>2 DEF LeaseInv, Terminal
  <2>8. HolderInv'
    BY <1>1 DEF HolderInv, Holding
  <2>9. StartsAfterEarlierOver'
    <3> SUFFICES ASSUME NEW e \in Seqs, NEW s \in Seqs, e < s, state'[e] # "absent",
                        KeyOf(e)' = KeyOf(s)', KeyOf(s)' \in LockedKeys, attempts'[s] > 0
                 PROVE  state'[e] \in Terminal \cup {"rolled_back"}
      BY DEF StartsAfterEarlierOver
    <3>1. s # s0
      BY <1>1, <1>2 DEF LeaseInv
    <3>2. CASE e = s0
      <4>1. Exists(s)
        BY <1>1, <3>1 DEF LeaseInv, Exists
      <4> QED BY <2>2, <2>5, <3>1, <3>2, <4>1 DEF Seqs, KeyOf, CallerKey, Exists
    <3>3. CASE e # s0
      BY <1>1, <2>2, <2>3, <3>1, <3>3 DEF StartsAfterEarlierOver
    <3> QED BY <3>2, <3>3
  <2>10. SequenceInv'
    <3>1. \A s \in Seqs : Exists(s)' => s < nextSeq'
      BY <1>1, <1>2, <2>3 DEF SequenceInv
    <3>2. ASSUME NEW d \in Callers, caller'[d].pc = "insert"
          PROVE  /\ caller'[d].seq \in Seqs
                 /\ caller'[d].seq < nextSeq'
                 /\ ~Exists(caller[d].seq)'
      <4>1. d # c /\ caller'[d] = caller[d]
        BY <2>1, <3>2
      <4>2. caller[d].seq # s0 /\ caller[d].seq \in Seqs
        BY <1>1, <3>2, <4>1 DEF SequenceInv
      <4> QED BY <1>1, <2>2, <3>2, <4>1, <4>2 DEF SequenceInv, Exists
    <3>3. ASSUME NEW d \in Callers, NEW e \in Callers,
                 caller'[d].pc = "insert", caller'[e].pc = "insert", caller'[d].seq = caller'[e].seq
          PROVE  d = e
      BY <2>1, <3>3 DEF SequenceInv
    <3> QED BY <3>1, <3>2, <3>3 DEF SequenceInv
  <2>11. LockInv'
    <3>1. ASSUME NEW s \in Seqs, (state[s] = "uncommitted")'
          PROVE  (\E d \in Callers : Owns(d, s) /\ caller[d].idem = idem[s])'
      <4>1. CASE s = s0
        BY <2>1, <2>2, <4>1 DEF Owns
      <4>2. CASE s # s0
        <5>1. PICK d \in Callers : Owns(d, s) /\ caller[d].idem = idem[s]
          BY <2>2, <3>1, <4>2 DEF LockInv
        <5>2. d # c
          BY <5>1, <1>1 DEF Owns
        <5> QED BY <2>1, <2>2, <4>2, <5>1, <5>2 DEF Owns
      <4> QED BY <4>1, <4>2
    <3> QED BY <2>6, <3>1 DEF LockInv
  <2>12. \A e \in Seqs : state[e] = "uncommitted" /\ KeyOf(e) = CallerKey(c) => KeyOf(e) \notin LockedKeys
    <3> SUFFICES ASSUME NEW e \in Seqs, state[e] = "uncommitted", KeyOf(e) = CallerKey(c),
                        KeyOf(e) \in LockedKeys
                 PROVE  FALSE
      OBVIOUS
    <3>1. PICK d \in Callers : Owns(d, e) /\ caller[d].idem = idem[e]
      BY DEF LockInv
    <3>2. d # c
      BY <3>1, <1>1 DEF Owns
    <3> QED BY <1>1, <3>1, <3>2 DEF LockInv, InFlight, CallerKey, KeyOf, Owns
  <2>13. NewestInv'
    <3>1. ASSUME NEW d \in Callers, NEW s \in Seqs, caller'[d].pc = "insert", Exists(s)',
                 KeyOf(s)' = CallerKey(d)', KeyOf(s)' \in LockedKeys
          PROVE  s < caller'[d].seq
      <4>1. d # c /\ caller'[d] = caller[d]
        BY <2>1, <3>1
      <4>2. s # s0
        BY <1>1, <2>2, <3>1, <4>1 DEF LockInv, InFlight, CallerKey, KeyOf
      <4> QED BY <2>3, <2>6, <3>1, <4>1, <4>2 DEF NewestInv
    <3>2. ASSUME NEW e \in Seqs, NEW s \in Seqs, state'[e] = "uncommitted", Exists(s)',
                 KeyOf(s)' = KeyOf(e)', KeyOf(s)' \in LockedKeys
          PROVE  s <= e
      <4>1. CASE e = s0
        <5>1. CASE s = s0
          BY <4>1, <5>1 DEF Seqs
        <5>2. CASE s # s0
          BY <2>2, <2>5, <3>2, <4>1, <5>2 DEF Seqs, KeyOf, CallerKey, Exists
        <5> QED BY <5>1, <5>2
      <4>2. CASE e # s0
        <5>1. state[e] = "uncommitted" /\ KeyOf(e)' = KeyOf(e)
          BY <2>2, <2>3, <3>2, <4>2
        <5>2. s # s0
          BY <2>2, <2>12, <3>2, <5>1 DEF KeyOf, CallerKey
        <5> QED BY <2>3, <3>2, <5>1, <5>2 DEF NewestInv
      <4> QED BY <4>1, <4>2
    <3> QED BY <3>1, <3>2 DEF NewestInv
  <2>14. OneOpenPerIdempotencyKey'
    <3> SUFFICES ASSUME NEW s \in Seqs, NEW e \in Seqs,
                        state'[s] \in Active \cup {"uncommitted"},
                        state'[e] \in Active \cup {"uncommitted"}, idem'[s] = idem'[e]
                 PROVE  s = e
      BY DEF OneOpenPerIdempotencyKey
    <3>1. \A r \in Seqs : r # s0 /\ state[r] \in Active \cup {"uncommitted"} => idem[r] # caller[c].idem
      BY <1>1, <1>4 DEF ActiveWith
    <3> QED BY <2>2, <3>1 DEF OneOpenPerIdempotencyKey
  <2> QED BY <2>7, <2>8, <2>9, <2>10, <2>11, <2>13, <2>14 DEF EnqueueInv, ClaimInv
<1> QED BY <1>3, <1>4 DEF Insert

\* Answering with the winner, or starting over, keeps the invariant.
LEMMA ReselectStep ==
  ASSUME Inv, NEW c \in Callers, Reselect(c)
  PROVE  EnqueueInv' /\ ClaimInv'
<1> USE DEF Inv, TypeOK
<1>1. UNCHANGED rowVars /\ UNCHANGED nextSeq /\ UNCHANGED held /\ caller[c].pc = "reselect"
  BY DEF Reselect
<1>2. /\ \A d \in Callers : d # c => caller'[d] = caller[d]
      /\ caller'[c].idem = caller[c].idem /\ caller'[c].pc \in {"done", "lookup"}
  BY DEF Reselect, Goto
<1>3. ClaimInv'
  BY <1>1 DEF ClaimInv, LeaseInv, HolderInv, StartsAfterEarlierOver, rowVars, Holding, KeyOf
<1>4. SequenceInv'
  BY <1>1, <1>2 DEF SequenceInv, Exists, rowVars
<1>5. LockInv'
  <2>1. \A d \in Callers : (InFlight(d)' <=> InFlight(d)) /\ CallerKey(d)' = CallerKey(d)
    BY <1>1, <1>2 DEF InFlight, CallerKey
  <2>2. ASSUME NEW s \in Seqs, (state[s] = "uncommitted")'
        PROVE  (\E d \in Callers : Owns(d, s) /\ caller[d].idem = idem[s])'
    <3>1. PICK d \in Callers : Owns(d, s) /\ caller[d].idem = idem[s]
      BY <1>1, <2>2 DEF LockInv, rowVars
    <3>2. d # c
      BY <3>1, <1>1 DEF Owns
    <3> QED BY <1>1, <1>2, <3>1, <3>2 DEF Owns, rowVars
  <2> QED BY <2>1, <2>2 DEF LockInv
<1>6. NewestInv'
  BY <1>1, <1>2 DEF NewestInv, Exists, KeyOf, CallerKey, rowVars
<1>7. OneOpenPerIdempotencyKey'
  BY <1>1 DEF OneOpenPerIdempotencyKey, rowVars
<1> QED BY <1>3, <1>4, <1>5, <1>6, <1>7 DEF EnqueueInv

\* Commit and rollback keep the invariant: only the caller's own row changes,
\* and it was open or invisible before and after.
LEMMA EndStep ==
  ASSUME Inv, NEW c \in Callers, NEW outcome \in {"queued", "rolled_back"},
         EndTransaction(c, outcome)
  PROVE  EnqueueInv' /\ ClaimInv'
<1> USE DEF Inv, TypeOK
<1>1. /\ UNCHANGED <<idem, attempts, token, left, wait, nextSeq, held>>
      /\ \A s \in Seqs : state'[s] = IF Owns(c, s) THEN outcome ELSE state[s]
      /\ \A d \in Callers : d # c => caller'[d] = caller[d]
      /\ caller'[c].pc = "idle"
  BY DEF EndTransaction, Idle
<1>2. \A s \in Seqs : state'[s] # state[s] => state[s] = "uncommitted" /\ state'[s] = outcome
  BY <1>1 DEF Owns
<1>3. \A s \in Seqs : state'[s] = "absent" <=> state[s] = "absent"
  BY <1>2
<1>4. LeaseInv'
  BY <1>1, <1>2 DEF LeaseInv, Terminal
<1>5. HolderInv'
  BY <1>1 DEF HolderInv, Holding
<1>6. StartsAfterEarlierOver'
  <2> SUFFICES ASSUME NEW e \in Seqs, NEW s \in Seqs, e < s, state'[e] # "absent",
                      OrderOf[idem'[e]] = OrderOf[idem'[s]], OrderOf[idem'[s]] \in LockedKeys,
                      attempts'[s] > 0
               PROVE  state'[e] \in Terminal \cup {"rolled_back"}
    BY DEF StartsAfterEarlierOver, KeyOf
  <2>1. state[e] \in Terminal \cup {"rolled_back"}
    BY <1>1, <1>3 DEF StartsAfterEarlierOver, KeyOf
  <2> QED BY <1>2, <2>1 DEF Terminal
<1>7. SequenceInv'
  <2>1. \A d \in Callers : caller'[d].pc = "insert" => d # c /\ caller'[d] = caller[d]
    BY <1>1
  <2> QED BY <1>1, <1>3, <2>1 DEF SequenceInv, Exists
<1>8. LockInv'
  <2>1. \A d \in Callers : InFlight(d)' => d # c /\ InFlight(d) /\ CallerKey(d)' = CallerKey(d)
    BY <1>1 DEF InFlight, CallerKey
  <2>2. ASSUME NEW s \in Seqs, (state[s] = "uncommitted")'
        PROVE  (\E d \in Callers : Owns(d, s) /\ caller[d].idem = idem[s])'
    <3>1. PICK d \in Callers : Owns(d, s) /\ caller[d].idem = idem[s]
      BY <1>2, <2>2 DEF LockInv
    <3>2. d # c
      BY <1>1, <2>2, <3>1
    <3> QED BY <1>1, <2>2, <3>1, <3>2 DEF Owns
  <2> QED BY <2>1, <2>2 DEF LockInv
<1>9. NewestInv'
  <2>1. \A d \in Callers : caller'[d].pc = "insert" => d # c /\ caller'[d] = caller[d]
    BY <1>1
  <2>2. \A e \in Seqs : state'[e] = "uncommitted" => state[e] = "uncommitted"
    BY <1>2
  <2> QED BY <1>1, <1>3, <2>1, <2>2 DEF NewestInv, Exists, KeyOf, CallerKey
<1>10. OneOpenPerIdempotencyKey'
  BY <1>1, <1>2 DEF OneOpenPerIdempotencyKey
<1> QED BY <1>4, <1>5, <1>6, <1>7, <1>8, <1>9, <1>10 DEF EnqueueInv, ClaimInv

-----------------------------------------------------------------------------
(* The inductive invariant, one lemma per action of the workers.           *)

\* Steps of workers that open no row and reopen none keep what enqueuing needs.
LEMMA WorkerKeepsEnqueueInv ==
  ASSUME Inv, UNCHANGED <<idem, nextSeq, caller>>,
         state' \in [Seqs -> RowStates],
         \A s \in Seqs : state'[s] # state[s] =>
             state[s] \in Active /\ state'[s] \in Active \cup Terminal
  PROVE  EnqueueInv'
<1> USE DEF Inv, TypeOK, Active, Terminal
<1>1. \A s \in Seqs : (state'[s] = "absent" <=> state[s] = "absent")
                      /\ (state'[s] = "uncommitted" <=> state[s] = "uncommitted")
  OBVIOUS
<1>2. SequenceInv'
  BY <1>1 DEF SequenceInv, Exists
<1>3. LockInv'
  <2>1. \A d \in Callers : (InFlight(d)' <=> InFlight(d)) /\ CallerKey(d)' = CallerKey(d)
    BY DEF InFlight, CallerKey
  <2>2. ASSUME NEW s \in Seqs, (state[s] = "uncommitted")'
        PROVE  (\E d \in Callers : Owns(d, s) /\ caller[d].idem = idem[s])'
    <3>1. PICK d \in Callers : Owns(d, s) /\ caller[d].idem = idem[s]
      BY <1>1, <2>2 DEF LockInv
    <3> QED BY <1>1, <2>2, <3>1 DEF Owns
  <2> QED BY <2>1, <2>2 DEF LockInv
<1>4. NewestInv'
  BY <1>1 DEF NewestInv, Exists, KeyOf, CallerKey
<1>5. OneOpenPerIdempotencyKey'
  BY DEF OneOpenPerIdempotencyKey
<1> QED BY <1>2, <1>3, <1>4, <1>5 DEF EnqueueInv

\* A claim keeps the invariant: the row it takes is the head of its key, no
\* invisible row of a locked key is older, and its token is new.
LEMMA ClaimStep ==
  ASSUME Inv, NEW w \in Workers, NEW s0 \in Seqs, Claim(w, s0)
  PROVE  EnqueueInv' /\ ClaimInv'
<1> USE DEF Inv, TypeOK
<1>1. /\ UNCHANGED <<idem, wait, nextSeq, caller>>
      /\ state[s0] \in Active /\ ~Blocked(s0)
      /\ \A s \in Seqs : s # s0 => /\ state'[s] = state[s] /\ attempts'[s] = attempts[s]
                                   /\ token'[s] = token[s]
      /\ state'[s0] = "running" /\ attempts'[s0] = attempts[s0] + 1
      /\ token'[s0] = attempts[s0] + 1
      /\ held[w] = NoLease
      /\ held'[w] = [job |-> s0, token |-> attempts[s0] + 1]
      /\ \A v \in Workers : v # w => held'[v] = held[v]
  BY DEF Claim, Eligible
<1>2. attempts \in [Seqs -> Nat]
  BY BoundsAssumption
<1>3. EnqueueInv'
  <2>1. state' \in [Seqs -> RowStates]
    BY DEF Claim, RowStates, Active
  <2> QED BY <1>1, <2>1, WorkerKeepsEnqueueInv DEF Active, Terminal
<1>4. LeaseInv'
  <2> SUFFICES ASSUME NEW s \in Seqs
               PROVE  /\ state'[s] = "running" => attempts'[s] > 0 /\ token'[s] = attempts'[s]
                      /\ state'[s] # "running" => token'[s] = 0
                      /\ state'[s] \in {"absent", "uncommitted", "rolled_back"} => attempts'[s] = 0
                      /\ state'[s] \in Terminal => attempts'[s] > 0
    BY DEF LeaseInv
  <2>1. CASE s = s0
    BY <1>1, <1>2, <2>1 DEF Terminal
  <2>2. CASE s # s0
    BY <1>1, <2>2 DEF LeaseInv
  <2> QED BY <2>1, <2>2
<1>5. HolderInv'
  <2>1. \A v \in Workers : v # w /\ held[v] # NoLease =>
           /\ held[v].job \in Seqs
           /\ held[v].token \in 1 .. attempts[held[v].job]
    BY DEF HolderInv, Holding
  <2>2. \A v \in Workers : v # w /\ held[v] # NoLease =>
           held[v] # [job |-> s0, token |-> attempts[s0] + 1]
    BY <1>2, <2>1
  <2>3. ASSUME NEW v \in Workers, held'[v] # NoLease
        PROVE  held'[v].job \in Seqs /\ held'[v].token \in 1 .. attempts'[held'[v].job]
    <3>1. CASE v = w
      BY <1>1, <1>2, <3>1
    <3>2. CASE v # w
      BY <1>1, <1>2, <2>1, <2>3, <3>2
    <3> QED BY <3>1, <3>2
  <2>4. ASSUME NEW u \in Workers, NEW v \in Workers, held'[u] # NoLease, held'[u] = held'[v]
        PROVE  u = v
    BY <1>1, <2>2, <2>4 DEF HolderInv, Holding
  <2> QED BY <2>3, <2>4 DEF HolderInv, Holding
<1>6. StartsAfterEarlierOver'
  <2> SUFFICES ASSUME NEW e \in Seqs, NEW s \in Seqs, e < s, state'[e] # "absent",
                      OrderOf[idem[e]] = OrderOf[idem[s]], OrderOf[idem[s]] \in LockedKeys,
                      attempts'[s] > 0
               PROVE  state'[e] \in Terminal \cup {"rolled_back"}
    BY <1>1 DEF StartsAfterEarlierOver, KeyOf
  <2>1. state[e] # "absent"
    BY <1>1 DEF Active
  <2>2. CASE s = s0
    <3>1. state[e] \notin Active
      BY <1>1, <2>2 DEF Blocked, KeyOf
    <3>2. state[e] # "uncommitted"
      <4>1. Exists(s)
        BY <1>1, <2>2 DEF Exists, Active
      <4>2. state[e] = "uncommitted" => s <= e
        BY <4>1 DEF NewestInv, KeyOf
      <4> QED BY <4>2 DEF Seqs
    <3>3. e # s0
      BY <2>2 DEF Seqs
    <3> QED BY <1>1, <2>1, <3>1, <3>2, <3>3 DEF RowStates
  <2>3. CASE s # s0
    <3>1. state[e] \in Terminal \cup {"rolled_back"}
      BY <1>1, <2>1, <2>3 DEF StartsAfterEarlierOver, KeyOf
    <3>2. e # s0
      BY <1>1, <3>1 DEF Active, Terminal
    <3> QED BY <1>1, <3>1, <3>2
  <2> QED BY <2>2, <2>3
<1> QED BY <1>3, <1>4, <1>5, <1>6 DEF ClaimInv

\* A fenced write keeps the invariant: the row was running.
LEMMA LeaveStep ==
  ASSUME Inv, NEW w \in Workers, NEW age, NEW next \in {"queued"} \cup Terminal, NEW delay,
         Holding(w), LeaveRunning(w, age, next, delay)
  PROVE  EnqueueInv' /\ ClaimInv'
<1> USE DEF Inv, TypeOK
<1> DEFINE s0 == held[w].job
<1>1. /\ UNCHANGED <<idem, attempts, nextSeq, caller>>
      /\ held'[w] = NoLease
      /\ \A v \in Workers : v # w => held'[v] = held[v]
  BY DEF LeaveRunning
<1>2. s0 \in Seqs
  BY DEF HolderInv
<1>3. /\ \A s \in Seqs : s # s0 => state'[s] = state[s] /\ token'[s] = token[s]
      /\ \/ state'[s0] = state[s0] /\ token'[s0] = token[s0]
         \/ state[s0] = "running" /\ state'[s0] = next /\ token'[s0] = 0
  BY <1>2 DEF LeaveRunning, Fenced
<1>4. EnqueueInv'
  <2>1. state' \in [Seqs -> RowStates]
    BY DEF LeaveRunning, RowStates, Active, Terminal
  <2>2. \A s \in Seqs : state'[s] # state[s] =>
           state[s] \in Active /\ state'[s] \in Active \cup Terminal
    BY <1>3 DEF Active
  <2> QED BY <1>1, <2>1, <2>2, WorkerKeepsEnqueueInv
<1>5. LeaseInv'
  <2> SUFFICES ASSUME NEW s \in Seqs
               PROVE  /\ state'[s] = "running" => attempts'[s] > 0 /\ token'[s] = attempts'[s]
                      /\ state'[s] # "running" => token'[s] = 0
                      /\ state'[s] \in {"absent", "uncommitted", "rolled_back"} => attempts'[s] = 0
                      /\ state'[s] \in Terminal => attempts'[s] > 0
    BY DEF LeaseInv
  <2>1. CASE state'[s] = state[s] /\ token'[s] = token[s]
    BY <1>1, <2>1 DEF LeaseInv
  <2>2. CASE state[s] = "running" /\ state'[s] = next /\ token'[s] = 0
    BY <1>1, <2>2 DEF LeaseInv, Terminal
  <2> QED BY <1>3, <2>1, <2>2
<1>6. HolderInv'
  BY <1>1 DEF HolderInv, Holding
<1>7. StartsAfterEarlierOver'
  <2> SUFFICES ASSUME NEW e \in Seqs, NEW s \in Seqs, e < s, state'[e] # "absent",
                      OrderOf[idem[e]] = OrderOf[idem[s]], OrderOf[idem[s]] \in LockedKeys,
                      attempts[s] > 0
               PROVE  state'[e] \in Terminal \cup {"rolled_back"}
    BY <1>1 DEF StartsAfterEarlierOver, KeyOf
  <2>1. state[e] # "absent"
    BY <1>3
  <2>2. state[e] \in Terminal \cup {"rolled_back"}
    BY <2>1 DEF StartsAfterEarlierOver, KeyOf
  <2> QED BY <1>3, <2>2 DEF Terminal
<1> QED BY <1>4, <1>5, <1>6, <1>7 DEF ClaimInv

\* Heartbeats, crashes and the clock change no row's state, token or attempts.
LEMMA QuietStep ==
  ASSUME Inv, UNCHANGED <<state, idem, attempts, token, nextSeq, caller>>,
         \/ UNCHANGED held
         \/ \E w \in Workers : held' = [held EXCEPT ![w] = NoLease]
  PROVE  EnqueueInv' /\ ClaimInv'
<1> USE DEF Inv, TypeOK
<1>1. EnqueueInv'
  BY WorkerKeepsEnqueueInv
<1>2. LeaseInv' /\ StartsAfterEarlierOver'
  BY DEF LeaseInv, StartsAfterEarlierOver, KeyOf
<1>3. HolderInv'
  BY DEF HolderInv, Holding
<1> QED BY <1>1, <1>2, <1>3 DEF ClaimInv

\* The invariant is inductive.
LEMMA InvStep == Inv /\ [Next]_vars => Inv'
<1> SUFFICES ASSUME Inv, [Next]_vars PROVE EnqueueInv' /\ ClaimInv'
  BY TypeStep DEF Inv, EnqueueInv, ClaimInv
<1>1. ASSUME NEW c \in Callers, CallerStep(c) PROVE EnqueueInv' /\ ClaimInv'
  <2>1. CASE \E k \in IdempotencyKeys : BeginEnqueue(c, k)
    BY <2>1, BeginStep
  <2>2. CASE LookUp(c)
    BY <2>2, LookUpStep
  <2>3. CASE Insert(c)
    BY <2>3, InsertStep
  <2>4. CASE Reselect(c)
    BY <2>4, ReselectStep
  <2>5. CASE Commit(c)
    BY <2>5, EndStep DEF Commit
  <2>6. CASE Rollback(c)
    BY <2>6, EndStep DEF Rollback
  <2> QED BY <1>1, <2>1, <2>2, <2>3, <2>4, <2>5, <2>6 DEF CallerStep
<1>2. ASSUME NEW w \in Workers, WorkerStep(w) PROVE EnqueueInv' /\ ClaimInv'
  <2>1. CASE \E s \in Seqs : Claim(w, s)
    BY <2>1, ClaimStep
  <2>2. CASE Complete(w)
    BY <2>2, LeaveStep DEF Complete, Terminal
  <2>3. CASE Fail(w)
    BY <2>3, LeaveStep DEF Fail, Terminal
  <2>4. CASE Release(w)
    BY <2>4, LeaveStep DEF Release
  <2>5. CASE ExtendLease(w)
    BY <2>5, QuietStep DEF ExtendLease
  <2>6. CASE Crash(w)
    BY <2>6, QuietStep DEF Crash, rowVars
  <2> QED BY <1>2, <2>1, <2>2, <2>3, <2>4, <2>5, <2>6 DEF WorkerStep, Finish
<1>3. CASE Tick
  BY <1>3, QuietStep DEF Tick
<1>4. CASE UNCHANGED vars
  BY <1>4, QuietStep DEF vars
<1> QED BY <1>1, <1>2, <1>3, <1>4 DEF Next

\* An empty table satisfies the invariant.
LEMMA InvInit == Init => Inv
<1> SUFFICES ASSUME Init PROVE Inv
  OBVIOUS
<1> USE BoundsAssumption, KeysAssumption, AnyKeyIsKey
<1>1. TypeOK
  BY DEF Init, TypeOK, RowStates, CallerStates, CallerPCs, Idle, Leases, NoLease
<1>2. SequenceInv /\ LockInv /\ NewestInv
  BY DEF Init, SequenceInv, LockInv, NewestInv, Exists, InFlight, Idle
<1>3. LeaseInv /\ HolderInv /\ OneOpenPerIdempotencyKey /\ StartsAfterEarlierOver
  BY DEF Init, LeaseInv, HolderInv, Holding, OneOpenPerIdempotencyKey,
         StartsAfterEarlierOver, Active, Terminal
<1> QED BY <1>1, <1>2, <1>3 DEF Inv

\* Every reachable state satisfies the invariant.
THEOREM Invariance == Spec => []Inv
  BY InvInit, InvStep, PTL DEF Spec

-----------------------------------------------------------------------------
(* The results.                                                            *)

\* Every column of the table, every caller and every worker keeps its type.
THEOREM TypeCorrect == Spec => []TypeOK
<1>1. Inv => TypeOK
  BY DEF Inv
<1> QED BY <1>1, Invariance, PTL

\* However many transactions race to enqueue one idempotency key, at most one
\* open row of it exists.
THEOREM IdempotentEnqueue == Spec => []OneOpenPerIdempotencyKey
<1>1. Inv => OneOpenPerIdempotencyKey
  BY DEF Inv
<1> QED BY <1>1, Invariance, PTL

\* A job of a locked key is claimed only when no earlier job of it is open.
THEOREM FifoOfLockedKeys == Spec => []StartsAfterEarlierOver
<1>1. Inv => StartsAfterEarlierOver
  BY DEF Inv
<1> QED BY <1>1, Invariance, PTL

\* At most one job of a locked key runs, however late its leases expire.
THEOREM MutualExclusion == Spec => []OneRunningPerLockedKey
<1>1. ASSUME Inv PROVE OneRunningPerLockedKey
  <2> SUFFICES ASSUME NEW e \in Seqs, NEW s \in Seqs, state[e] = "running", state[s] = "running",
                      KeyOf(e) = KeyOf(s), KeyOf(s) \in LockedKeys
               PROVE  e = s
    BY DEF OneRunningPerLockedKey
  <2>1. attempts[e] > 0 /\ attempts[s] > 0
    BY <1>1 DEF Inv, LeaseInv
  <2>2. ~(e < s) /\ ~(s < e)
    BY <1>1, <2>1 DEF Inv, StartsAfterEarlierOver, Terminal
  <2> QED BY <2>2 DEF Seqs
<1> QED BY <1>1, Invariance, PTL

\* No two workers hold the current lease of a row.
THEOREM CurrentHolderIsUnique == Spec => []OneCurrentHolder
<1>1. Inv => OneCurrentHolder
  BY DEF Inv, HolderInv, Holding, OneCurrentHolder
<1> QED BY <1>1, Invariance, PTL

-----------------------------------------------------------------------------
(* What a step may never do.                                               *)

\* The steps that leave every row's state, idempotency key, attempts and token.
LEMMA RowsKept ==
  ASSUME [Next]_vars,
         ~(\E c \in Callers : Insert(c) \/ Commit(c) \/ Rollback(c)),
         ~(\E w \in Workers : Finish(w)),
         ~(\E w \in Workers, s \in Seqs : Claim(w, s))
  PROVE  UNCHANGED <<state, idem, attempts, token>>
  BY DEF Next, CallerStep, WorkerStep, BeginEnqueue, LookUp, Reselect, ExtendLease, Crash,
         Tick, rowVars, vars

\* Callers touch no row that is running or terminal.
LEMMA CallersSpareClaimedRows ==
  ASSUME Inv, NEW c \in Callers, Insert(c) \/ Commit(c) \/ Rollback(c),
         NEW s \in Seqs, state[s] \in {"running"} \cup Terminal
  PROVE  /\ state'[s] = state[s] /\ idem'[s] = idem[s]
         /\ attempts'[s] = attempts[s] /\ token'[s] = token[s]
<1> USE DEF Inv, TypeOK, Terminal
<1>1. CASE Insert(c)
  <2>1. state[caller[c].seq] = "absent" /\ caller[c].seq \in Seqs
    BY <1>1 DEF Insert, SequenceInv, Exists
  <2> QED BY <1>1, <2>1 DEF Insert, rowVars
<1>2. CASE Commit(c) \/ Rollback(c)
  BY <1>2 DEF Commit, Rollback, EndTransaction, Owns
<1> QED BY <1>1, <1>2

\* A lease ends in its holder's hands or by running out, in every step.
THEOREM LeaseSafety == Spec => LeaseRespected
<1> DEFINE Respected ==
      \A s \in Seqs :
          /\ state[s] = "running"
          /\ token'[s] # token[s]
          => \/ state'[s] = "running" /\ left[s] <= 0
             \/ \E w \in Workers : /\ held[w] = [job |-> s, token |-> token[s]]
                                   /\ held'[w] = NoLease
                                   /\ left[s] > -MaxTxn
<1>1. ASSUME Inv, [Next]_vars PROVE Respected
  <2> SUFFICES ASSUME NEW s \in Seqs, state[s] = "running", token'[s] # token[s]
               PROVE  \/ state'[s] = "running" /\ left[s] <= 0
                      \/ \E w \in Workers : /\ held[w] = [job |-> s, token |-> token[s]]
                                            /\ held'[w] = NoLease
                                            /\ left[s] > -MaxTxn
    OBVIOUS
  <2>1. ASSUME NEW w \in Workers, NEW r \in Seqs, Claim(w, r)
        PROVE  state'[s] = "running" /\ left[s] <= 0
    <3>1. s = r
      BY <1>1, <2>1 DEF Claim, Inv, TypeOK
    <3> QED BY <1>1, <2>1, <3>1 DEF Claim, Eligible, Due, Inv, TypeOK
  <2>2. ASSUME NEW w \in Workers, NEW age \in 0 .. MaxTxn, NEW next, NEW delay,
               Holding(w), LeaveRunning(w, age, next, delay)
        PROVE  /\ held[w] = [job |-> s, token |-> token[s]]
               /\ held'[w] = NoLease
               /\ left[s] > -MaxTxn
    <3>1. held[w].job = s /\ Fenced(w, age) /\ held'[w] = NoLease
      BY <1>1, <2>2 DEF LeaveRunning, Inv, TypeOK
    <3>2. token[s] = held[w].token /\ left[s] + age > 0
      BY <3>1 DEF Fenced
    <3>3. held[w] = [job |-> s, token |-> token[s]]
      BY <1>1, <3>1, <3>2 DEF Inv, TypeOK, Leases
    <3>4. left[s] > -MaxTxn
      BY <1>1, <3>2, BoundsAssumption DEF Inv, TypeOK
    <3> QED BY <3>1, <3>3, <3>4
  <2>3. ASSUME NEW w \in Workers, Finish(w)
        PROVE  \E v \in Workers : /\ held[v] = [job |-> s, token |-> token[s]]
                                  /\ held'[v] = NoLease
                                  /\ left[s] > -MaxTxn
    <3>1. PICK age \in 0 .. MaxTxn : \E next, delay : LeaveRunning(w, age, next, delay)
      BY <2>3 DEF Finish, Complete, Fail, Release, TxnAges
    <3>2. Holding(w)
      BY <2>3 DEF Finish, Complete, Fail, Release
    <3> QED BY <3>1, <3>2, <2>2
  <2>4. ASSUME NEW c \in Callers, Insert(c) \/ Commit(c) \/ Rollback(c)
        PROVE  FALSE
    BY <1>1, <2>4, CallersSpareClaimedRows
  <2> QED BY <1>1, <2>1, <2>3, <2>4, RowsKept
<1>2. Spec => [][Inv /\ [Next]_vars]_vars
  BY Invariance, PTL DEF Spec
<1> QED BY <1>1, <1>2, PTL DEF LeaseRespected, Spec

\* No later step of anybody changes a completed or failed row.
THEOREM TerminalRowsAreFinal == Spec => TerminalIsFinal
<1> DEFINE Final ==
      \A s \in Seqs :
          state[s] \in Terminal =>
              /\ state'[s] = state[s] /\ idem'[s] = idem[s]
              /\ attempts'[s] = attempts[s] /\ token'[s] = token[s]
<1>1. ASSUME Inv, [Next]_vars PROVE Final
  <2> SUFFICES ASSUME NEW s \in Seqs, state[s] \in Terminal
               PROVE  /\ state'[s] = state[s] /\ idem'[s] = idem[s]
                      /\ attempts'[s] = attempts[s] /\ token'[s] = token[s]
    OBVIOUS
  <2>1. ASSUME NEW w \in Workers, NEW r \in Seqs, Claim(w, r)
        PROVE  /\ state'[s] = state[s] /\ idem'[s] = idem[s]
               /\ attempts'[s] = attempts[s] /\ token'[s] = token[s]
    <3>1. s # r
      BY <2>1 DEF Claim, Eligible, Active, Terminal
    <3> QED BY <1>1, <2>1, <3>1 DEF Claim, Inv, TypeOK
  <2>2. ASSUME NEW w \in Workers, Finish(w)
        PROVE  /\ state'[s] = state[s] /\ idem'[s] = idem[s]
               /\ attempts'[s] = attempts[s] /\ token'[s] = token[s]
    <3>1. PICK age, next, delay : LeaveRunning(w, age, next, delay)
      BY <2>2 DEF Finish, Complete, Fail, Release
    <3>2. state[s] # "running"
      BY DEF Terminal
    <3> QED BY <1>1, <3>1, <3>2 DEF LeaveRunning, Fenced, Inv, TypeOK
  <2>3. ASSUME NEW c \in Callers, Insert(c) \/ Commit(c) \/ Rollback(c)
        PROVE  /\ state'[s] = state[s] /\ idem'[s] = idem[s]
               /\ attempts'[s] = attempts[s] /\ token'[s] = token[s]
    BY <1>1, <2>3, CallersSpareClaimedRows
  <2> QED BY <1>1, <2>1, <2>2, <2>3, RowsKept
<1>2. Spec => [][Inv /\ [Next]_vars]_vars
  BY Invariance, PTL DEF Spec
<1> QED BY <1>1, <1>2, PTL DEF TerminalIsFinal, Spec

-----------------------------------------------------------------------------
(* The table implements ordered at-least-once delivery.                    *)

\* What each row counts for.
LEMMA DeliveryOf ==
  ASSUME TypeOK, NEW s \in Seqs
  PROVE  /\ DeliveryStatus(s) = "unknown" <=> state[s] \in {"absent", "uncommitted", "rolled_back"}
         /\ DeliveryStatus(s) = "over" <=> state[s] \in Terminal
         /\ DeliveryStatus(s) = "accepted" <=> state[s] \in Active /\ attempts[s] = 0
         /\ DeliveryStatus(s) = "delivered" <=> state[s] \in Active /\ attempts[s] > 0
<1>1. state[s] \in RowStates /\ attempts[s] \in Nat
  BY BoundsAssumption DEF TypeOK
<1> QED BY <1>1 DEF DeliveryStatus, Active, Terminal, RowStates

\* The same of the next state.
LEMMA NextDeliveryOf ==
  ASSUME TypeOK', NEW s \in Seqs
  PROVE  /\ DeliveryStatus(s)' = "unknown" <=> state'[s] \in {"absent", "uncommitted", "rolled_back"}
         /\ DeliveryStatus(s)' = "over" <=> state'[s] \in Terminal
         /\ DeliveryStatus(s)' = "accepted" <=> state'[s] \in Active /\ attempts'[s] = 0
         /\ DeliveryStatus(s)' = "delivered" <=> state'[s] \in Active /\ attempts'[s] > 0
<1>1. state'[s] \in RowStates /\ attempts'[s] \in Nat
  BY BoundsAssumption DEF TypeOK
<1> QED BY <1>1 DEF DeliveryStatus, Active, Terminal, RowStates

\* A row whose columns are kept counts for the same.
LEMMA DeliveryKept ==
  ASSUME NEW s \in Seqs, state'[s] = state[s], attempts'[s] = attempts[s],
         Exists(s) => idem'[s] = idem[s]
  PROVE  DeliveryStatus(s)' = DeliveryStatus(s) /\ DeliveryKey(s)' = DeliveryKey(s)
<1>1. DeliveryStatus(s)' = DeliveryStatus(s)
  BY DEF DeliveryStatus
<1>2. CASE Exists(s)
  BY <1>1, <1>2 DEF DeliveryKey, KeyOf
<1>3. CASE ~Exists(s)
  BY <1>1, <1>3 DEF DeliveryKey, DeliveryStatus, Exists, Active, Terminal
<1> QED BY <1>1, <1>2, <1>3

\* A claim delivers its job: for the first time in order, or once more.
LEMMA ClaimDelivers ==
  ASSUME Inv, Inv', NEW w \in Workers, NEW s0 \in Seqs, Claim(w, s0)
  PROVE  \/ Delivery!Deliver(s0)
         \/ UNCHANGED <<[s \in Seqs |-> DeliveryStatus(s)], [s \in Seqs |-> DeliveryKey(s)]>>
<1>0. TypeOK /\ TypeOK' /\ attempts[s0] \in Nat
  BY BoundsAssumption DEF Inv, TypeOK
<1>1. /\ state[s0] \in Active /\ state'[s0] = "running" /\ attempts'[s0] = attempts[s0] + 1
      /\ UNCHANGED idem
      /\ \A s \in Seqs \ {s0} : state'[s] = state[s] /\ attempts'[s] = attempts[s]
  BY <1>0 DEF Claim, Eligible, TypeOK
<1>2. ASSUME NEW s \in Seqs \ {s0}
      PROVE  DeliveryStatus(s)' = DeliveryStatus(s) /\ DeliveryKey(s)' = DeliveryKey(s)
  BY <1>1, DeliveryKept
<1>3. DeliveryStatus(s0)' = "delivered"
  BY <1>0, <1>1, NextDeliveryOf DEF Active
<1>4. DeliveryStatus(s0) \in {"accepted", "delivered"}
  BY <1>0, <1>1, DeliveryOf
<1>5. DeliveryKey(s0) = KeyOf(s0) /\ DeliveryKey(s0)' = DeliveryKey(s0)
  BY <1>1, <1>3, <1>4 DEF DeliveryKey, KeyOf
<1>6. CASE DeliveryStatus(s0) = "delivered"
  BY <1>2, <1>3, <1>5, <1>6
<1>7. CASE DeliveryStatus(s0) = "accepted"
  <2>1. ASSUME KeyOf(s0) \in LockedKeys, NEW i \in Seqs, i < s0,
               DeliveryStatus(i) # "unknown", DeliveryKey(i) = KeyOf(s0)
        PROVE  DeliveryStatus(i) = "over"
    <3>1. state[i] \notin {"absent", "uncommitted", "rolled_back"}
      BY <1>0, <2>1, DeliveryOf
    <3>2. KeyOf(i) = KeyOf(s0)
      BY <2>1 DEF DeliveryKey
    <3>3. state[i] \notin Active
      BY <2>1, <3>2 DEF Claim, Eligible, Blocked
    <3>4. state[i] \in Terminal
      BY <1>0, <3>1, <3>3 DEF TypeOK, RowStates
    <3> QED BY <1>0, <3>4, DeliveryOf
  <2>2. /\ [s \in Seqs |-> DeliveryStatus(s)]'
             = [[s \in Seqs |-> DeliveryStatus(s)] EXCEPT ![s0] = "delivered"]
        /\ [s \in Seqs |-> DeliveryKey(s)]' = [s \in Seqs |-> DeliveryKey(s)]
    BY <1>2, <1>3, <1>5
  <2> QED BY <1>5, <1>7, <2>1, <2>2 DEF Delivery!Deliver, Delivery!Accepted
<1> QED BY <1>4, <1>6, <1>7

\* A fenced write ends its job, or leaves it delivered.
LEMMA LeaveEnds ==
  ASSUME Inv, Inv', NEW w \in Workers, NEW age, NEW next \in {"queued"} \cup Terminal, NEW delay,
         Holding(w), LeaveRunning(w, age, next, delay)
  PROVE  \/ \E j \in Seqs : Delivery!End(j)
         \/ UNCHANGED <<[s \in Seqs |-> DeliveryStatus(s)], [s \in Seqs |-> DeliveryKey(s)]>>
<1> DEFINE s0 == held[w].job
<1>0. TypeOK /\ TypeOK' /\ s0 \in Seqs /\ UNCHANGED <<idem, attempts>>
  BY DEF Inv, HolderInv, LeaveRunning
<1>1. CASE UNCHANGED state
  BY <1>0, <1>1, DeliveryKept
<1>2. CASE state' = [state EXCEPT ![s0] = next] /\ state[s0] = "running"
  <2>1. /\ state'[s0] = next /\ attempts[s0] > 0 /\ attempts'[s0] = attempts[s0]
        /\ \A s \in Seqs : s # s0 => state'[s] = state[s]
    BY <1>0, <1>2 DEF Inv, TypeOK, LeaseInv
  <2>2. ASSUME NEW s \in Seqs, s # s0
        PROVE  DeliveryStatus(s)' = DeliveryStatus(s) /\ DeliveryKey(s)' = DeliveryKey(s)
    BY <1>0, <2>1, <2>2, DeliveryKept
  <2>3. DeliveryStatus(s0) = "delivered"
    BY <1>0, <1>2, <2>1, DeliveryOf DEF Active
  <2> DEFINE r == s0
  <2>4. PICK q \in Seqs : q = r
    BY <1>0
  <2>5. /\ state'[q] = next /\ attempts'[q] > 0 /\ DeliveryStatus(q) = "delivered"
        /\ \A s \in Seqs : s # q => DeliveryStatus(s)' = DeliveryStatus(s)
                                    /\ DeliveryKey(s)' = DeliveryKey(s)
    BY <2>1, <2>2, <2>3, <2>4
  <2>6. DeliveryStatus(q)' \in {"delivered", "over"}
    BY <1>0, <2>5, NextDeliveryOf DEF Active, Terminal
  <2>7. DeliveryKey(q)' = DeliveryKey(q)
    BY <1>0, <2>5, <2>6 DEF DeliveryKey, KeyOf
  <2>8. CASE DeliveryStatus(q)' = "delivered"
    BY <2>5, <2>7, <2>8
  <2>9. CASE DeliveryStatus(q)' = "over"
    <3>1. /\ [s \in Seqs |-> DeliveryStatus(s)]'
               = [[s \in Seqs |-> DeliveryStatus(s)] EXCEPT ![q] = "over"]
          /\ [s \in Seqs |-> DeliveryKey(s)]' = [s \in Seqs |-> DeliveryKey(s)]
      BY <2>5, <2>7, <2>9
    <3> QED BY <2>5, <3>1 DEF Delivery!End
  <2> QED BY <2>6, <2>8, <2>9
<1> QED BY <1>1, <1>2 DEF LeaveRunning, Fenced

\* A commit accepts the caller's own row; a rollback accepts nothing.
LEMMA EndAccepts ==
  ASSUME Inv, Inv', NEW c \in Callers, NEW outcome \in {"queued", "rolled_back"},
         EndTransaction(c, outcome)
  PROVE  \/ \E j \in Seqs : \E k \in OrderingKeys : Delivery!Accept(j, k)
         \/ UNCHANGED <<[s \in Seqs |-> DeliveryStatus(s)], [s \in Seqs |-> DeliveryKey(s)]>>
<1>0. TypeOK /\ TypeOK' /\ UNCHANGED <<idem, attempts>>
  BY DEF Inv, EndTransaction
<1>1. \A s \in Seqs : state'[s] = IF Owns(c, s) THEN outcome ELSE state[s]
  BY DEF EndTransaction
<1>2. CASE ~(\E q \in Seqs : Owns(c, q))
  <2>1. \A s \in Seqs : state'[s] = state[s]
    BY <1>1, <1>2
  <2> QED BY <1>0, <2>1, DeliveryKept
<1>3. CASE \E q \in Seqs : Owns(c, q)
  <2>1. PICK q \in Seqs : Owns(c, q)
    BY <1>3
  <2>2. /\ state[q] = "uncommitted" /\ state'[q] = outcome
        /\ \A s \in Seqs : s # q => state'[s] = state[s]
    BY <1>1, <2>1 DEF Owns
  <2>3. ASSUME NEW s \in Seqs, s # q
        PROVE  DeliveryStatus(s)' = DeliveryStatus(s) /\ DeliveryKey(s)' = DeliveryKey(s)
    BY <1>0, <2>2, <2>3, DeliveryKept
  <2>4. DeliveryStatus(q) = "unknown" /\ attempts[q] = 0
    BY <1>0, <2>2, DeliveryOf DEF Inv, LeaseInv
  <2>5. CASE outcome = "rolled_back"
    <3>1. DeliveryStatus(q)' = "unknown"
      BY <1>0, <2>2, <2>5, NextDeliveryOf
    <3>2. DeliveryKey(q)' = DeliveryKey(q)
      BY <2>4, <3>1 DEF DeliveryKey
    <3> QED BY <2>3, <2>4, <3>1, <3>2
  <2>6. CASE outcome = "queued"
    <3>1. DeliveryStatus(q)' = "accepted"
      BY <1>0, <2>2, <2>4, <2>6, NextDeliveryOf DEF Active
    <3>2. DeliveryKey(q)' = KeyOf(q)
      BY <1>0, <3>1 DEF DeliveryKey, KeyOf
    <3>3. ASSUME KeyOf(q) \in LockedKeys, NEW i \in Seqs,
                 DeliveryStatus(i) # "unknown", DeliveryKey(i) = KeyOf(q)
          PROVE  i < q
      <4>1. Exists(i)
        BY <1>0, <3>3, DeliveryOf DEF Exists
      <4>2. KeyOf(i) = KeyOf(q)
        BY <3>3 DEF DeliveryKey
      <4>3. i <= q
        BY <2>2, <3>3, <4>1, <4>2 DEF Inv, NewestInv
      <4>4. i # q
        BY <2>4, <3>3
      <4> QED BY <4>3, <4>4 DEF Seqs
    <3>4. /\ [s \in Seqs |-> DeliveryStatus(s)]'
               = [[s \in Seqs |-> DeliveryStatus(s)] EXCEPT ![q] = "accepted"]
          /\ [s \in Seqs |-> DeliveryKey(s)]'
               = [[s \in Seqs |-> DeliveryKey(s)] EXCEPT ![q] = KeyOf(q)]
      BY <2>3, <3>1, <3>2
    <3>5. KeyOf(q) \in OrderingKeys
      BY <1>0, KeysAssumption DEF TypeOK, KeyOf
    <3>6. Delivery!Accept(q, KeyOf(q))
      BY <2>4, <3>3, <3>4 DEF Delivery!Accept, Delivery!Accepted
    <3> QED BY <3>5, <3>6
  <2> QED BY <2>5, <2>6
<1> QED BY <1>2, <1>3

\* The table, with its leases, races, crashes and lost transactions, implements
\* ordered at-least-once delivery.
THEOREM Refinement == Spec => ImplementsOrderedDelivery
<1>1. Init => Delivery!Init
  <2> SUFFICES ASSUME Init PROVE Delivery!Init
    OBVIOUS
  <2>1. \A s \in Seqs : DeliveryStatus(s) = "unknown"
    BY DEF Init, DeliveryStatus, Terminal, Active
  <2>2. \A s \in Seqs : DeliveryKey(s) = OrderOf[AnyKey]
    BY <2>1 DEF DeliveryKey
  <2> QED BY <2>1, <2>2 DEF Delivery!Init
<1>2. ASSUME Inv, Inv', [Next]_vars
      PROVE  \/ Delivery!Next
             \/ UNCHANGED <<[s \in Seqs |-> DeliveryStatus(s)], [s \in Seqs |-> DeliveryKey(s)]>>
  <2>1. ASSUME NEW w \in Workers, NEW s0 \in Seqs, Claim(w, s0)
        PROVE  \/ Delivery!Next
               \/ UNCHANGED <<[s \in Seqs |-> DeliveryStatus(s)], [s \in Seqs |-> DeliveryKey(s)]>>
    BY <1>2, <2>1, ClaimDelivers DEF Delivery!Next
  <2>2. ASSUME NEW w \in Workers, Finish(w)
        PROVE  \/ Delivery!Next
               \/ UNCHANGED <<[s \in Seqs |-> DeliveryStatus(s)], [s \in Seqs |-> DeliveryKey(s)]>>
    <3>1. PICK next \in {"queued"} \cup Terminal : \E age, delay : LeaveRunning(w, age, next, delay)
      BY <2>2 DEF Finish, Complete, Fail, Release, Terminal
    <3>2. Holding(w)
      BY <2>2 DEF Finish, Complete, Fail, Release
    <3> QED BY <1>2, <3>1, <3>2, LeaveEnds DEF Delivery!Next
  <2>3. ASSUME NEW c \in Callers, Commit(c) \/ Rollback(c)
        PROVE  \/ Delivery!Next
               \/ UNCHANGED <<[s \in Seqs |-> DeliveryStatus(s)], [s \in Seqs |-> DeliveryKey(s)]>>
    BY <1>2, <2>3, EndAccepts DEF Commit, Rollback, Delivery!Next
  <2>4. ASSUME NEW c \in Callers, Insert(c)
        PROVE  UNCHANGED <<[s \in Seqs |-> DeliveryStatus(s)], [s \in Seqs |-> DeliveryKey(s)]>>
    <3>1. CASE UNCHANGED rowVars
      BY <3>1, DeliveryKept DEF rowVars
    <3>2. CASE ~UNCHANGED rowVars
      <4>1. PICK q \in Seqs : /\ state[q] = "absent" /\ state'[q] = "uncommitted"
                              /\ UNCHANGED attempts
                              /\ \A s \in Seqs : s # q => state'[s] = state[s] /\ idem'[s] = idem[s]
        <5>1. caller[c].seq \in Seqs /\ state[caller[c].seq] = "absent"
          BY <1>2, <2>4 DEF Insert, Inv, SequenceInv, Exists
        <5> QED BY <1>2, <2>4, <3>2, <5>1 DEF Insert, Inv, TypeOK, rowVars
      <4>2. DeliveryStatus(q)' = "unknown" /\ DeliveryStatus(q) = "unknown"
        BY <1>2, <4>1, DeliveryOf, NextDeliveryOf DEF Inv
      <4>3. DeliveryKey(q)' = DeliveryKey(q)
        BY <4>2 DEF DeliveryKey
      <4>4. ASSUME NEW s \in Seqs, s # q
            PROVE  DeliveryStatus(s)' = DeliveryStatus(s) /\ DeliveryKey(s)' = DeliveryKey(s)
        BY <4>1, <4>4, DeliveryKept
      <4> QED BY <4>2, <4>3, <4>4
    <3> QED BY <3>1, <3>2
  <2>5. CASE UNCHANGED <<state, idem, attempts, token>>
    BY <2>5, DeliveryKept
  <2> QED BY <1>2, <2>1, <2>2, <2>3, <2>4, <2>5, RowsKept
<1> QED
  BY <1>1, <1>2, Invariance, PTL DEF Spec, ImplementsOrderedDelivery, Delivery!Spec

=============================================================================
