---------------------- MODULE ConversationTurns_proofs ----------------------
(***************************************************************************)
(* Proofs about ConversationTurns, for every number of messages, workers,  *)
(* retries, faults and attempts.                                           *)
(*                                                                         *)
(* The invariant has four parts: the rows of the database, which every     *)
(* method of the repository keeps by itself; the claims of the worker      *)
(* slots, whose turn is the first of the conversation with an open job;    *)
(* the guards, which keep one slot at a time past the claim of a turn; and *)
(* the accounts of the attempts, where each attempt beyond the budget is   *)
(* paid for by a crash or a lost lease.                                    *)
(***************************************************************************)
EXTENDS ConversationTurns, TLAPS, FiniteSetTheorems, SequenceTheorems

-----------------------------------------------------------------------------
(* The inductive invariant.                                                *)

\* The database, with attempts that are not bounded yet.
Untold == [state : {"none"} \cup ActiveTurn \cup TurnOver, attempts : Nat, retryOf : Turns \cup {0}]
Stored(d) ==
    /\ d \in [messages : Seq(Messages), turn : [Turns -> Untold], job : [Turns -> JobRows]]
    /\ \A t \in Turns :
          /\ d.turn[t].state = "none" => d.turn[t] = NoTurn /\ d.job[t] = NoJob
          /\ d.job[t].state = "none" => d.turn[t].state = "none"
          /\ d.job[t].state = "running" => d.job[t].owner \in Workers
          /\ d.job[t].state # "running" => d.job[t].owner = Nobody

\* Turns are numbered without gaps, and only the newest one may be active.
Numbered(d) ==
    \A t \in Turns :
        /\ d.turn[t].state # "none" <=> t <= NewestTurn(d)
        /\ d.turn[t].state \in ActiveTurn => t = NewestTurn(d)

\* Messages are input of turns that exist, under a key of their own, and every turn
\* that is no retry has a message of its own.
MessagesAreKnown(d) ==
    /\ \A i \in DOMAIN d.messages :
          d.messages[i].turn <= NewestTurn(d) /\ \A t \in d.messages[i].copies : t <= NewestTurn(d)
    /\ \A i, j \in DOMAIN d.messages : d.messages[i].key = d.messages[j].key => i = j
    /\ \A t \in Turns : d.turn[t].state # "none" /\ d.turn[t].retryOf = 0 =>
          \E i \in DOMAIN d.messages : d.messages[i].turn = t

InOrder(d) ==
    \A i, j \in DOMAIN d.messages :
        i < j /\ d.messages[j].turn # 0 => d.messages[i].turn \in 1 .. d.messages[j].turn

RetriesOf(d) == {r \in Turns : d.turn[r].retryOf # 0}
RetriesAreFew(d) == Cardinality(RetriesOf(d)) <= MaxRetries

Rows(d) == Stored(d) /\ Numbered(d) /\ MessagesAreKnown(d) /\ InOrder(d) /\ RetriesAreFew(d)

\* A message waits behind an active turn or a cancelled one.
NobodyWaitsInVain(d) ==
    QueuedMessages(d) # {} => \E t \in Turns : t = NewestTurn(d) /\ d.turn[t].state \in ActiveTurn \cup {"cancelled"}

OpenIn(d, t) == d.job[t].state \in {"queued", "running"}
ActiveTurnsAreServed(d) == \A t \in Turns : d.turn[t].state \in ActiveTurn => OpenIn(d, t)

\* A slot that works has claimed a job, what was before it is closed, and a call runs
\* for a turn that has begun.
SlotsAreKnown ==
    \A w \in Workers : worker[w] # Free =>
        /\ worker[w].pc \in {"claimed", "guarded", "calling"} /\ worker[w].turn \in Turns
        /\ db.job[worker[w].turn].state # "none"
        /\ worker[w].pc = "calling" => db.turn[worker[w].turn].state # "pending"
        /\ \A e \in Turns : e < worker[w].turn => ~OpenJob(e)

Slots == [pc : {"idle", "claimed", "guarded", "calling"}, turn : Turns \cup {0}]
Typing ==
    /\ guard \in [Turns -> Workers \cup {Nobody}]
    /\ worker \in [Workers -> Slots]
    /\ faults \in 0 .. MaxFaults
    /\ SlotsAreKnown

\* Without broken guards, a slot past the guard holds it, and the job of a running
\* call stays open.
Inside(w) == worker[w].pc \in {"guarded", "calling"}
GuardsHold ==
    GuardMayBreak = FALSE =>
        \A w \in Workers :
            /\ Inside(w) => guard[worker[w].turn] = w
            /\ worker[w].pc = "calling" => OpenJob(worker[w].turn)

\* Slots whose lease was lost, slots that may still begin an attempt at a turn, and
\* whether its job may be claimed once more.
Claims(w) == worker[w] # Free /\ Fenced(db, w, worker[w].turn)
Late == {w \in Workers : worker[w] # Free /\ ~Claims(w)}
Coming(t) == {w \in Workers : worker[w].turn = t /\ worker[w].pc \in {"claimed", "guarded"}}
Due(t) == OpenJob(t) /\ \A w \in Workers : ~(Claims(w) /\ worker[w].turn = t)

\* Every attempt beyond the budget was paid for by a fault.
AttemptsAreAccountedFor ==
    /\ Cardinality(Late) <= faults
    /\ \A t \in Turns :
          db.turn[t].attempts + Cardinality(Coming(t)) + (IF Due(t) THEN 1 ELSE 0) <= MaxAttempts + faults

IndInv ==
    /\ Rows(db) /\ NobodyWaitsInVain(db) /\ ActiveTurnsAreServed(db)
    /\ Typing /\ GuardsHold /\ AttemptsAreAccountedFor

-----------------------------------------------------------------------------
(* The rows: what the repository's methods keep.                           *)

\* A bound that is a natural number.
LEMMA Bounds ==
  /\ Cardinality(Keys) \in Nat /\ MaxRetries \in Nat /\ MaxFaults \in Nat /\ MaxAttempts \in Nat \ {0}
  /\ Cardinality(Keys) + MaxRetries \in Nat /\ Turns = 1 .. Cardinality(Keys) + MaxRetries
  /\ IsFiniteSet(Turns) /\ Cardinality(Turns) = Cardinality(Keys) + MaxRetries
<1>1. Cardinality(Keys) \in Nat /\ MaxRetries \in Nat
  BY ConversationAssumption, FS_CardinalityType
<1>2. Cardinality(Keys) + MaxRetries \in Nat
  BY <1>1
<1>3. IsFiniteSet(Turns) /\ Cardinality(Turns) = Cardinality(Keys) + MaxRetries
  BY <1>2, FS_Interval DEF Turns
<1> QED BY <1>1, <1>2, <1>3, ConversationAssumption DEF Turns

\* The turns that exist are counted.
LEMMA NewestIsATurn ==
  ASSUME NEW d
  PROVE  /\ NewestTurn(d) \in Nat /\ NewestTurn(d) <= Cardinality(Turns)
         /\ \A S : S \subseteq Turns => IsFiniteSet(S) /\ Cardinality(S) \in Nat
<1>1. \A S : S \subseteq Turns => IsFiniteSet(S) /\ Cardinality(S) \in Nat /\ Cardinality(S) <= Cardinality(Turns)
  BY Bounds, FS_Subset, FS_CardinalityType
<1> QED BY <1>1 DEF NewestTurn

\* A turn more and a retry more are counted by one.
LEMMA OneTurnMore ==
  ASSUME NEW S \in SUBSET Turns, NEW T \in SUBSET Turns, NEW n \in Turns, n \notin S
  PROVE  /\ T = S \cup {n} => Cardinality(T) = Cardinality(S) + 1
<1>1. IsFiniteSet(S)
  BY NewestIsATurn
<1> QED BY <1>1, FS_AddElement

\* A started turn touches one turn and one job.
LEMMA StartedTurn ==
  ASSUME NEW d, Stored(d), NEW r \in Turns \cup {0}, NEW messages \in Seq(Messages), NewestTurn(d) + 1 \in Turns
  PROVE  LET e == StartTurn(d, r, messages)
             n == NewestTurn(d) + 1
         IN  /\ e \in [messages : Seq(Messages), turn : [Turns -> Untold], job : [Turns -> JobRows]]
             /\ e.messages = messages
             /\ e.turn[n] = Pending(r) /\ e.job[n] = Queued
             /\ \A t \in Turns \ {n} : e.turn[t] = d.turn[t] /\ e.job[t] = d.job[t]
<1> DEFINE n == NewestTurn(d) + 1
           e == StartTurn(d, r, messages)
<1>1. /\ d \in [messages : Seq(Messages), turn : [Turns -> Untold], job : [Turns -> JobRows]]
      /\ n \in Turns
  BY DEF Stored
<1>2. Pending(r) \in Untold /\ Queued \in JobRows
  BY DEF Pending, Queued, Untold, JobRows, ActiveTurn
<1>3. e = [d EXCEPT !.turn[n] = Pending(r), !.job[n] = Queued, !.messages = messages]
  BY DEF StartTurn
<1> HIDE DEF n, e
<1>4. /\ e \in [messages : Seq(Messages), turn : [Turns -> Untold], job : [Turns -> JobRows]]
      /\ e.messages = messages
      /\ e.turn[n] = Pending(r) /\ e.job[n] = Queued
      /\ \A t \in Turns \ {n} : e.turn[t] = d.turn[t] /\ e.job[t] = d.job[t]
  <2>1. /\ d.turn \in [Turns -> Untold] /\ d.job \in [Turns -> JobRows]
        /\ d = [messages |-> d.messages, turn |-> d.turn, job |-> d.job]
    BY <1>1
  <2>2. /\ e.messages = messages
        /\ e.turn = [d.turn EXCEPT ![n] = Pending(r)] /\ e.job = [d.job EXCEPT ![n] = Queued]
        /\ e = [messages |-> e.messages, turn |-> e.turn, job |-> e.job]
    BY <1>1, <1>3
  <2> QED BY <1>1, <1>2, <2>1, <2>2
<1> QED BY <1>4 DEF n, e

\* Starting a turn keeps the rows, whatever becomes its input.
LEMMA StartKeepsRows ==
  ASSUME NEW d, Rows(d), NEW r \in Turns \cup {0}, NEW messages \in Seq(Messages),
         ActiveTurns(d) = {}, NewestTurn(d) + 1 \in Turns,
         r # 0 => Cardinality(RetriesOf(d)) < MaxRetries,
         LET e == StartTurn(d, r, messages)
             n == NewestTurn(d) + 1
         IN  /\ \A i \in DOMAIN messages : messages[i].turn <= n /\ \A t \in messages[i].copies : t <= n
             /\ \A i, j \in DOMAIN messages : messages[i].key = messages[j].key => i = j
             /\ \A i \in DOMAIN d.messages : d.messages[i].turn # 0 =>
                   i \in DOMAIN messages /\ messages[i].turn = d.messages[i].turn
             /\ r = 0 => \E i \in DOMAIN messages : messages[i].turn = n
             /\ InOrder(e)
  PROVE  LET e == StartTurn(d, r, messages)
         IN  /\ Rows(e) /\ NewestTurn(e) = NewestTurn(d) + 1
             /\ \A t \in Turns : d.turn[t].state # "none" => t # NewestTurn(d) + 1
<1> DEFINE n == NewestTurn(d) + 1
           e == StartTurn(d, r, messages)
<1>1. /\ e \in [messages : Seq(Messages), turn : [Turns -> Untold], job : [Turns -> JobRows]]
      /\ e.messages = messages
      /\ e.turn[n] = Pending(r) /\ e.job[n] = Queued
      /\ \A t \in Turns \ {n} : e.turn[t] = d.turn[t] /\ e.job[t] = d.job[t]
  BY StartedTurn DEF Rows
<1>2. n \in Turns /\ NewestTurn(d) \in Nat /\ d.turn[n].state = "none"
  BY NewestIsATurn DEF Rows, Numbered
<1>3. Pending(r).state = "pending" /\ Pending(r).retryOf = r /\ Queued.state = "queued" /\ Queued.owner = Nobody
  BY DEF Pending, Queued
<1>d. /\ \A i \in DOMAIN messages : messages[i].turn <= n /\ \A t \in messages[i].copies : t <= n
      /\ \A i, j \in DOMAIN messages : messages[i].key = messages[j].key => i = j
      /\ \A i \in DOMAIN d.messages : d.messages[i].turn # 0 =>
            i \in DOMAIN messages /\ messages[i].turn = d.messages[i].turn
      /\ r = 0 => \E i \in DOMAIN messages : messages[i].turn = n
      /\ InOrder(e)
  OBVIOUS
<1> HIDE DEF n, e
<1>4. NewestTurn(e) = n
  <2>1. {t \in Turns : e.turn[t].state # "none"} = {t \in Turns : d.turn[t].state # "none"} \cup {n}
    BY <1>1, <1>2, <1>3
  <2>2. n \notin {t \in Turns : d.turn[t].state # "none"}
    BY <1>2
  <2>3. Cardinality({t \in Turns : e.turn[t].state # "none"})
          = Cardinality({t \in Turns : d.turn[t].state # "none"}) + 1
    BY <2>1, <2>2, <1>2, OneTurnMore
  <2> QED BY <2>3 DEF NewestTurn, n
<1>5. Stored(e)
  <2>1. ASSUME NEW t \in Turns
        PROVE  /\ e.turn[t].state = "none" => e.turn[t] = NoTurn /\ e.job[t] = NoJob
               /\ e.job[t].state = "none" => e.turn[t].state = "none"
               /\ e.job[t].state = "running" => e.job[t].owner \in Workers
               /\ e.job[t].state # "running" => e.job[t].owner = Nobody
    <3>1. CASE t = n
      BY <1>1, <1>3, <3>1
    <3>2. CASE t # n
      BY <1>1, <3>2 DEF Rows, Stored
    <3> QED BY <3>1, <3>2
  <2> QED BY <1>1, <2>1 DEF Stored
<1>6. Numbered(e)
  <2>1. \A t \in Turns : t \in Nat
    BY DEF Turns
  <2>2. \A t \in Turns : d.turn[t].state \notin ActiveTurn
    BY DEF ActiveTurns
  <2> QED BY <1>1, <1>2, <1>3, <1>4, <2>1, <2>2 DEF Rows, Numbered, n, ActiveTurn
<1>7. MessagesAreKnown(e)
  <2>1. \A t \in Turns : e.turn[t].state # "none" /\ e.turn[t].retryOf = 0 =>
          \E i \in DOMAIN messages : messages[i].turn = t
    <3> SUFFICES ASSUME NEW t \in Turns, e.turn[t].state # "none", e.turn[t].retryOf = 0
                 PROVE  \E i \in DOMAIN messages : messages[i].turn = t
      OBVIOUS
    <3>1. CASE t = n
      BY <1>1, <1>3, <1>d, <3>1
    <3>2. CASE t # n
      <4>1. PICK i \in DOMAIN d.messages : d.messages[i].turn = t
        BY <1>1, <3>2 DEF Rows, MessagesAreKnown
      <4>2. d.messages[i].turn # 0
        BY <4>1 DEF Turns
      <4> QED BY <4>1, <4>2, <1>d
    <3> QED BY <3>1, <3>2
  <2> QED BY <1>1, <1>4, <1>d, <2>1 DEF MessagesAreKnown
<1>8. RetriesAreFew(e)
  <2>1. RetriesOf(d) \in SUBSET Turns /\ RetriesOf(e) \in SUBSET Turns
    BY DEF RetriesOf
  <2>2. d.turn[n].retryOf = 0
    BY <1>2 DEF Rows, Stored, NoTurn
  <2>3. CASE r = 0
    <3>1. \A t \in Turns : e.turn[t].retryOf = d.turn[t].retryOf
      BY <1>1, <1>3, <2>2, <2>3
    <3>2. RetriesOf(e) = RetriesOf(d)
      BY <3>1 DEF RetriesOf
    <3> QED BY <3>2 DEF Rows, RetriesAreFew
  <2>4. CASE r # 0
    <3>1. RetriesOf(e) = RetriesOf(d) \cup {n} /\ n \notin RetriesOf(d)
      BY <1>1, <1>2, <1>3, <2>2, <2>4 DEF RetriesOf
    <3>2. Cardinality(RetriesOf(e)) = Cardinality(RetriesOf(d)) + 1
      BY <1>2, <2>1, <3>1, OneTurnMore
    <3>3. Cardinality(RetriesOf(d)) \in Nat
      BY <2>1, NewestIsATurn
    <3> QED BY <2>4, <3>2, <3>3, Bounds DEF RetriesAreFew
  <2> QED BY <2>3, <2>4
<1>9. \A t \in Turns : d.turn[t].state # "none" => t # n
  BY <1>2
<1> QED BY <1>4, <1>5, <1>6, <1>7, <1>8, <1>9, <1>d DEF Rows, n, e

\* There is room for the turn that takes a waiting message, and for a retry.
LEMMA RoomForATurn ==
  ASSUME NEW d, Rows(d),
         QueuedMessages(d) # {} \/ Cardinality(RetriesOf(d)) < MaxRetries
  PROVE  NewestTurn(d) + 1 \in Turns
<1> DEFINE turns == {t \in Turns : d.turn[t].state # "none"}
           plain == {t \in turns : d.turn[t].retryOf = 0}
           own(t) == CHOOSE i \in DOMAIN d.messages : d.messages[i].turn = t
           f == [t \in plain |-> d.messages[own(t)].key]
<1>1. /\ d.messages \in Seq(Messages)
      /\ \A i \in DOMAIN d.messages : d.messages[i] \in Messages /\ d.messages[i].key \in Keys
  <2>1. d.messages \in Seq(Messages)
    BY DEF Rows, Stored
  <2>2. \A i \in DOMAIN d.messages : d.messages[i] \in Messages
    BY <2>1
  <2> QED BY <2>1, <2>2 DEF Messages
<1>2. \A t \in plain : own(t) \in DOMAIN d.messages /\ d.messages[own(t)].turn = t
  BY DEF Rows, MessagesAreKnown
<1>3. \A t \in Turns : t # 0
  BY DEF Turns
<1>4. ASSUME NEW S \in SUBSET Keys, \A t \in plain : f[t] \in S
      PROVE  Cardinality(plain) <= Cardinality(S)
  <2>1. f \in Injection(plain, S)
    <3>1. f \in [plain -> S]
      BY <1>4
    <3>2. ASSUME NEW s \in plain, NEW t \in plain, f[s] = f[t] PROVE s = t
      <4>1. d.messages[own(s)].key = d.messages[own(t)].key
        BY <3>2
      <4>2. own(s) = own(t)
        BY <4>1, <1>2 DEF Rows, MessagesAreKnown
      <4> QED BY <4>2, <1>2
    <3> QED BY <3>1, <3>2 DEF Injection, IsInjective
  <2>2. IsFiniteSet(S)
    BY ConversationAssumption, FS_Subset
  <2> QED BY <2>1, <2>2, FS_Injection
<1>5. Cardinality(plain) <= Cardinality(Keys)
  BY <1>1, <1>2, <1>4
<1>6. QueuedMessages(d) # {} => Cardinality(plain) < Cardinality(Keys)
  <2> SUFFICES ASSUME NEW i \in QueuedMessages(d) PROVE Cardinality(plain) < Cardinality(Keys)
    OBVIOUS
  <2>1. i \in DOMAIN d.messages /\ d.messages[i].turn = 0
    BY DEF QueuedMessages
  <2>2. \A t \in plain : f[t] \in Keys \ {d.messages[i].key}
    <3> SUFFICES ASSUME NEW t \in plain, f[t] = d.messages[i].key PROVE FALSE
      BY <1>1, <1>2
    <3>1. own(t) = i
      BY <1>2, <2>1 DEF Rows, MessagesAreKnown
    <3> QED BY <1>2, <1>3, <2>1, <3>1
  <2>3. Cardinality(plain) <= Cardinality(Keys \ {d.messages[i].key})
    BY <1>4, <2>2
  <2>4. Cardinality(Keys \ {d.messages[i].key}) = Cardinality(Keys) - 1
    BY <1>1, <2>1, ConversationAssumption, FS_RemoveElement
  <2>5. Cardinality(plain) \in Nat
    BY NewestIsATurn
  <2> QED BY <2>3, <2>4, <2>5, Bounds
<1>7. Cardinality(turns) <= Cardinality(plain) + Cardinality(RetriesOf(d))
  <2>1. plain \subseteq Turns /\ RetriesOf(d) \subseteq Turns /\ turns \subseteq plain \cup RetriesOf(d)
    BY DEF RetriesOf
  <2>2. IsFiniteSet(plain) /\ IsFiniteSet(RetriesOf(d)) /\ IsFiniteSet(plain \cup RetriesOf(d))
        /\ IsFiniteSet(plain \cap RetriesOf(d))
    BY <2>1, NewestIsATurn
  <2>3. Cardinality(plain \cup RetriesOf(d))
          = Cardinality(plain) + Cardinality(RetriesOf(d)) - Cardinality(plain \cap RetriesOf(d))
    BY <2>2, FS_Union
  <2>4. Cardinality(turns) <= Cardinality(plain \cup RetriesOf(d))
    BY <2>1, <2>2, FS_Subset
  <2>5. /\ Cardinality(plain) \in Nat /\ Cardinality(RetriesOf(d)) \in Nat /\ Cardinality(turns) \in Nat
        /\ Cardinality(plain \cap RetriesOf(d)) \in Nat /\ Cardinality(plain \cup RetriesOf(d)) \in Nat
    BY <2>2, FS_CardinalityType, NewestIsATurn
  <2> QED BY <2>3, <2>4, <2>5
<1>8. Cardinality(plain) \in Nat /\ Cardinality(RetriesOf(d)) \in Nat /\ NewestTurn(d) = Cardinality(turns)
  BY NewestIsATurn DEF RetriesOf, NewestTurn
<1>9. Cardinality(RetriesOf(d)) <= MaxRetries
  BY DEF Rows, RetriesAreFew
<1>10. NewestTurn(d) + 1 <= Cardinality(Keys) + MaxRetries
  <2> HIDE DEF plain, turns
  <2> QED BY <1>5, <1>6, <1>7, <1>8, <1>9, Bounds, NewestIsATurn
<1> QED BY <1>10, Bounds, NewestIsATurn DEF Turns

\* The same turns with the same input, some of them further or over, with jobs that
\* stay well formed.
SameTurns(d, e) ==
    /\ e \in [messages : Seq(Messages), turn : [Turns -> Untold], job : [Turns -> JobRows]]
    /\ e.messages = d.messages
    /\ \A t \in Turns :
          /\ e.turn[t].retryOf = d.turn[t].retryOf
          /\ d.turn[t].state = "none" => e.turn[t] = d.turn[t] /\ e.job[t] = d.job[t]
          /\ d.turn[t].state # "none" => e.turn[t].state # "none" /\ e.job[t].state # "none"
          /\ e.turn[t].state \in ActiveTurn => d.turn[t].state \in ActiveTurn
          /\ e.job[t].state = "running" => e.job[t].owner \in Workers
          /\ e.job[t].state # "running" => e.job[t].owner = Nobody

\* Such a step keeps the rows.
LEMMA SameTurnsKeepRows ==
  ASSUME NEW d, NEW e, Rows(d), SameTurns(d, e)
  PROVE  Rows(e) /\ NewestTurn(e) = NewestTurn(d) /\ QueuedMessages(e) = QueuedMessages(d)
<1>1. \A t \in Turns : e.turn[t].state # "none" <=> d.turn[t].state # "none"
  BY DEF SameTurns
<1>2. NewestTurn(e) = NewestTurn(d)
  BY <1>1 DEF NewestTurn
<1>3. QueuedMessages(e) = QueuedMessages(d)
  BY DEF QueuedMessages, SameTurns
<1>4. Stored(e)
  <2>1. \A t \in Turns :
          /\ e.turn[t].state = "none" => e.turn[t] = NoTurn /\ e.job[t] = NoJob
          /\ e.job[t].state = "none" => e.turn[t].state = "none"
    BY <1>1 DEF Rows, Stored, SameTurns
  <2> QED BY <2>1 DEF Stored, SameTurns
<1>5. Numbered(e)
  BY <1>1, <1>2 DEF Rows, Numbered, SameTurns
<1>6. MessagesAreKnown(e)
  <2>1. \A t \in Turns : e.turn[t].state # "none" /\ e.turn[t].retryOf = 0 =>
          \E i \in DOMAIN e.messages : e.messages[i].turn = t
    BY <1>1 DEF Rows, MessagesAreKnown, SameTurns
  <2> QED BY <1>2, <2>1 DEF Rows, MessagesAreKnown, SameTurns
<1>7. InOrder(e)
  BY DEF Rows, InOrder, SameTurns
<1>8. RetriesAreFew(e)
  <2>1. RetriesOf(e) = RetriesOf(d)
    BY DEF RetriesOf, SameTurns
  <2> QED BY <2>1 DEF Rows, RetriesAreFew
<1> QED BY <1>2, <1>3, <1>4, <1>5, <1>6, <1>7, <1>8 DEF Rows

WithTurn(d, t, row) == [d EXCEPT !.turn[t] = row]
WithJob(d, t, row) == [d EXCEPT !.job[t] = row]

\* A turn that goes on or ends.
LEMMA ChangedTurn ==
  ASSUME NEW d, Rows(d), NEW t \in Turns, NEW row \in Untold,
         d.turn[t].state # "none", row.state # "none", row.retryOf = d.turn[t].retryOf,
         row.state \in ActiveTurn => d.turn[t].state \in ActiveTurn
  PROVE  LET e == WithTurn(d, t, row)
         IN  /\ Rows(e) /\ NewestTurn(e) = NewestTurn(d) /\ QueuedMessages(e) = QueuedMessages(d)
             /\ e.job = d.job /\ e.messages = d.messages /\ e.turn = [d.turn EXCEPT ![t] = row]
<1> DEFINE e == WithTurn(d, t, row)
<1>1. /\ d \in [messages : Seq(Messages), turn : [Turns -> Untold], job : [Turns -> JobRows]]
      /\ d.turn \in [Turns -> Untold]
  BY DEF Rows, Stored
<1>2. e.job = d.job /\ e.messages = d.messages /\ e.turn = [d.turn EXCEPT ![t] = row]
  BY <1>1 DEF WithTurn
<1>3. e \in [messages : Seq(Messages), turn : [Turns -> Untold], job : [Turns -> JobRows]]
  BY <1>1 DEF WithTurn
<1> HIDE DEF e
<1>4. \A u \in Turns :
        /\ e.turn[u].retryOf = d.turn[u].retryOf
        /\ d.turn[u].state = "none" => e.turn[u] = d.turn[u]
        /\ d.turn[u].state # "none" => e.turn[u].state # "none"
        /\ e.turn[u].state \in ActiveTurn => d.turn[u].state \in ActiveTurn
  BY <1>1, <1>2
<1>5. \A u \in Turns :
        /\ d.turn[u].state # "none" => e.job[u].state # "none"
        /\ e.job[u].state = "running" => e.job[u].owner \in Workers
        /\ e.job[u].state # "running" => e.job[u].owner = Nobody
  BY <1>2 DEF Rows, Stored
<1>6. Rows(e) /\ NewestTurn(e) = NewestTurn(d) /\ QueuedMessages(e) = QueuedMessages(d)
  <2>1. SameTurns(d, e)
    BY <1>2, <1>3, <1>4, <1>5 DEF SameTurns
  <2> QED BY <2>1, SameTurnsKeepRows
<1> QED BY <1>2, <1>6 DEF e

\* A job that is claimed, handed back, closed, or loses its lease.
LEMMA ChangedJob ==
  ASSUME NEW d, Rows(d), NEW t \in Turns, NEW row \in JobRows,
         d.turn[t].state # "none", row.state # "none",
         row.state = "running" => row.owner \in Workers,
         row.state # "running" => row.owner = Nobody
  PROVE  LET e == WithJob(d, t, row)
         IN  /\ Rows(e) /\ NewestTurn(e) = NewestTurn(d) /\ QueuedMessages(e) = QueuedMessages(d)
             /\ e.turn = d.turn /\ e.messages = d.messages /\ e.job = [d.job EXCEPT ![t] = row]
<1> DEFINE e == WithJob(d, t, row)
<1>1. /\ d \in [messages : Seq(Messages), turn : [Turns -> Untold], job : [Turns -> JobRows]]
      /\ d.job \in [Turns -> JobRows]
  BY DEF Rows, Stored
<1>2. e.turn = d.turn /\ e.messages = d.messages /\ e.job = [d.job EXCEPT ![t] = row]
  BY <1>1 DEF WithJob
<1>3. e \in [messages : Seq(Messages), turn : [Turns -> Untold], job : [Turns -> JobRows]]
  BY <1>1 DEF WithJob
<1> HIDE DEF e
<1>4. \A u \in Turns :
        /\ d.turn[u].state = "none" => e.job[u] = d.job[u]
        /\ d.turn[u].state # "none" => e.job[u].state # "none"
        /\ e.job[u].state = "running" => e.job[u].owner \in Workers
        /\ e.job[u].state # "running" => e.job[u].owner = Nobody
  <2> SUFFICES ASSUME NEW u \in Turns
               PROVE  /\ d.turn[u].state = "none" => e.job[u] = d.job[u]
                      /\ d.turn[u].state # "none" => e.job[u].state # "none"
                      /\ e.job[u].state = "running" => e.job[u].owner \in Workers
                      /\ e.job[u].state # "running" => e.job[u].owner = Nobody
    OBVIOUS
  <2>1. CASE u = t
    BY <1>1, <1>2, <2>1
  <2>2. CASE u # t
    BY <1>1, <1>2, <2>2 DEF Rows, Stored
  <2> QED BY <2>1, <2>2
<1>5. \A u \in Turns :
        /\ e.turn[u].retryOf = d.turn[u].retryOf
        /\ d.turn[u].state = "none" => e.turn[u] = d.turn[u]
        /\ d.turn[u].state # "none" => e.turn[u].state # "none"
        /\ e.turn[u].state \in ActiveTurn => d.turn[u].state \in ActiveTurn
  BY <1>2
<1>6. Rows(e) /\ NewestTurn(e) = NewestTurn(d) /\ QueuedMessages(e) = QueuedMessages(d)
  <2>1. SameTurns(d, e)
    BY <1>2, <1>3, <1>4, <1>5 DEF SameTurns
  <2> QED BY <2>1, SameTurnsKeepRows
<1> QED BY <1>2, <1>6 DEF e

\* archive closes the job of its turn, if it is fenced.
LEMMA ClosedJob ==
  ASSUME NEW d, Rows(d), NEW w \in Workers, NEW t \in Turns, NEW e, e = Archive(d, w, t)
  PROVE  /\ Rows(e) /\ NewestTurn(e) = NewestTurn(d) /\ QueuedMessages(e) = QueuedMessages(d)
         /\ e.turn = d.turn
         /\ \A u \in Turns \ {t} : e.job[u] = d.job[u]
         /\ ~Fenced(d, w, t) => e.job[t] = d.job[t]
         /\ Fenced(d, w, t) => e.job[t].state = "completed"
<1>1. CASE ~Fenced(d, w, t)
  BY <1>1 DEF Archive
<1>2. CASE Fenced(d, w, t)
  <2> DEFINE row == [Queued EXCEPT !.state = "completed"]
  <2>1. /\ d.turn[t].state # "none" /\ d.job \in [Turns -> JobRows]
    BY <1>2 DEF Rows, Stored, Fenced, NoJob
  <2>2. row \in JobRows /\ row.state = "completed" /\ row.owner = Nobody
    BY DEF Queued, JobRows
  <2>3. e = WithJob(d, t, row)
    BY <1>2 DEF Archive, WithJob
  <2> HIDE DEF row
  <2>4. /\ Rows(e) /\ NewestTurn(e) = NewestTurn(d) /\ QueuedMessages(e) = QueuedMessages(d)
        /\ e.turn = d.turn /\ e.job = [d.job EXCEPT ![t] = row]
    <3>1. /\ row.state # "none" /\ row.state # "running"
          /\ row.state = "running" => row.owner \in Workers
      BY <2>2
    <3> QED BY <2>1, <2>2, <2>3, <3>1, ChangedJob
  <2>5. e.job[t] = row /\ \A u \in Turns \ {t} : e.job[u] = d.job[u]
    BY <2>1, <2>4
  <2> QED BY <1>2, <2>2, <2>4, <2>5
<1> QED BY <1>1, <1>2

\* release hands the job of its turn back, if it is fenced.
LEMMA HandedBackJob ==
  ASSUME NEW d, Rows(d), NEW w \in Workers, NEW t \in Turns, NEW e, e = ReleaseJob(d, w, t)
  PROVE  /\ Rows(e) /\ NewestTurn(e) = NewestTurn(d) /\ QueuedMessages(e) = QueuedMessages(d)
         /\ e.turn = d.turn
         /\ \A u \in Turns \ {t} : e.job[u] = d.job[u]
         /\ ~Fenced(d, w, t) => e.job[t] = d.job[t]
         /\ Fenced(d, w, t) => e.job[t].state = "queued"
<1>1. CASE ~Fenced(d, w, t)
  BY <1>1 DEF ReleaseJob
<1>2. CASE Fenced(d, w, t)
  <2> DEFINE row == Queued
  <2>1. /\ d.turn[t].state # "none" /\ d.job \in [Turns -> JobRows]
    BY <1>2 DEF Rows, Stored, Fenced, NoJob
  <2>2. row \in JobRows /\ row.state = "queued" /\ row.owner = Nobody
    BY DEF Queued, JobRows
  <2>3. e = WithJob(d, t, row)
    BY <1>2 DEF ReleaseJob, WithJob
  <2> HIDE DEF row
  <2>4. /\ Rows(e) /\ NewestTurn(e) = NewestTurn(d) /\ QueuedMessages(e) = QueuedMessages(d)
        /\ e.turn = d.turn /\ e.job = [d.job EXCEPT ![t] = row]
    <3>1. /\ row.state # "none" /\ row.state # "running"
          /\ row.state = "running" => row.owner \in Workers
      BY <2>2
    <3> QED BY <2>1, <2>2, <2>3, <3>1, ChangedJob
  <2>5. e.job[t] = row /\ \A u \in Turns \ {t} : e.job[u] = d.job[u]
    BY <2>1, <2>4
  <2> QED BY <1>2, <2>2, <2>4, <2>5
<1> QED BY <1>1, <1>2

-----------------------------------------------------------------------------
(* Messages that wait, and the turn that takes them.                       *)

\* A new turn at most; every other turn and job stays what it is.
SameOrNew(d, e, t) ==
    \/ e.turn[t] = d.turn[t] /\ e.job[t] = d.job[t]
    \/ /\ d.turn[t].state = "none" /\ d.job[t].state = "none"
       /\ e.job[t] = Queued /\ \E r \in Turns \cup {0} : e.turn[t] = Pending(r)
Grown(d, e) == \A t \in Turns : SameOrNew(d, e, t)

\* A started turn is the only new one, and it is active and the newest.
LEMMA StartGrows ==
  ASSUME NEW d, Rows(d), NEW r \in Turns \cup {0}, NEW messages \in Seq(Messages), NewestTurn(d) + 1 \in Turns,
         Rows(StartTurn(d, r, messages)), NewestTurn(StartTurn(d, r, messages)) = NewestTurn(d) + 1
  PROVE  /\ Grown(d, StartTurn(d, r, messages)) /\ NobodyWaitsInVain(StartTurn(d, r, messages))
         /\ ActiveTurnsAreServed(d) => ActiveTurnsAreServed(StartTurn(d, r, messages))
<1> DEFINE n == NewestTurn(d) + 1
           e == StartTurn(d, r, messages)
<1>1. /\ e.turn[n] = Pending(r) /\ e.job[n] = Queued
      /\ \A t \in Turns \ {n} : e.turn[t] = d.turn[t] /\ e.job[t] = d.job[t]
  BY StartedTurn DEF Rows
<1>2. n \in Turns /\ NewestTurn(e) = n
  OBVIOUS
<1>3. d.turn[n].state = "none"
  BY NewestIsATurn DEF Rows, Numbered
<1>4. d.job[n].state = "none"
  BY <1>2, <1>3 DEF Rows, Stored, NoJob
<1> HIDE DEF n, e
<1>5. Grown(d, e)
  BY <1>1, <1>2, <1>3, <1>4 DEF Grown, SameOrNew
<1>6. e.turn[n].state \in ActiveTurn /\ e.job[n].state = "queued"
  BY <1>1 DEF Pending, Queued, ActiveTurn
<1>7. NobodyWaitsInVain(e)
  BY <1>2, <1>6 DEF NobodyWaitsInVain
<1>8. ActiveTurnsAreServed(d) => ActiveTurnsAreServed(e)
  BY <1>1, <1>6 DEF ActiveTurnsAreServed, OpenIn
<1> QED BY <1>5, <1>7, <1>8 DEF e

\* What the turn takes: the messages that waited, in their order.
LEMMA TakenMessages ==
  ASSUME NEW d, Rows(d), NewestTurn(d) + 1 \in Turns
  PROVE  /\ Taken(d) \in Seq(Messages) /\ DOMAIN Taken(d) = DOMAIN d.messages
         /\ \A i \in DOMAIN d.messages :
               /\ Taken(d)[i].key = d.messages[i].key /\ Taken(d)[i].copies = d.messages[i].copies
               /\ Taken(d)[i].turn = IF d.messages[i].turn = 0 THEN NewestTurn(d) + 1 ELSE d.messages[i].turn
<1> DEFINE n == NewestTurn(d) + 1
<1>1. d.messages \in Seq(Messages)
  BY DEF Rows, Stored
<1>2. /\ Len(d.messages) \in Nat /\ DOMAIN d.messages = 1 .. Len(d.messages)
      /\ \A i \in DOMAIN d.messages : d.messages[i] \in Messages
  BY <1>1, LenProperties, ElementOfSeq
<1>3. \A i \in DOMAIN d.messages : i \in QueuedMessages(d) <=> d.messages[i].turn = 0
  BY DEF QueuedMessages
<1>4. \A i \in DOMAIN d.messages :
        LET m == [d.messages[i] EXCEPT !.turn = n]
        IN  m \in Messages /\ m.key = d.messages[i].key /\ m.copies = d.messages[i].copies /\ m.turn = n
  BY <1>2 DEF Messages
<1>5. Taken(d) = [i \in DOMAIN d.messages |->
                     IF d.messages[i].turn = 0 THEN [d.messages[i] EXCEPT !.turn = n] ELSE d.messages[i]]
  BY <1>3 DEF Taken
<1>6. DOMAIN Taken(d) = DOMAIN d.messages
  BY <1>5
<1>7. \A i \in DOMAIN d.messages :
        /\ Taken(d)[i] \in Messages
        /\ Taken(d)[i].key = d.messages[i].key /\ Taken(d)[i].copies = d.messages[i].copies
        /\ Taken(d)[i].turn = IF d.messages[i].turn = 0 THEN n ELSE d.messages[i].turn
  BY <1>2, <1>4, <1>5
<1>8. Taken(d) \in Seq(Messages)
  <2>1. Taken(d) = [i \in 1 .. Len(d.messages) |-> Taken(d)[i]]
    BY <1>2, <1>5
  <2> QED BY <1>2, <1>7, <2>1, IsASeq
<1> QED BY <1>6, <1>7, <1>8

\* drain keeps the rows, starts one turn at most, and leaves nobody waiting in vain.
LEMMA DrainKeeps ==
  ASSUME NEW d, Rows(d)
  PROVE  /\ Rows(Drain(d)) /\ NobodyWaitsInVain(Drain(d)) /\ Grown(d, Drain(d))
         /\ ActiveTurnsAreServed(d) => ActiveTurnsAreServed(Drain(d))
<1>1. CASE ActiveTurns(d) # {} \/ QueuedMessages(d) = {}
  <2>1. Drain(d) = d
    BY <1>1 DEF Drain
  <2>2. NobodyWaitsInVain(d)
    BY <1>1 DEF NobodyWaitsInVain, ActiveTurns, Rows, Numbered
  <2>3. Grown(d, d)
    BY DEF Grown, SameOrNew
  <2> QED BY <2>1, <2>2, <2>3
<1>2. CASE ActiveTurns(d) = {} /\ QueuedMessages(d) # {}
  <2> DEFINE n == NewestTurn(d) + 1
             e == StartTurn(d, 0, Taken(d))
  <2>1. Drain(d) = e
    BY <1>2 DEF Drain
  <2>2. n \in Turns
    BY <1>2, RoomForATurn
  <2>3. /\ Taken(d) \in Seq(Messages) /\ DOMAIN Taken(d) = DOMAIN d.messages
        /\ \A i \in DOMAIN d.messages :
              /\ Taken(d)[i].key = d.messages[i].key /\ Taken(d)[i].copies = d.messages[i].copies
              /\ Taken(d)[i].turn = IF d.messages[i].turn = 0 THEN n ELSE d.messages[i].turn
    BY <2>2, TakenMessages
  <2>4. e.messages = Taken(d)
    <3>1. Stored(d) /\ 0 \in Turns \cup {0} /\ Taken(d) \in Seq(Messages)
      BY <2>3 DEF Rows
    <3> HIDE DEF Rows
    <3> QED BY <2>2, <3>1, StartedTurn
  <2>5. NewestTurn(d) \in Nat
    BY NewestIsATurn
  <2>6. \A i \in DOMAIN d.messages : d.messages[i].turn \in Nat /\ d.messages[i].turn <= NewestTurn(d)
                                     /\ \A t \in d.messages[i].copies : t \in Nat /\ t <= NewestTurn(d)
    <3>1. \A i \in DOMAIN d.messages : d.messages[i] \in Messages
      <4>1. d.messages \in Seq(Messages)
        BY DEF Rows, Stored
      <4> QED BY <4>1, ElementOfSeq, LenProperties
    <3>2. \A i \in DOMAIN d.messages : d.messages[i].turn \in Nat /\ d.messages[i].copies \subseteq Nat
      BY <3>1, Bounds DEF Messages
    <3> QED BY <3>2 DEF Rows, MessagesAreKnown
  <2> HIDE DEF n, e
  <2>7. \A i \in DOMAIN Taken(d) : Taken(d)[i].turn <= n /\ \A t \in Taken(d)[i].copies : t <= n
    BY <2>3, <2>5, <2>6 DEF n
  <2>8. \A i, j \in DOMAIN Taken(d) : Taken(d)[i].key = Taken(d)[j].key => i = j
    BY <2>3 DEF Rows, MessagesAreKnown
  <2>9. \A i \in DOMAIN d.messages : d.messages[i].turn # 0 =>
          i \in DOMAIN Taken(d) /\ Taken(d)[i].turn = d.messages[i].turn
    BY <2>3
  <2>10. \E i \in DOMAIN Taken(d) : Taken(d)[i].turn = n
    BY <1>2, <2>3 DEF QueuedMessages
  <2>11. InOrder(e)
    <3> SUFFICES ASSUME NEW i \in DOMAIN d.messages, NEW j \in DOMAIN d.messages, i < j
                 PROVE  Taken(d)[i].turn \in 1 .. Taken(d)[j].turn
      BY <2>3, <2>4 DEF InOrder
    <3>1. d.messages[j].turn # 0 => d.messages[i].turn \in 1 .. d.messages[j].turn
      BY DEF Rows, InOrder
    <3> QED BY <2>3, <2>5, <2>6, <3>1 DEF n
  <2>12. Rows(e) /\ NewestTurn(e) = n
    BY <1>2, <2>2, <2>3, <2>7, <2>8, <2>9, <2>10, <2>11, StartKeepsRows DEF n, e
  <2>13. /\ Grown(d, e) /\ NobodyWaitsInVain(e)
         /\ ActiveTurnsAreServed(d) => ActiveTurnsAreServed(e)
    BY <2>2, <2>3, <2>12, StartGrows DEF n, e
  <2> QED BY <2>1, <2>12, <2>13
<1> QED BY <1>1, <1>2

-----------------------------------------------------------------------------
(* The commands of the user.                                               *)

RowsInv(d) == Rows(d) /\ NobodyWaitsInVain(d) /\ ActiveTurnsAreServed(d)

\* What a command may do to jobs and attempts.
Untouched ==
    \A t \in Turns :
        \/ /\ db'.job[t] = db.job[t] /\ db'.turn[t].attempts = db.turn[t].attempts
           /\ db'.turn[t].state = "pending" => db.turn[t].state = "pending"
        \/ db.job[t].state = "none" /\ db'.job[t] = Queued /\ db'.turn[t].attempts = 0

\* A new turn touches nothing that the workers see.
LEMMA GrownIsUntouched ==
  ASSUME Grown(db, db')
  PROVE  Untouched
<1>1. \A r \in Turns \cup {0} : Pending(r).attempts = 0
  BY DEF Pending
<1>2. ASSUME NEW t \in Turns, db'.turn[t] = db.turn[t], db'.job[t] = db.job[t]
      PROVE  /\ db'.job[t] = db.job[t] /\ db'.turn[t].attempts = db.turn[t].attempts
             /\ db'.turn[t].state = "pending" => db.turn[t].state = "pending"
  BY <1>2
<1>3. ASSUME NEW t \in Turns, db.job[t].state = "none", db'.job[t] = Queued,
             \E r \in Turns \cup {0} : db'.turn[t] = Pending(r)
      PROVE  db.job[t].state = "none" /\ db'.job[t] = Queued /\ db'.turn[t].attempts = 0
  BY <1>1, <1>3
<1> QED BY <1>2, <1>3 DEF Grown, SameOrNew, Untouched

WithMessage(k) == [db EXCEPT !.messages = Append(@, [key |-> k, turn |-> 0, copies |-> {}])]

\* A message that is appended under a new key keeps the rows.
LEMMA MessageKeeps ==
  ASSUME RowsInv(db), NEW k \in Keys, ~Sent(k)
  PROVE  LET d == WithMessage(k)
             m == [key |-> k, turn |-> 0, copies |-> {}]
         IN  /\ Rows(d) /\ d.turn = db.turn /\ d.job = db.job
             /\ Len(db.messages) \in Nat /\ DOMAIN db.messages = 1 .. Len(db.messages)
             /\ DOMAIN d.messages = 1 .. Len(db.messages) + 1
             /\ \A i \in DOMAIN db.messages : d.messages[i] = db.messages[i]
             /\ d.messages[Len(db.messages) + 1] = m
<1> DEFINE m == [key |-> k, turn |-> 0, copies |-> {}]
           d == WithMessage(k)
<1>1. /\ db \in [messages : Seq(Messages), turn : [Turns -> Untold], job : [Turns -> JobRows]]
      /\ db.messages \in Seq(Messages) /\ m \in Messages
  BY DEF RowsInv, Rows, Stored, Messages
<1>2. d.messages = Append(db.messages, m) /\ d.turn = db.turn /\ d.job = db.job
  BY <1>1 DEF WithMessage
<1>3. d \in [messages : Seq(Messages), turn : [Turns -> Untold], job : [Turns -> JobRows]]
  <2>1. Append(db.messages, m) \in Seq(Messages)
    BY <1>1, AppendProperties
  <2> QED BY <1>1, <2>1 DEF WithMessage
<1>4. /\ Len(db.messages) \in Nat /\ DOMAIN db.messages = 1 .. Len(db.messages)
      /\ DOMAIN d.messages = 1 .. Len(db.messages) + 1
      /\ \A i \in DOMAIN db.messages : d.messages[i] = db.messages[i]
      /\ d.messages[Len(db.messages) + 1] = m
  BY <1>1, <1>2, AppendProperties, LenProperties
<1>5. m.key = k /\ m.turn = 0 /\ m.copies = {}
  OBVIOUS
<1> HIDE DEF m, d
<1>6. NewestTurn(d) = NewestTurn(db) /\ NewestTurn(db) \in Nat
  BY <1>2, NewestIsATurn DEF NewestTurn
<1>7. Rows(d)
  <2>1. Stored(d)
    BY <1>2, <1>3 DEF RowsInv, Rows, Stored
  <2>2. Numbered(d)
    BY <1>2, <1>6 DEF RowsInv, Rows, Numbered
  <2>3. MessagesAreKnown(d)
    <3>1. \A i \in DOMAIN d.messages :
            d.messages[i].turn <= NewestTurn(d) /\ \A t \in d.messages[i].copies : t <= NewestTurn(d)
      BY <1>4, <1>5, <1>6 DEF RowsInv, Rows, MessagesAreKnown
    <3>2. \A i, j \in DOMAIN d.messages : d.messages[i].key = d.messages[j].key => i = j
      <4>1. \A i \in DOMAIN db.messages : db.messages[i].key # k
        BY DEF Sent
      <4> QED BY <1>4, <1>5, <4>1 DEF RowsInv, Rows, MessagesAreKnown
    <3>3. \A t \in Turns : d.turn[t].state # "none" /\ d.turn[t].retryOf = 0 =>
            \E i \in DOMAIN d.messages : d.messages[i].turn = t
      <4> SUFFICES ASSUME NEW t \in Turns, d.turn[t].state # "none" /\ d.turn[t].retryOf = 0
                   PROVE  \E i \in DOMAIN d.messages : d.messages[i].turn = t
        OBVIOUS
      <4>1. PICK i \in DOMAIN db.messages : db.messages[i].turn = t
        BY <1>2 DEF RowsInv, Rows, MessagesAreKnown
      <4>2. i \in DOMAIN d.messages /\ d.messages[i].turn = t
        BY <1>4, <4>1
      <4> QED BY <4>2
    <3> QED BY <3>1, <3>2, <3>3 DEF MessagesAreKnown
  <2>4. InOrder(d)
    BY <1>4, <1>5 DEF RowsInv, Rows, InOrder
  <2>5. RetriesAreFew(d)
    BY <1>2 DEF RowsInv, Rows, RetriesAreFew, RetriesOf
  <2> QED BY <2>1, <2>2, <2>3, <2>4, <2>5 DEF Rows
<1> QED BY <1>2, <1>4, <1>7 DEF m, d

\* send: the message is appended and, unless a turn is active, taken.
LEMMA SendKeeps ==
  ASSUME RowsInv(db), NEW k \in Keys, Send(k)
  PROVE  RowsInv(db') /\ Grown(db, db')
<1> DEFINE d == WithMessage(k)
<1>1. Rows(d) /\ d.turn = db.turn /\ d.job = db.job
  BY MessageKeeps DEF Send
<1>2. db' = Drain(d)
  BY DEF Send, WithMessage
<1> HIDE DEF d
<1>3. ActiveTurnsAreServed(d)
  BY <1>1 DEF RowsInv, ActiveTurnsAreServed, OpenIn
<1>4. RowsInv(db') /\ Grown(d, db')
  BY <1>1, <1>2, <1>3, DrainKeeps DEF RowsInv
<1> QED BY <1>1, <1>4 DEF Grown, SameOrNew

\* cancel: the active turn is over; what waits goes on waiting.
LEMMA CancelKeeps ==
  ASSUME RowsInv(db), Cancel
  PROVE  RowsInv(db') /\ Untouched
<1>1. PICK t \in ActiveTurns(db) : db' = [db EXCEPT !.turn[t].state = "cancelled"]
  BY DEF Cancel
<1> DEFINE row == [db.turn[t] EXCEPT !.state = "cancelled"]
<1>2. /\ t \in Turns /\ db.turn[t].state \in ActiveTurn
      /\ db.turn \in [Turns -> Untold] /\ db.turn[t] \in Untold
  BY DEF ActiveTurns, RowsInv, Rows, Stored
<1>3. row \in Untold /\ row.state = "cancelled" /\ row.retryOf = db.turn[t].retryOf /\ row.attempts = db.turn[t].attempts
  BY <1>2 DEF Untold, TurnOver
<1>4. db' = WithTurn(db, t, row)
  BY <1>1 DEF WithTurn
<1> HIDE DEF row
<1>5. db.turn[t].state # "none" /\ row.state # "none" /\ row.state \notin ActiveTurn /\ Rows(db)
  BY <1>2, <1>3 DEF ActiveTurn, RowsInv
<1>6. /\ Rows(db') /\ NewestTurn(db') = NewestTurn(db) /\ QueuedMessages(db') = QueuedMessages(db)
      /\ db'.job = db.job /\ db'.turn = [db.turn EXCEPT ![t] = row]
  BY <1>2, <1>3, <1>4, <1>5, ChangedTurn
<1>7. NobodyWaitsInVain(db')
  BY <1>2, <1>3, <1>6 DEF RowsInv, Rows, Numbered, NobodyWaitsInVain
<1>8. ActiveTurnsAreServed(db')
  BY <1>2, <1>5, <1>6 DEF RowsInv, ActiveTurnsAreServed, OpenIn
<1>9. Untouched
  BY <1>2, <1>3, <1>6 DEF Untouched
<1> QED BY <1>6, <1>7, <1>8, <1>9 DEF RowsInv

\* retry: a new turn with copies of the messages of the old one.
LEMMA RetryKeeps ==
  ASSUME RowsInv(db), NEW o \in Turns, Retry(o)
  PROVE  RowsInv(db') /\ Grown(db, db')
<1> DEFINE n == NewestTurn(db) + 1
           messages == Copied(db, o)
           e == StartTurn(db, o, messages)
<1>1. /\ db.messages \in Seq(Messages) /\ Len(db.messages) \in Nat
      /\ DOMAIN db.messages = 1 .. Len(db.messages)
      /\ \A i \in DOMAIN db.messages : db.messages[i] \in Messages
  <2>1. db.messages \in Seq(Messages)
    BY DEF RowsInv, Rows, Stored
  <2> QED BY <2>1, LenProperties, ElementOfSeq
<1>2. /\ ActiveTurns(db) = {} /\ Cardinality(RetriesOf(db)) < MaxRetries /\ db' = e
      /\ o # 0 /\ o \in Turns \cup {0}
  BY DEF Retry, RetryTurns, RetriesOf, Turns
<1>3. n \in Turns /\ NewestTurn(db) \in Nat
  BY <1>2, RoomForATurn, NewestIsATurn DEF RowsInv
<1>4. \A i \in DOMAIN db.messages :
        LET m == [db.messages[i] EXCEPT !.copies = @ \cup {n}]
        IN  /\ m \in Messages /\ m.key = db.messages[i].key /\ m.turn = db.messages[i].turn
            /\ m.copies = db.messages[i].copies \cup {n}
  BY <1>1, <1>3 DEF Messages
<1>5. /\ DOMAIN messages = DOMAIN db.messages
      /\ \A i \in DOMAIN db.messages :
            /\ messages[i] \in Messages
            /\ messages[i].key = db.messages[i].key /\ messages[i].turn = db.messages[i].turn
            /\ messages[i].copies \subseteq db.messages[i].copies \cup {n}
  BY <1>1, <1>4 DEF Copied
<1>6. messages \in Seq(Messages)
  <2>1. messages = [i \in 1 .. Len(db.messages) |-> messages[i]]
    BY <1>1 DEF Copied
  <2> QED BY <1>1, <1>5, <2>1, IsASeq
<1>7. Stored(db) /\ Rows(db)
  BY DEF RowsInv, Rows
<1>8. e.messages = messages
  BY <1>2, <1>3, <1>6, <1>7, StartedTurn
<1> HIDE DEF n, messages, e
<1>9. /\ \A i \in DOMAIN messages : messages[i].turn <= n /\ \A t \in messages[i].copies : t <= n
      /\ \A i, j \in DOMAIN messages : messages[i].key = messages[j].key => i = j
      /\ \A i \in DOMAIN db.messages : db.messages[i].turn # 0 =>
            i \in DOMAIN messages /\ messages[i].turn = db.messages[i].turn
  <2>1. \A i \in DOMAIN db.messages :
          /\ db.messages[i].turn \in Nat /\ db.messages[i].turn <= NewestTurn(db)
          /\ \A t \in db.messages[i].copies : t \in Nat /\ t <= NewestTurn(db)
    <3>1. \A i \in DOMAIN db.messages : db.messages[i].turn \in Nat /\ db.messages[i].copies \subseteq Nat
      BY <1>1, Bounds DEF Messages
    <3> QED BY <3>1, <1>7 DEF Rows, MessagesAreKnown
  <2>2. \A i \in DOMAIN messages : messages[i].turn <= n /\ \A t \in messages[i].copies : t <= n
    <3> SUFFICES ASSUME NEW i \in DOMAIN messages
                 PROVE  messages[i].turn <= n /\ \A t \in messages[i].copies : t <= n
      OBVIOUS
    <3>1. /\ messages[i].turn = db.messages[i].turn
          /\ \A t \in messages[i].copies : t \in db.messages[i].copies \/ t = n
      BY <1>5
    <3> QED BY <1>3, <1>5, <2>1, <3>1 DEF n
  <2>3. \A i, j \in DOMAIN messages : messages[i].key = messages[j].key => i = j
    BY <1>5, <1>7 DEF Rows, MessagesAreKnown
  <2> QED BY <1>5, <2>2, <2>3
<1>10. InOrder(e)
  BY <1>5, <1>7, <1>8 DEF Rows, InOrder
<1>11. Rows(e) /\ NewestTurn(e) = n
  BY <1>2, <1>3, <1>6, <1>7, <1>9, <1>10, StartKeepsRows DEF n, e
<1>12. /\ Grown(db, e) /\ NobodyWaitsInVain(e)
       /\ ActiveTurnsAreServed(db) => ActiveTurnsAreServed(e)
  BY <1>2, <1>3, <1>6, <1>7, <1>11, StartGrows DEF n, e
<1> QED BY <1>2, <1>11, <1>12 DEF RowsInv

\* What a slot works on is the first of the conversation that is open.
LEMMA EarlierJobsAreClosed ==
  ASSUME IndInv, NEW w \in Workers, worker[w] # Free, NEW u \in Turns, u < worker[w].turn
  PROVE  db.job[u].state # "none" /\ ~OpenJob(u)
<1>1. worker[w].turn \in Turns /\ db.job[worker[w].turn].state # "none" /\ ~OpenJob(u)
  BY DEF IndInv, Typing, SlotsAreKnown
<1>2. db.turn[worker[w].turn].state # "none"
  BY <1>1 DEF IndInv, Rows, Stored, NoJob
<1>3. worker[w].turn <= NewestTurn(db) /\ NewestTurn(db) \in Nat
  BY <1>1, <1>2, NewestIsATurn DEF IndInv, Rows, Numbered
<1>4. db.turn[u].state # "none"
  BY <1>1, <1>3, Bounds DEF IndInv, Rows, Numbered
<1> QED BY <1>1, <1>4 DEF IndInv, Rows, Stored

\* Workers, guards and claims do not notice a command.
LEMMA CommandKeepsTheRest ==
  ASSUME IndInv, Untouched, UNCHANGED <<guard, worker, faults>>
  PROVE  Typing' /\ GuardsHold' /\ AttemptsAreAccountedFor'
<1>1. \A t \in Turns : db.job[t].state # "none" =>
        /\ db'.job[t] = db.job[t]
        /\ db'.turn[t].attempts = db.turn[t].attempts
        /\ db'.turn[t].state = "pending" => db.turn[t].state = "pending"
  BY DEF Untouched
<1>2. \A w \in Workers : worker[w] # Free => worker[w].turn \in Turns /\ db.job[worker[w].turn].state # "none"
  BY DEF IndInv, Typing, SlotsAreKnown
<1>3. SlotsAreKnown'
  <2> SUFFICES ASSUME NEW w \in Workers, worker[w] # Free
               PROVE  /\ worker[w].pc \in {"claimed", "guarded", "calling"} /\ worker[w].turn \in Turns
                      /\ db'.job[worker[w].turn].state # "none"
                      /\ worker[w].pc = "calling" => db'.turn[worker[w].turn].state # "pending"
                      /\ \A u \in Turns : u < worker[w].turn => ~OpenJob(u)'
    BY DEF SlotsAreKnown
  <2>1. /\ worker[w].pc \in {"claimed", "guarded", "calling"} /\ worker[w].turn \in Turns
        /\ db'.job[worker[w].turn].state # "none"
        /\ worker[w].pc = "calling" => db'.turn[worker[w].turn].state # "pending"
    BY <1>1, <1>2 DEF IndInv, Typing, SlotsAreKnown
  <2>2. \A u \in Turns : u < worker[w].turn => db.job[u].state # "none" /\ ~OpenJob(u)
    BY EarlierJobsAreClosed
  <2> QED BY <1>1, <2>1, <2>2 DEF OpenJob
<1>4. Typing'
  BY <1>3 DEF IndInv, Typing
<1>5. GuardsHold'
  BY <1>1, <1>2 DEF IndInv, GuardsHold, Inside, OpenJob, Free
<1>6. \A w \in Workers : Claims(w)' = Claims(w)
  BY <1>1, <1>2 DEF Claims, Fenced
<1>7. Late' = Late /\ \A t \in Turns : Coming(t)' = Coming(t)
  BY <1>6 DEF Late, Coming
<1>8. \A t \in Turns : db.job[t].state # "none" => Due(t)' = Due(t)
  BY <1>1, <1>6 DEF Due, OpenJob
<1>9. \A t \in Turns : db.job[t].state = "none" => Coming(t) = {}
  BY <1>2 DEF Coming, Free
<1>10. ASSUME NEW t \in Turns
       PROVE  db'.turn[t].attempts + Cardinality(Coming(t)') + (IF Due(t)' THEN 1 ELSE 0) <= MaxAttempts + faults
  <2>1. CASE db.job[t].state # "none"
    BY <1>1, <1>7, <1>8, <2>1 DEF IndInv, AttemptsAreAccountedFor
  <2>2. CASE db.job[t].state = "none"
    <3>1. Cardinality(Coming(t)') = 0
      BY <1>7, <1>9, <2>2, FS_EmptySet
    <3>2. faults \in Nat
      BY DEF IndInv, Typing
    <3>3. CASE db'.turn[t].attempts = 0
      BY <3>1, <3>2, <3>3, Bounds
    <3>4. CASE db'.job[t] = db.job[t] /\ db'.turn[t].attempts = db.turn[t].attempts
      <4>1. db.turn[t].attempts = 0
        BY <2>2 DEF IndInv, Rows, Stored, NoTurn
      <4> QED BY <3>3, <3>4, <4>1
    <3> QED BY <3>3, <3>4 DEF Untouched
  <2> QED BY <2>1, <2>2
<1>11. AttemptsAreAccountedFor'
  BY <1>7, <1>10 DEF IndInv, AttemptsAreAccountedFor
<1> QED BY <1>4, <1>5, <1>11

-----------------------------------------------------------------------------
(* Worker slots.                                                           *)

\* Slots are counted.
LEMMA CountedSlots ==
  \A S, T \in SUBSET Workers :
     /\ IsFiniteSet(S) /\ Cardinality(S) \in Nat
     /\ S \subseteq T => Cardinality(S) <= Cardinality(T)
     /\ \A w \in Workers : w \in S => Cardinality(S \ {w}) = Cardinality(S) - 1
     /\ \A w \in Workers : w \notin S => Cardinality(S \cup {w}) = Cardinality(S) + 1
<1> SUFFICES ASSUME NEW S \in SUBSET Workers, NEW T \in SUBSET Workers
             PROVE  /\ IsFiniteSet(S) /\ Cardinality(S) \in Nat
                    /\ S \subseteq T => Cardinality(S) <= Cardinality(T)
                    /\ \A w \in Workers : w \in S => Cardinality(S \ {w}) = Cardinality(S) - 1
                    /\ \A w \in Workers : w \notin S => Cardinality(S \cup {w}) = Cardinality(S) + 1
  OBVIOUS
<1>1. IsFiniteSet(S) /\ IsFiniteSet(T) /\ Cardinality(S) \in Nat
  BY ConversationAssumption, FS_Subset, FS_CardinalityType
<1>2. S \subseteq T => Cardinality(S) <= Cardinality(T)
  BY <1>1, FS_Subset
<1>3. \A w \in Workers : w \in S => Cardinality(S \ {w}) = Cardinality(S) - 1
  BY <1>1, FS_RemoveElement
<1>4. \A w \in Workers : w \notin S => Cardinality(S \cup {w}) = Cardinality(S) + 1
  BY <1>1, FS_AddElement
<1> QED BY <1>1, <1>2, <1>3, <1>4

\* What the invariant says of the workers, in short.
LEMMA SlotFacts ==
  ASSUME IndInv
  PROVE  /\ faults \in Nat /\ faults <= MaxFaults
         /\ Late \in SUBSET Workers /\ Cardinality(Late) \in Nat /\ Cardinality(Late) <= faults
         /\ \A t \in Turns :
               /\ Coming(t) \in SUBSET Workers /\ Cardinality(Coming(t)) \in Nat
               /\ db.turn[t].attempts \in Nat
         /\ \A w \in Workers : worker[w] # Free =>
               /\ worker[w].pc \in {"claimed", "guarded", "calling"}
               /\ worker[w].turn \in Turns
               /\ db.job[worker[w].turn].state # "none" /\ db.turn[worker[w].turn].state # "none"
<1>1. Late \in SUBSET Workers /\ \A t \in Turns : Coming(t) \in SUBSET Workers
  BY DEF Late, Coming
<1>2. \A t \in Turns : db.turn[t] \in Untold
  BY DEF IndInv, Rows, Stored
<1>3. faults \in Nat /\ faults <= MaxFaults
  BY DEF IndInv, Typing
<1>4. Cardinality(Late) <= faults
  BY DEF IndInv, AttemptsAreAccountedFor
<1>5. \A w \in Workers : worker[w] # Free =>
        /\ worker[w].pc \in {"claimed", "guarded", "calling"}
        /\ worker[w].turn \in Turns
        /\ db.job[worker[w].turn].state # "none" /\ db.turn[worker[w].turn].state # "none"
  <2>1. \A w \in Workers : worker[w] # Free =>
          /\ worker[w].pc \in {"claimed", "guarded", "calling"}
          /\ worker[w].turn \in Turns /\ db.job[worker[w].turn].state # "none"
    BY DEF IndInv, Typing, SlotsAreKnown
  <2>2. \A t \in Turns : db.job[t].state # "none" => db.turn[t].state # "none"
    BY DEF IndInv, Rows, Stored, NoJob
  <2> QED BY <2>1, <2>2
<1> QED BY <1>1, <1>2, <1>3, <1>4, <1>5, CountedSlots DEF Untold

\* Jobs do not vanish or reopen, and a turn that has begun does not become pending.
NothingReopens ==
    \A u \in Turns : db.job[u].state # "none" =>
        /\ db'.job[u].state # "none" /\ (OpenJob(u)' => OpenJob(u))
        /\ db'.turn[u].state = "pending" => db.turn[u].state = "pending"

\* So the slots still work on what they worked on.
LEMMA SlotsStayKnown ==
  ASSUME IndInv, NothingReopens, worker' \in [Workers -> Slots],
         \A v \in Workers : worker'[v] # Free =>
            /\ worker[v] # Free /\ worker'[v].turn = worker[v].turn
            /\ worker'[v].pc \in {"claimed", "guarded", "calling"}
            /\ worker'[v].pc = "calling" =>
                  worker[v].pc = "calling" \/ db'.turn[worker[v].turn].state # "pending"
  PROVE  SlotsAreKnown'
<1> SUFFICES ASSUME NEW v \in Workers, worker'[v] # Free
             PROVE  /\ worker'[v].pc \in {"claimed", "guarded", "calling"} /\ worker'[v].turn \in Turns
                    /\ db'.job[worker'[v].turn].state # "none"
                    /\ worker'[v].pc = "calling" => db'.turn[worker'[v].turn].state # "pending"
                    /\ \A u \in Turns : u < worker'[v].turn => ~OpenJob(u)'
  BY DEF SlotsAreKnown
<1>1. /\ worker[v] # Free /\ worker'[v].turn = worker[v].turn
      /\ worker[v].turn \in Turns /\ db.job[worker[v].turn].state # "none"
  BY SlotFacts
<1>2. \A u \in Turns : u < worker[v].turn => ~OpenJob(u)'
  BY <1>1, EarlierJobsAreClosed DEF NothingReopens
<1>3. worker[v].pc = "calling" => db.turn[worker[v].turn].state # "pending"
  BY <1>1 DEF IndInv, Typing, SlotsAreKnown
<1> QED BY <1>1, <1>2, <1>3 DEF NothingReopens

\* A slot lets go of its turn: it changes no job but its own, and that one only under
\* its lease.
Leaves(w) ==
    LET t == worker[w].turn
    IN  /\ worker' = [worker EXCEPT ![w] = Free]
        /\ faults' = faults
        /\ guard' \in [Turns -> Workers \cup {Nobody}]
        /\ \A u \in Turns : guard'[u] = guard[u] \/ (guard[u] = w /\ guard'[u] = Nobody)
        /\ \A u \in Turns :
              /\ db.job[u].state # "none" =>
                    /\ ~(u = t /\ Fenced(db, w, t)) => db'.job[u] = db.job[u]
                    /\ db'.turn[u].attempts = db.turn[u].attempts
                    /\ db'.turn[u].state = "pending" => db.turn[u].state = "pending"
              /\ db.job[u].state = "none" =>
                    \/ db'.job[u] = db.job[u] /\ db'.turn[u].attempts = db.turn[u].attempts
                    \/ db'.job[u] = Queued /\ db'.turn[u].attempts = 0
        /\ Fenced(db, w, t) => db'.job[t].state \in {"queued", "completed"}

\* Every attempt stays accounted for: a job handed back after a call has budget left,
\* and what is left of it besides is late.
LEMMA LeavingIsAccountedFor ==
  ASSUME IndInv, NEW w \in Workers, worker[w] # Free, Leaves(w),
         Fenced(db, w, worker[w].turn) /\ db'.job[worker[w].turn].state = "queued" =>
            worker[w].pc = "claimed" \/ db.turn[worker[w].turn].attempts < MaxAttempts
  PROVE  AttemptsAreAccountedFor'
<1> DEFINE t == worker[w].turn
<1>1. /\ t \in Turns /\ t # 0 /\ db.job[t].state # "none"
      /\ worker \in [Workers -> Slots] /\ worker' = [worker EXCEPT ![w] = Free]
  BY SlotFacts DEF IndInv, Typing, Leaves, Turns
<1>2. worker'[w] = Free /\ \A v \in Workers \ {w} : worker'[v] = worker[v]
  BY <1>1
<1>3. ~Claims(w)'
  BY <1>2 DEF Claims
<1>4. ASSUME NEW v \in Workers \ {w} PROVE Claims(v)' <=> Claims(v)
  <2>1. CASE worker[v] = Free
    BY <1>2, <2>1 DEF Claims
  <2>2. CASE worker[v] # Free /\ worker[v].turn = t /\ Fenced(db, w, t)
    BY <1>1, <1>2, <2>2 DEF Claims, Fenced, Leaves
  <2>3. CASE worker[v] # Free /\ ~(worker[v].turn = t /\ Fenced(db, w, t))
    <3>1. worker[v].turn \in Turns /\ db.job[worker[v].turn].state # "none"
      BY <2>3, SlotFacts
    <3>2. db'.job[worker[v].turn] = db.job[worker[v].turn]
      BY <2>3, <3>1 DEF Leaves
    <3> QED BY <1>2, <3>2 DEF Claims, Fenced
  <2> QED BY <2>1, <2>2, <2>3
<1>5. Late' \subseteq Late
  BY <1>2, <1>4 DEF Late
<1>6. \A u \in Turns : Coming(u)' = Coming(u) \ {w}
  BY <1>2, <1>1 DEF Coming, Free
<1>7. Cardinality(Late') <= faults'
  <2>1. Cardinality(Late') \in Nat /\ Cardinality(Late') <= Cardinality(Late)
    BY <1>5, SlotFacts, CountedSlots
  <2> QED BY <2>1, SlotFacts DEF Leaves
<1>8. ASSUME NEW u \in Turns
      PROVE  db'.turn[u].attempts + Cardinality(Coming(u)') + (IF Due(u)' THEN 1 ELSE 0) <= MaxAttempts + faults
  <2> DEFINE a == db.turn[u].attempts
             c == Cardinality(Coming(u))
             cc == Cardinality(Coming(u)')
  <2>1. /\ a \in Nat /\ c \in Nat /\ cc \in Nat /\ cc <= c /\ faults \in Nat /\ MaxAttempts \in Nat
        /\ a + c + (IF Due(u) THEN 1 ELSE 0) <= MaxAttempts + faults
        /\ w \in Coming(u) => cc = c - 1
    <3>1. Coming(u)' \subseteq Coming(u) /\ Coming(u) \in SUBSET Workers
      BY <1>6, SlotFacts
    <3>2. cc \in Nat /\ cc <= c
      BY <3>1, CountedSlots
    <3>3. w \in Coming(u) => cc = c - 1
      BY <1>6, <3>1, CountedSlots
    <3> QED BY <3>2, <3>3, SlotFacts, Bounds DEF IndInv, AttemptsAreAccountedFor
  <2> HIDE DEF a, c, cc
  <2>2. CASE db.job[u].state = "none"
    <3>1. Coming(u) = {}
      BY <2>2, SlotFacts DEF Coming, Free
    <3>2. cc = 0
      BY <1>6, <3>1, FS_EmptySet DEF cc
    <3>3. db'.turn[u].attempts = 0
      <4>1. db.turn[u].attempts = 0
        BY <2>2 DEF IndInv, Rows, Stored, NoTurn
      <4> QED BY <2>2, <4>1 DEF Leaves
    <3> QED BY <2>1, <3>2, <3>3, Bounds DEF cc
  <2>3. CASE db.job[u].state # "none" /\ ~(u = t /\ Fenced(db, w, t))
    <3>1. db'.job[u] = db.job[u] /\ db'.turn[u].attempts = a
      BY <2>3 DEF Leaves, a
    <3>2. ~(Claims(w) /\ worker[w].turn = u)
      BY <2>3 DEF Claims
    <3>3. \A v \in Workers : (Claims(v) /\ worker[v].turn = u)' <=> Claims(v) /\ worker[v].turn = u
      <4> SUFFICES ASSUME NEW v \in Workers
                   PROVE  (Claims(v) /\ worker[v].turn = u)' <=> Claims(v) /\ worker[v].turn = u
        OBVIOUS
      <4>1. CASE v = w
        BY <1>3, <3>2, <4>1
      <4>2. CASE v # w
        BY <1>2, <1>4, <4>2
      <4> QED BY <4>1, <4>2
    <3>4. Due(u)' <=> Due(u)
      BY <3>1, <3>3 DEF Due, OpenJob
    <3> QED BY <2>1, <3>1, <3>4 DEF cc
  <2>4. CASE u = t /\ Fenced(db, w, t)
    <3>1. db'.turn[u].attempts = a
      BY <1>1, <2>4 DEF Leaves, a
    <3>2. CASE db'.job[t].state = "completed"
      <4>1. ~Due(u)'
        BY <2>4, <3>2 DEF Due, OpenJob
      <4> QED BY <2>1, <3>1, <4>1 DEF cc
    <3>3. CASE db'.job[t].state = "queued" /\ worker[w].pc = "claimed"
      <4>1. w \in Coming(u)
        BY <2>4, <3>3 DEF Coming
      <4> QED BY <2>1, <3>1, <4>1 DEF cc
    <3>4. CASE db.turn[t].attempts < MaxAttempts
      <4>1. Coming(u) \ {w} \subseteq Late
        BY <2>4 DEF Coming, Late, Claims, Fenced, Free
      <4>2. cc <= Cardinality(Late)
        BY <1>6, <4>1, SlotFacts, CountedSlots DEF cc
      <4> QED BY <2>1, <2>4, <3>1, <3>4, <4>2, SlotFacts DEF a, cc
    <3> QED BY <2>4, <3>2, <3>3, <3>4 DEF Leaves
  <2> QED BY <2>2, <2>3, <2>4
<1> QED BY <1>7, <1>8 DEF AttemptsAreAccountedFor, Leaves

\* A slot that leaves keeps types, guards and the slots of the others; it closes a job
\* only from inside the guard.
LEMMA LeavingKeeps ==
  ASSUME IndInv, NEW w \in Workers, worker[w] # Free, Leaves(w),
         Fenced(db, w, worker[w].turn) /\ db'.job[worker[w].turn].state = "completed" => Inside(w)
  PROVE  Typing' /\ GuardsHold'
<1> DEFINE t == worker[w].turn
<1>1. /\ t \in Turns /\ db.job[t].state # "none"
      /\ worker \in [Workers -> Slots] /\ worker' = [worker EXCEPT ![w] = Free] /\ Free \in Slots
      /\ guard \in [Turns -> Workers \cup {Nobody}]
  BY SlotFacts DEF IndInv, Typing, Leaves, Slots, Free
<1>2. worker'[w] = Free /\ (\A v \in Workers \ {w} : worker'[v] = worker[v]) /\ worker' \in [Workers -> Slots]
  BY <1>1
<1>3. NothingReopens
  <2> SUFFICES ASSUME NEW u \in Turns, db.job[u].state # "none"
               PROVE  /\ db'.job[u].state # "none" /\ (OpenJob(u)' => OpenJob(u))
                      /\ db'.turn[u].state = "pending" => db.turn[u].state = "pending"
    BY DEF NothingReopens
  <2>1. CASE u = t /\ Fenced(db, w, t)
    BY <2>1 DEF Leaves, Fenced, OpenJob
  <2>2. CASE ~(u = t /\ Fenced(db, w, t))
    BY <2>2 DEF Leaves, OpenJob
  <2> QED BY <2>1, <2>2
<1>4. SlotsAreKnown'
  BY <1>2, <1>3, SlotFacts, SlotsStayKnown
<1>5. guard' \in [Turns -> Workers \cup {Nobody}]
  BY DEF Leaves
<1>6. Typing'
  BY <1>2, <1>4, <1>5 DEF IndInv, Typing, Leaves
<1>7. ASSUME GuardMayBreak = FALSE, NEW v \in Workers, Inside(v)'
      PROVE  guard'[worker'[v].turn] = v /\ (worker'[v].pc = "calling" => OpenIn(db', worker'[v].turn))
  <2>1. v # w /\ worker'[v] = worker[v] /\ Inside(v)
    BY <1>2, <1>7 DEF Inside, Free
  <2>2. worker[v] # Free /\ worker[v].turn \in Turns /\ db.job[worker[v].turn].state # "none"
    BY <2>1, SlotFacts DEF Inside, Free
  <2>3. guard[worker[v].turn] = v /\ (worker[v].pc = "calling" => OpenJob(worker[v].turn))
    BY <1>7, <2>1 DEF IndInv, GuardsHold
  <2>4. guard'[worker[v].turn] = v
    BY <2>1, <2>2, <2>3 DEF Leaves
  <2>5. ASSUME worker[v].pc = "calling" PROVE OpenIn(db', worker[v].turn)
    <3>1. CASE worker[v].turn = t /\ Fenced(db, w, t)
      <4>1. ~Inside(w)
        BY <1>7, <2>1, <2>3, <3>1 DEF IndInv, GuardsHold
      <4> QED BY <3>1, <4>1 DEF Leaves, OpenIn
    <3>2. CASE ~(worker[v].turn = t /\ Fenced(db, w, t))
      <4>1. db'.job[worker[v].turn] = db.job[worker[v].turn]
        BY <2>2, <3>2 DEF Leaves
      <4> QED BY <2>3, <2>5, <4>1 DEF OpenJob, OpenIn
    <3> QED BY <3>1, <3>2
  <2> QED BY <2>1, <2>4, <2>5
<1>8. GuardsHold'
  BY <1>7 DEF GuardsHold, Inside, OpenJob, OpenIn
<1> QED BY <1>6, <1>8

\* The work on a turn that is over, or is ended now, is done.
Finishes(w) ==
    LET t == worker[w].turn
    IN  \E x \in {db, Settle(db, t, "completed"), Settle(db, t, "failed")} :
           /\ db' = Archive(x, w, t)
           /\ IF x = db THEN db.turn[t].state \in TurnOver ELSE db.turn[t].state \in ActiveTurn

\* complete and fail end the turn and drain what waited for it.
LEMMA SettleKeeps ==
  ASSUME RowsInv(db), NEW t \in Turns, db.turn[t].state \in ActiveTurn, NEW outcome \in {"completed", "failed"}
  PROVE  LET x == Settle(db, t, outcome)
         IN  /\ RowsInv(x)
             /\ x.turn[t] = [db.turn[t] EXCEPT !.state = outcome] /\ x.job[t] = db.job[t]
             /\ \A u \in Turns \ {t} : SameOrNew(db, x, u)
<1> DEFINE row == [db.turn[t] EXCEPT !.state = outcome]
           d == WithTurn(db, t, row)
           x == Settle(db, t, outcome)
<1>1. db.turn \in [Turns -> Untold] /\ db.turn[t] \in Untold /\ Rows(db)
  BY DEF RowsInv, Rows, Stored
<1>2. row \in Untold /\ row.state = outcome /\ row.retryOf = db.turn[t].retryOf
  BY <1>1 DEF Untold, TurnOver
<1>3. x = Drain(d)
  BY DEF Settle, WithTurn
<1> HIDE DEF row, x, d
<1>4. db.turn[t].state # "none" /\ row.state # "none" /\ row.state \notin ActiveTurn
  BY <1>2 DEF ActiveTurn
<1>5. Rows(d) /\ d.job = db.job /\ d.turn = [db.turn EXCEPT ![t] = row]
  BY <1>1, <1>2, <1>4, ChangedTurn DEF d
<1>6. d.turn[t] = row /\ \A u \in Turns \ {t} : d.turn[u] = db.turn[u]
  BY <1>1, <1>5
<1>7. ActiveTurnsAreServed(d)
  BY <1>4, <1>5, <1>6 DEF RowsInv, ActiveTurnsAreServed, OpenIn
<1>8. RowsInv(x) /\ Grown(d, x)
  BY <1>3, <1>5, <1>7, DrainKeeps DEF RowsInv
<1>9. x.turn[t] = row /\ x.job[t] = db.job[t]
  BY <1>4, <1>5, <1>6, <1>8 DEF Grown, SameOrNew
<1>10. \A u \in Turns \ {t} : SameOrNew(db, x, u)
  BY <1>5, <1>6, <1>8 DEF Grown, SameOrNew
<1> QED BY <1>8, <1>9, <1>10 DEF x, row

\* What finishing a turn does to the rows.
LEMMA FinishedRows ==
  ASSUME IndInv, NEW w \in Workers, worker[w] # Free, Finishes(w)
  PROVE  LET t == worker[w].turn
         IN  /\ RowsInv(db')
             /\ \A u \in Turns :
                   /\ db.turn[u].state \in TurnOver => db'.turn[u] = db.turn[u]
                   /\ db.job[u].state # "none" =>
                         /\ ~(u = t /\ Fenced(db, w, t)) => db'.job[u] = db.job[u]
                         /\ db'.turn[u].attempts = db.turn[u].attempts
                         /\ db'.turn[u].state = "pending" => db.turn[u].state = "pending"
                   /\ db.job[u].state = "none" =>
                         \/ db'.job[u] = db.job[u] /\ db'.turn[u].attempts = db.turn[u].attempts
                         \/ db'.job[u] = Queued /\ db'.turn[u].attempts = 0
             /\ Fenced(db, w, t) => db'.job[t].state = "completed"
<1> DEFINE t == worker[w].turn
<1>1. t \in Turns /\ db.turn[t].state # "none" /\ RowsInv(db) /\ db.turn \in [Turns -> Untold]
  BY SlotFacts DEF IndInv, RowsInv, Rows, Stored
<1>2. PICK x \in {db, Settle(db, t, "completed"), Settle(db, t, "failed")} :
        /\ db' = Archive(x, w, t)
        /\ IF x = db THEN db.turn[t].state \in TurnOver ELSE db.turn[t].state \in ActiveTurn
  BY DEF Finishes
<1> HIDE DEF t
<1>3. /\ RowsInv(x) /\ x.turn[t].state \in TurnOver /\ x.job[t] = db.job[t]
      /\ x.turn[t].attempts = db.turn[t].attempts
      /\ db.turn[t].state \in TurnOver => x.turn[t] = db.turn[t]
      /\ \A u \in Turns \ {t} : SameOrNew(db, x, u)
  <2>1. CASE x = db
    BY <1>1, <1>2, <2>1 DEF SameOrNew
  <2>2. CASE x # db
    <3>1. db.turn[t].state \in ActiveTurn /\ db.turn[t].state \notin TurnOver /\ db.turn[t] \in Untold
      BY <1>1, <1>2, <2>2 DEF ActiveTurn, TurnOver
    <3>2. PICK outcome \in {"completed", "failed"} : x = Settle(db, t, outcome)
      BY <1>2, <2>2
    <3>3. /\ RowsInv(x)
          /\ x.turn[t] = [db.turn[t] EXCEPT !.state = outcome] /\ x.job[t] = db.job[t]
          /\ \A u \in Turns \ {t} : SameOrNew(db, x, u)
      BY <1>1, <3>1, <3>2, SettleKeeps
    <3>4. x.turn[t].state \in TurnOver /\ x.turn[t].attempts = db.turn[t].attempts
      BY <3>1, <3>3 DEF TurnOver, Untold
    <3> QED BY <3>1, <3>3, <3>4
  <2> QED BY <2>1, <2>2
<1>4. /\ Rows(db') /\ NewestTurn(db') = NewestTurn(x) /\ QueuedMessages(db') = QueuedMessages(x)
      /\ db'.turn = x.turn
      /\ \A u \in Turns \ {t} : db'.job[u] = x.job[u]
      /\ ~Fenced(x, w, t) => db'.job[t] = x.job[t]
      /\ Fenced(x, w, t) => db'.job[t].state = "completed"
  BY <1>1, <1>2, <1>3, ClosedJob DEF RowsInv
<1>5. Fenced(x, w, t) <=> Fenced(db, w, t)
  BY <1>3 DEF Fenced
<1>6. NobodyWaitsInVain(db')
  BY <1>3, <1>4 DEF RowsInv, NobodyWaitsInVain
<1>7. ActiveTurnsAreServed(db')
  <2>1. db'.turn[t].state \notin ActiveTurn
    BY <1>3, <1>4 DEF ActiveTurn, TurnOver
  <2> QED BY <1>3, <1>4, <2>1 DEF RowsInv, ActiveTurnsAreServed, OpenIn, SameOrNew
<1>8. \A r \in Turns \cup {0} : Pending(r).attempts = 0
  BY DEF Pending
<1>9. ASSUME NEW u \in Turns
      PROVE  /\ db.turn[u].state \in TurnOver => db'.turn[u] = db.turn[u]
             /\ db.job[u].state # "none" =>
                   /\ ~(u = t /\ Fenced(db, w, t)) => db'.job[u] = db.job[u]
                   /\ db'.turn[u].attempts = db.turn[u].attempts
                   /\ db'.turn[u].state = "pending" => db.turn[u].state = "pending"
             /\ db.job[u].state = "none" =>
                   \/ db'.job[u] = db.job[u] /\ db'.turn[u].attempts = db.turn[u].attempts
                   \/ db'.job[u] = Queued /\ db'.turn[u].attempts = 0
  <2>1. CASE u = t
    <3>1. db.job[u].state # "none"
      BY <1>1, <2>1 DEF RowsInv, Rows, Stored
    <3>2. ~Fenced(db, w, t) => db'.job[u] = db.job[u]
      BY <1>3, <1>4, <1>5, <2>1
    <3>3. db'.turn[u] = x.turn[u] /\ x.turn[u].state # "pending"
      BY <1>3, <1>4, <2>1 DEF TurnOver
    <3> QED BY <1>3, <2>1, <3>1, <3>2, <3>3
  <2>2. CASE u # t /\ x.turn[u] = db.turn[u] /\ x.job[u] = db.job[u]
    BY <1>4, <2>2
  <2>3. CASE /\ u # t /\ db.turn[u].state = "none" /\ db.job[u].state = "none"
             /\ x.job[u] = Queued /\ \E r \in Turns \cup {0} : x.turn[u] = Pending(r)
    BY <1>4, <1>8, <2>3 DEF TurnOver
  <2> QED BY <1>3, <2>1, <2>2, <2>3 DEF SameOrNew
<1> QED BY <1>4, <1>5, <1>6, <1>7, <1>9 DEF RowsInv, t

\* So finishing keeps the invariant.
LEMMA FinishKeeps ==
  ASSUME IndInv, NEW w \in Workers, Inside(w), Finishes(w), LeaveGuard(w), UNCHANGED faults
  PROVE  IndInv'
<1>1. worker[w] # Free /\ worker \in [Workers -> Slots] /\ guard \in [Turns -> Workers \cup {Nobody}]
  BY DEF Inside, Free, IndInv, Typing
<1>2. RowsInv(db')
  BY <1>1, FinishedRows
<1>3. /\ worker' = [worker EXCEPT ![w] = Free]
      /\ \A u \in Turns : guard'[u] = guard[u] \/ (guard[u] = w /\ guard'[u] = Nobody)
      /\ guard' \in [Turns -> Workers \cup {Nobody}]
  BY <1>1 DEF LeaveGuard
<1>4. Leaves(w)
  <2> HIDE DEF Finishes
  <2> QED BY <1>1, <1>3, FinishedRows DEF Leaves
<1>5. Typing' /\ GuardsHold'
  BY <1>1, <1>4, LeavingKeeps
<1>6. Fenced(db, w, worker[w].turn) => db'.job[worker[w].turn].state # "queued"
  BY <1>1, FinishedRows
<1>7. AttemptsAreAccountedFor'
  BY <1>1, <1>4, <1>6, LeavingIsAccountedFor
<1> QED BY <1>2, <1>5, <1>7 DEF IndInv, RowsInv

\* A job that is handed back leaves the rows alone.
LEMMA HandBackKeeps ==
  ASSUME IndInv, NEW w \in Workers, worker[w] # Free,
         db' = ReleaseJob(db, w, worker[w].turn), worker' = [worker EXCEPT ![w] = Free], UNCHANGED faults,
         guard' \in [Turns -> Workers \cup {Nobody}],
         \A u \in Turns : guard'[u] = guard[u] \/ (guard[u] = w /\ guard'[u] = Nobody),
         worker[w].pc = "claimed" \/ db.turn[worker[w].turn].attempts < MaxAttempts
  PROVE  IndInv' /\ db'.turn = db.turn
<1> DEFINE t == worker[w].turn
<1>1. t \in Turns /\ Rows(db)
  BY SlotFacts DEF IndInv
<1>2. /\ Rows(db') /\ NewestTurn(db') = NewestTurn(db) /\ QueuedMessages(db') = QueuedMessages(db)
      /\ db'.turn = db.turn
      /\ \A u \in Turns \ {t} : db'.job[u] = db.job[u]
      /\ ~Fenced(db, w, t) => db'.job[t] = db.job[t]
      /\ Fenced(db, w, t) => db'.job[t].state = "queued"
  BY <1>1, HandedBackJob
<1>3. Leaves(w)
  <2>1. db.job[t].state = "none" => ~Fenced(db, w, t)
    BY DEF Fenced
  <2>2. \A u \in Turns : ~(u = t /\ Fenced(db, w, t)) => db'.job[u] = db.job[u]
    BY <1>2
  <2> QED BY <1>2, <2>1, <2>2 DEF Leaves
<1>4. NobodyWaitsInVain(db')
  BY <1>2 DEF IndInv, NobodyWaitsInVain
<1>5. ActiveTurnsAreServed(db')
  BY <1>2 DEF IndInv, ActiveTurnsAreServed, OpenIn, Fenced
<1>6. Typing' /\ GuardsHold'
  BY <1>2, <1>3, LeavingKeeps
<1>7. AttemptsAreAccountedFor'
  BY <1>3, LeavingIsAccountedFor
<1> QED BY <1>2, <1>4, <1>5, <1>6, <1>7 DEF IndInv

\* read batch: an idle slot claims the head of the conversation.
LEMMA ReadBatchKeeps ==
  ASSUME IndInv, NEW w \in Workers, ReadBatch(w)
  PROVE  IndInv' /\ db'.turn = db.turn
<1> DEFINE row == [state |-> "running", owner |-> w, live |-> TRUE]
           slot(t) == [pc |-> "claimed", turn |-> t]
<1>1. PICK t \in Turns :
        /\ worker[w] = Free /\ HeadJob(t) /\ (db.job[t].state = "queued" \/ ~db.job[t].live)
        /\ db' = [db EXCEPT !.job[t] = row] /\ worker' = [worker EXCEPT ![w] = slot(t)]
        /\ UNCHANGED <<guard, faults>>
  BY DEF ReadBatch
<1>2. row \in JobRows /\ row.state = "running" /\ row.owner = w /\ row.live = TRUE
  BY DEF JobRows
<1>3. slot(t) \in Slots /\ slot(t) # Free /\ slot(t).pc = "claimed" /\ slot(t).turn = t
  BY DEF Slots, Free
<1>4. db' = WithJob(db, t, row)
  BY <1>1 DEF WithJob
<1> HIDE DEF row, slot
<1>5. OpenJob(t) /\ \A u \in Turns : u < t => ~OpenJob(u)
  BY <1>1 DEF HeadJob
<1>6. db.job[t].state # "none" /\ db.turn[t].state # "none" /\ Rows(db) /\ db.job \in [Turns -> JobRows]
  <2>1. db.job[t].state # "none"
    BY <1>5 DEF OpenJob
  <2>2. db.turn[t].state = "none" => db.job[t].state = "none"
    BY DEF IndInv, Rows, Stored, NoJob
  <2>3. Rows(db) /\ db.job \in [Turns -> JobRows]
    BY DEF IndInv, Rows, Stored
  <2> QED BY <2>1, <2>2, <2>3
<1>7. /\ Rows(db') /\ NewestTurn(db') = NewestTurn(db) /\ QueuedMessages(db') = QueuedMessages(db)
      /\ db'.turn = db.turn /\ db'.job = [db.job EXCEPT ![t] = row]
  <2>1. row.state # "none" /\ row.owner \in Workers
    BY <1>2
  <2> QED BY <1>2, <1>4, <1>6, <2>1, ChangedJob
<1>8. db'.job[t] = row /\ \A u \in Turns \ {t} : db'.job[u] = db.job[u]
  BY <1>6, <1>7
<1>9. /\ worker'[w] = slot(t) /\ \A v \in Workers \ {w} : worker'[v] = worker[v]
      /\ worker' \in [Workers -> Slots]
  BY <1>1, <1>3 DEF IndInv, Typing
<1>10. NobodyWaitsInVain(db')
  BY <1>7 DEF IndInv, NobodyWaitsInVain
<1>11. ActiveTurnsAreServed(db')
  BY <1>2, <1>7, <1>8 DEF IndInv, ActiveTurnsAreServed, OpenIn
<1>12. SlotsAreKnown'
  <2> SUFFICES ASSUME NEW v \in Workers, worker'[v] # Free
               PROVE  /\ worker'[v].pc \in {"claimed", "guarded", "calling"} /\ worker'[v].turn \in Turns
                      /\ db'.job[worker'[v].turn].state # "none"
                      /\ worker'[v].pc = "calling" => db'.turn[worker'[v].turn].state # "pending"
                      /\ \A u \in Turns : u < worker'[v].turn => ~OpenJob(u)'
    BY DEF SlotsAreKnown
  <2>1. \A u \in Turns : OpenJob(u)' <=> OpenJob(u)
    BY <1>2, <1>5, <1>8 DEF OpenJob
  <2>2. \A u \in Turns : db.job[u].state # "none" => db'.job[u].state # "none"
    BY <1>2, <1>8
  <2>3. CASE v = w
    BY <1>2, <1>3, <1>5, <1>8, <1>9, <2>1, <2>3
  <2>4. CASE v # w
    BY <1>7, <1>9, <2>1, <2>2, <2>4 DEF IndInv, Typing, SlotsAreKnown
  <2> QED BY <2>3, <2>4
<1>13. Typing'
  BY <1>1, <1>9, <1>12 DEF IndInv, Typing
<1>14. GuardsHold'
  <2> SUFFICES ASSUME GuardMayBreak = FALSE, NEW v \in Workers
               PROVE  /\ Inside(v)' => guard'[worker'[v].turn] = v
                      /\ worker'[v].pc = "calling" => OpenIn(db', worker'[v].turn)
    BY DEF GuardsHold, OpenJob, OpenIn
  <2>1. CASE v = w
    BY <1>3, <1>9, <2>1 DEF Inside
  <2>2. CASE v # w
    <3>1. worker'[v] = worker[v] /\ guard' = guard
      BY <1>1, <1>9, <2>2
    <3>2. Inside(v) => guard[worker[v].turn] = v
      BY DEF IndInv, GuardsHold
    <3>3. worker[v].pc = "calling" => OpenIn(db', worker[v].turn)
      <4> SUFFICES ASSUME worker[v].pc = "calling" PROVE OpenIn(db', worker[v].turn)
        OBVIOUS
      <4>1. OpenJob(worker[v].turn) /\ worker[v].turn \in Turns
        <5>1. worker[v] # Free
          BY DEF Free
        <5>2. OpenJob(worker[v].turn)
          BY DEF IndInv, GuardsHold
        <5> QED BY <5>1, <5>2, SlotFacts
      <4> QED BY <1>2, <1>8, <4>1 DEF OpenJob, OpenIn
    <3> QED BY <3>1, <3>2, <3>3 DEF Inside
  <2> QED BY <2>1, <2>2
<1>15. \A v \in Workers : ~(Claims(v) /\ worker[v].turn = t)
  BY <1>1 DEF Claims, Fenced
<1>16. Claims(w)' /\ ~Claims(w)
  BY <1>1, <1>2, <1>3, <1>8, <1>9 DEF Claims, Fenced
<1>17. ASSUME NEW v \in Workers \ {w}
       PROVE  Claims(v)' <=> Claims(v)
  <2>1. CASE worker[v] = Free
    BY <1>9, <2>1 DEF Claims
  <2>2. CASE worker[v].turn = t
    BY <1>2, <1>8, <1>9, <1>15, <2>2 DEF Claims, Fenced
  <2>3. CASE worker[v] # Free /\ worker[v].turn # t
    <3>1. db'.job[worker[v].turn] = db.job[worker[v].turn]
      BY <1>8, <2>3, SlotFacts
    <3> QED BY <1>9, <3>1 DEF Claims, Fenced
  <2> QED BY <2>1, <2>2, <2>3
<1>18. Late' \subseteq Late
  BY <1>9, <1>16, <1>17 DEF Late
<1>19. Cardinality(Late') <= faults'
  <2>1. Cardinality(Late') \in Nat /\ Cardinality(Late') <= Cardinality(Late)
    BY <1>18, SlotFacts, CountedSlots
  <2> QED BY <1>1, <2>1, SlotFacts
<1>20. ASSUME NEW u \in Turns
       PROVE  db'.turn[u].attempts + Cardinality(Coming(u)') + (IF Due(u)' THEN 1 ELSE 0) <= MaxAttempts + faults
  <2>1. db.turn[u].attempts + Cardinality(Coming(u)) + (IF Due(u) THEN 1 ELSE 0) <= MaxAttempts + faults
    BY DEF IndInv, AttemptsAreAccountedFor
  <2>2. w \notin Coming(u) /\ Coming(u) \in SUBSET Workers
    BY <1>1, SlotFacts DEF Coming, Free
  <2>3. CASE u = t
    <3>1. Coming(u)' = Coming(u) \cup {w}
      BY <1>3, <1>9, <2>3 DEF Coming
    <3>2. Cardinality(Coming(u)') = Cardinality(Coming(u)) + 1
      BY <2>2, <3>1, CountedSlots
    <3>3. Due(u) /\ ~Due(u)'
      BY <1>3, <1>5, <1>9, <1>15, <1>16, <2>3 DEF Due
    <3>4. db.turn[u].attempts + Cardinality(Coming(u)) + 1 <= MaxAttempts + faults
      BY <2>1, <3>3
    <3>5. db.turn[u].attempts \in Nat /\ Cardinality(Coming(u)) \in Nat
      BY SlotFacts
    <3>6. faults \in Nat /\ MaxAttempts \in Nat
      BY SlotFacts, Bounds
    <3>7. db'.turn[u].attempts = db.turn[u].attempts
      BY <1>7
    <3>8. db'.turn[u].attempts + Cardinality(Coming(u)') <= MaxAttempts + faults
      BY <3>2, <3>4, <3>5, <3>6, <3>7
    <3>9. Cardinality(Coming(u)') \in Nat
      BY <3>2, <3>5
    <3> QED BY <3>3, <3>5, <3>7, <3>8, <3>9
  <2>4. CASE u # t
    <3>1. Coming(u)' = Coming(u)
      BY <1>3, <1>9, <2>2, <2>4 DEF Coming
    <3>2. ~(Claims(w) /\ worker[w].turn = u) /\ ~(Claims(w) /\ worker[w].turn = u)'
      BY <1>3, <1>9, <1>16, <2>4
    <3>3. \A v \in Workers : (Claims(v) /\ worker[v].turn = u)' <=> Claims(v) /\ worker[v].turn = u
      <4> SUFFICES ASSUME NEW v \in Workers
                   PROVE  (Claims(v) /\ worker[v].turn = u)' <=> Claims(v) /\ worker[v].turn = u
        OBVIOUS
      <4>1. CASE v = w
        BY <3>2, <4>1
      <4>2. CASE v # w
        BY <1>9, <1>17, <4>2
      <4> QED BY <4>1, <4>2
    <3>4. Due(u)' <=> Due(u)
      BY <1>8, <2>4, <3>3 DEF Due, OpenJob
    <3> QED BY <1>7, <2>1, <3>1, <3>4
  <2> QED BY <2>3, <2>4
<1>21. AttemptsAreAccountedFor'
  BY <1>1, <1>19, <1>20 DEF AttemptsAreAccountedFor
<1> QED BY <1>7, <1>10, <1>11, <1>13, <1>14, <1>21 DEF IndInv

\* The advisory lock of the turn is free: the slot takes it.
TakesGuard(w) ==
    /\ worker[w].pc = "claimed"
    /\ guard[worker[w].turn] = Nobody
    /\ guard' = [guard EXCEPT ![worker[w].turn] = w]
    /\ worker' = [worker EXCEPT ![w].pc = "guarded"]
    /\ UNCHANGED <<db, faults>>

\* execute: one slot at a time is past the guard of a turn.
LEMMA TakeGuardKeeps ==
  ASSUME IndInv, NEW w \in Workers, TakesGuard(w)
  PROVE  IndInv'
<1> DEFINE t == worker[w].turn
           slot == [worker[w] EXCEPT !.pc = "guarded"]
<1>1. /\ worker[w] # Free /\ worker \in [Workers -> Slots] /\ worker[w] \in Slots
      /\ guard \in [Turns -> Workers \cup {Nobody}]
  BY DEF TakesGuard, Free, IndInv, Typing
<1>2. t \in Turns
  BY <1>1, SlotFacts
<1>3. slot \in Slots /\ slot.pc = "guarded" /\ slot.turn = t /\ slot # Free
  BY <1>1 DEF Slots, Free
<1>4. db' = db /\ faults' = faults
  BY DEF TakesGuard
<1>5. /\ worker' = [worker EXCEPT ![w] = slot] /\ guard' = [guard EXCEPT ![t] = w] /\ guard[t] = Nobody
      /\ worker[w].pc = "claimed"
  BY <1>1 DEF TakesGuard
<1> HIDE DEF slot
<1>6. /\ worker'[w] = slot /\ (\A v \in Workers \ {w} : worker'[v] = worker[v]) /\ worker' \in [Workers -> Slots]
      /\ guard'[t] = w /\ (\A u \in Turns \ {t} : guard'[u] = guard[u])
      /\ guard' \in [Turns -> Workers \cup {Nobody}]
  BY <1>1, <1>2, <1>3, <1>5
<1>7. \A v \in Workers : (worker'[v] # Free <=> worker[v] # Free) /\ worker'[v].turn = worker[v].turn
  BY <1>1, <1>3, <1>6
<1>8. Typing'
  <2>1. NothingReopens
    BY <1>4 DEF NothingReopens, OpenJob
  <2>2. ASSUME NEW v \in Workers, worker'[v] # Free
        PROVE  /\ worker[v] # Free /\ worker'[v].turn = worker[v].turn
               /\ worker'[v].pc \in {"claimed", "guarded", "calling"}
               /\ worker'[v].pc = "calling" => worker[v].pc = "calling"
    BY <1>3, <1>6, <1>7, <2>2, SlotFacts
  <2>3. SlotsAreKnown'
    BY <1>6, <2>1, <2>2, SlotsStayKnown
  <2> QED BY <1>4, <1>6, <2>3 DEF IndInv, Typing
<1>9. GuardsHold'
  <2> SUFFICES ASSUME GuardMayBreak = FALSE, NEW v \in Workers
               PROVE  /\ Inside(v)' => guard'[worker'[v].turn] = v
                      /\ worker'[v].pc = "calling" => OpenIn(db', worker'[v].turn)
    BY DEF GuardsHold, OpenJob, OpenIn
  <2>1. CASE v = w
    BY <1>3, <1>6, <2>1 DEF Inside
  <2>2. CASE v # w
    <3>1. worker'[v] = worker[v]
      BY <1>6, <2>2
    <3>2. Inside(v) => guard[worker[v].turn] = v /\ worker[v].turn \in Turns
      <4>1. Inside(v) => worker[v] # Free
        BY DEF Inside, Free
      <4>2. Inside(v) => guard[worker[v].turn] = v
        BY DEF IndInv, GuardsHold
      <4> QED BY <4>1, <4>2, SlotFacts
    <3>3. Inside(v) => worker[v].turn # t
      BY <1>5, <3>2, ConversationAssumption
    <3>4. worker[v].pc = "calling" => OpenIn(db', worker[v].turn)
      BY <1>4 DEF IndInv, GuardsHold, OpenJob, OpenIn
    <3> QED BY <1>6, <3>1, <3>2, <3>3, <3>4 DEF Inside
  <2> QED BY <2>1, <2>2
<1>10. AttemptsAreAccountedFor'
  <2>1. \A u \in Turns : Coming(u)' = Coming(u)
    BY <1>3, <1>5, <1>6 DEF Coming
  <2>2. \A v \in Workers : Claims(v)' <=> Claims(v)
    BY <1>4, <1>7 DEF Claims, Fenced
  <2>3. Late' = Late /\ \A u \in Turns : Due(u)' <=> Due(u)
    BY <1>4, <1>7, <2>2 DEF Late, Due, OpenJob
  <2> QED BY <1>4, <2>1, <2>3 DEF IndInv, AttemptsAreAccountedFor
<1> QED BY <1>4, <1>8, <1>9, <1>10 DEF IndInv

\* The turn runs, one attempt more.
Runs(w) ==
    LET t == worker[w].turn
    IN  /\ worker[w].pc = "guarded" /\ db.turn[t].state \in ActiveTurn
        /\ db' = [db EXCEPT !.turn[t].state = "running", !.turn[t].attempts = @ + 1]
        /\ worker' = [worker EXCEPT ![w].pc = "calling"]
        /\ UNCHANGED <<guard, faults>>

\* The attempt was coming; now it is made.
LEMMA RunKeeps ==
  ASSUME IndInv, NEW w \in Workers, Runs(w)
  PROVE  /\ IndInv'
         /\ \A u \in Turns : db.turn[u].state \in TurnOver => db'.turn[u] = db.turn[u]
<1> DEFINE t == worker[w].turn
           row == [db.turn[t] EXCEPT !.state = "running", !.attempts = @ + 1]
           slot == [worker[w] EXCEPT !.pc = "calling"]
<1>1. /\ worker[w] # Free /\ worker \in [Workers -> Slots] /\ worker[w] \in Slots
      /\ worker[w].pc = "guarded" /\ db.turn[t].state \in ActiveTurn
  BY DEF Runs, Free, IndInv, Typing
<1>2. t \in Turns /\ db.turn \in [Turns -> Untold] /\ db.turn[t] \in Untold /\ Rows(db)
  BY <1>1, SlotFacts DEF IndInv, Rows, Stored
<1>3. /\ row \in Untold /\ row.state = "running" /\ row.retryOf = db.turn[t].retryOf
      /\ row.attempts = db.turn[t].attempts + 1
  <2>1. /\ db.turn[t].attempts + 1 \in Nat
        /\ "running" \in {"none"} \cup ActiveTurn \cup TurnOver
    BY <1>2 DEF Untold, ActiveTurn
  <2>2. [db.turn[t] EXCEPT !.state = "running"] \in Untold
    BY <1>2, <2>1 DEF Untold
  <2>3. row = [[db.turn[t] EXCEPT !.state = "running"] EXCEPT !.attempts = db.turn[t].attempts + 1]
    BY <1>2 DEF Untold
  <2>4. row.state = "running" /\ row.retryOf = db.turn[t].retryOf /\ row.attempts = db.turn[t].attempts + 1
    BY <1>2 DEF Untold
  <2>5. row \in Untold
    BY <2>1, <2>2, <2>3 DEF Untold
  <2> QED BY <2>4, <2>5
<1>4. slot \in Slots /\ slot.pc = "calling" /\ slot.turn = t /\ slot # Free
  BY <1>1 DEF Slots, Free
<1>5. db' = WithTurn(db, t, row)
  BY <1>2 DEF Runs, WithTurn, Rows, Stored
<1>6. worker' = [worker EXCEPT ![w] = slot] /\ guard' = guard /\ faults' = faults
  BY <1>1 DEF Runs
<1> HIDE DEF slot, row
<1>7. /\ Rows(db') /\ NewestTurn(db') = NewestTurn(db) /\ QueuedMessages(db') = QueuedMessages(db)
      /\ db'.job = db.job /\ db'.turn = [db.turn EXCEPT ![t] = row]
  <2>1. db.turn[t].state # "none" /\ row.state # "none"
    BY <1>1, <1>3 DEF ActiveTurn
  <2> QED BY <1>1, <1>2, <1>3, <1>5, <2>1, ChangedTurn
<1>8. db'.turn[t] = row /\ \A u \in Turns \ {t} : db'.turn[u] = db.turn[u]
  BY <1>2, <1>7
<1>9. \A u \in Turns : db.turn[u].state \in TurnOver => db'.turn[u] = db.turn[u]
  BY <1>1, <1>8 DEF ActiveTurn, TurnOver
<1>10. /\ worker'[w] = slot /\ (\A v \in Workers \ {w} : worker'[v] = worker[v]) /\ worker' \in [Workers -> Slots]
  BY <1>1, <1>4, <1>6
<1>11. \A v \in Workers : (worker'[v] # Free <=> worker[v] # Free) /\ worker'[v].turn = worker[v].turn
  BY <1>1, <1>4, <1>10
<1>12. NobodyWaitsInVain(db')
  <2>1. db'.turn[t].state \in ActiveTurn
    BY <1>3, <1>8 DEF ActiveTurn
  <2> QED BY <1>7, <1>8, <2>1 DEF IndInv, NobodyWaitsInVain
<1>13. ActiveTurnsAreServed(db')
  BY <1>1, <1>7, <1>8 DEF IndInv, ActiveTurnsAreServed, OpenIn
<1>14. Typing'
  <2>1. NothingReopens
    BY <1>3, <1>7, <1>8 DEF NothingReopens, OpenJob
  <2>2. ASSUME NEW v \in Workers, worker'[v] # Free
        PROVE  /\ worker[v] # Free /\ worker'[v].turn = worker[v].turn
               /\ worker'[v].pc \in {"claimed", "guarded", "calling"}
               /\ worker'[v].pc = "calling" =>
                     worker[v].pc = "calling" \/ db'.turn[worker[v].turn].state # "pending"
    BY <1>3, <1>4, <1>8, <1>10, <1>11, <2>2, SlotFacts
  <2>3. SlotsAreKnown'
    BY <1>10, <2>1, <2>2, SlotsStayKnown
  <2> QED BY <1>6, <1>10, <2>3 DEF IndInv, Typing
<1>15. GuardsHold'
  <2> SUFFICES ASSUME GuardMayBreak = FALSE, NEW v \in Workers
               PROVE  /\ Inside(v)' => guard'[worker'[v].turn] = v
                      /\ worker'[v].pc = "calling" => OpenIn(db', worker'[v].turn)
    BY DEF GuardsHold, OpenJob, OpenIn
  <2>1. CASE v = w
    <3>1. guard[t] = w
      BY <1>1 DEF IndInv, GuardsHold, Inside
    <3>2. OpenIn(db', t)
      BY <1>1, <1>2, <1>7 DEF IndInv, ActiveTurnsAreServed, OpenIn
    <3> QED BY <1>4, <1>6, <1>10, <2>1, <3>1, <3>2
  <2>2. CASE v # w
    <3>1. worker'[v] = worker[v]
      BY <1>10, <2>2
    <3> QED BY <1>6, <1>7, <3>1 DEF IndInv, GuardsHold, Inside, OpenJob, OpenIn
  <2> QED BY <2>1, <2>2
<1>16. AttemptsAreAccountedFor'
  <2>1. \A v \in Workers : Claims(v)' <=> Claims(v)
    BY <1>7, <1>11 DEF Claims, Fenced
  <2>2. Late' = Late /\ \A u \in Turns : Due(u)' <=> Due(u)
    BY <1>7, <1>11, <2>1 DEF Late, Due, OpenJob
  <2>3. ASSUME NEW u \in Turns
        PROVE  db'.turn[u].attempts + Cardinality(Coming(u)') + (IF Due(u)' THEN 1 ELSE 0) <= MaxAttempts + faults
    <3>1. db.turn[u].attempts + Cardinality(Coming(u)) + (IF Due(u) THEN 1 ELSE 0) <= MaxAttempts + faults
      BY DEF IndInv, AttemptsAreAccountedFor
    <3>2. CASE u = t
      <4>1. w \in Coming(u) /\ Coming(u)' = Coming(u) \ {w}
        BY <1>1, <1>4, <1>10, <3>2 DEF Coming
      <4>2. Cardinality(Coming(u)') = Cardinality(Coming(u)) - 1
        BY <4>1, SlotFacts, CountedSlots
      <4>3. db.turn[u].attempts \in Nat /\ Cardinality(Coming(u)) \in Nat /\ db'.turn[u].attempts = db.turn[u].attempts + 1
        BY <1>3, <1>8, <3>2, SlotFacts
      <4>4. db'.turn[u].attempts + Cardinality(Coming(u)') = db.turn[u].attempts + Cardinality(Coming(u))
        BY <4>2, <4>3
      <4> QED BY <2>2, <3>1, <4>4
    <3>3. CASE u # t
      <4>1. Coming(u)' = Coming(u)
        BY <1>4, <1>10, <3>3 DEF Coming
      <4> QED BY <1>8, <2>2, <3>1, <3>3, <4>1
    <3> QED BY <3>2, <3>3
  <2> QED BY <1>6, <2>2, <2>3 DEF IndInv, AttemptsAreAccountedFor
<1> QED BY <1>7, <1>9, <1>12, <1>13, <1>14, <1>15, <1>16 DEF IndInv

-----------------------------------------------------------------------------
(* Faults.                                                                 *)

\* A fault pays for the attempt that is lost, and for the claim that is late.
LEMMA FaultPays ==
  ASSUME IndInv, faults' = faults + 1, \A u \in Turns : db'.turn[u].attempts = db.turn[u].attempts,
         \A u \in Turns : Coming(u)' \subseteq Coming(u),
         NEW w \in Workers, Late' \subseteq Late \cup {w}
  PROVE  AttemptsAreAccountedFor'
<1>1. Cardinality(Late') <= faults'
  <2>1. /\ Late \cup {w} \in SUBSET Workers /\ Late' \in SUBSET Workers
        /\ Cardinality(Late) \in Nat /\ Cardinality(Late) <= faults /\ faults \in Nat
    BY SlotFacts
  <2>2. Cardinality(Late') <= Cardinality(Late \cup {w}) /\ Cardinality(Late') \in Nat
    BY <2>1, CountedSlots
  <2>3. Cardinality(Late \cup {w}) <= Cardinality(Late) + 1
    <3>1. CASE w \in Late
      <4>1. Cardinality(Late \cup {w}) = Cardinality(Late)
        <5>1. Late \cup {w} = Late
          BY <3>1
        <5> QED BY <5>1
      <4> QED BY <2>1, <4>1
    <3>2. CASE w \notin Late
      <4>1. Cardinality(Late \cup {w}) = Cardinality(Late) + 1
        BY <2>1, <3>2, SlotFacts, CountedSlots
      <4> QED BY <2>1, <4>1
    <3> QED BY <3>1, <3>2
  <2>4. Cardinality(Late \cup {w}) \in Nat
    BY <2>1, CountedSlots
  <2> QED BY <2>1, <2>2, <2>3, <2>4
<1>2. ASSUME NEW u \in Turns
      PROVE  db'.turn[u].attempts + Cardinality(Coming(u)') + (IF Due(u)' THEN 1 ELSE 0) <= MaxAttempts + faults'
  <2>1. db.turn[u].attempts + Cardinality(Coming(u)) + (IF Due(u) THEN 1 ELSE 0) <= MaxAttempts + faults
    BY DEF IndInv, AttemptsAreAccountedFor
  <2>2. Cardinality(Coming(u)') \in Nat /\ Cardinality(Coming(u)') <= Cardinality(Coming(u))
    BY SlotFacts, CountedSlots
  <2>3. /\ db.turn[u].attempts \in Nat /\ Cardinality(Coming(u)) \in Nat /\ faults \in Nat /\ MaxAttempts \in Nat
        /\ db'.turn[u].attempts = db.turn[u].attempts
    BY SlotFacts, Bounds
  <2>4. db.turn[u].attempts + Cardinality(Coming(u)) <= MaxAttempts + faults
    BY <2>1, <2>3
  <2>5. db'.turn[u].attempts + Cardinality(Coming(u)') + 1 <= MaxAttempts + faults'
    BY <2>2, <2>3, <2>4
  <2> QED BY <2>2, <2>3, <2>5
<1> QED BY <1>1, <1>2 DEF AttemptsAreAccountedFor

\* crash: the slot is gone; its job is due again once the lease runs out.
LEMMA CrashKeeps ==
  ASSUME IndInv, NEW w \in Workers, Crash(w)
  PROVE  IndInv'
<1>1. /\ worker[w] # Free /\ faults < MaxFaults /\ faults' = faults + 1 /\ db' = db
      /\ worker' = [worker EXCEPT ![w] = Free] /\ worker \in [Workers -> Slots] /\ Free \in Slots
      /\ guard' = [t \in Turns |-> IF guard[t] = w THEN Nobody ELSE guard[t]]
      /\ guard \in [Turns -> Workers \cup {Nobody}]
      /\ faults \in Nat /\ faults' \in 0 .. MaxFaults
  BY Bounds DEF Crash, LeaveGuard, IndInv, Typing, Slots, Free
<1>2. /\ worker'[w] = Free /\ (\A v \in Workers \ {w} : worker'[v] = worker[v]) /\ worker' \in [Workers -> Slots]
      /\ guard' \in [Turns -> Workers \cup {Nobody}]
      /\ \A u \in Turns : guard[u] # w => guard'[u] = guard[u]
  BY <1>1
<1>3. Typing'
  <2>1. NothingReopens
    BY <1>1 DEF NothingReopens, OpenJob
  <2>2. SlotsAreKnown'
    BY <1>2, <2>1, SlotFacts, SlotsStayKnown
  <2> QED BY <1>1, <1>2, <2>2 DEF Typing
<1>4. GuardsHold'
  <2> SUFFICES ASSUME GuardMayBreak = FALSE, NEW v \in Workers
               PROVE  /\ Inside(v)' => guard'[worker'[v].turn] = v
                      /\ worker'[v].pc = "calling" => OpenIn(db', worker'[v].turn)
    BY DEF GuardsHold, OpenJob, OpenIn
  <2>1. CASE v = w
    BY <1>2, <2>1 DEF Inside, Free
  <2>2. CASE v # w
    <3>1. worker'[v] = worker[v]
      BY <1>2, <2>2
    <3>2. Inside(v) => guard[worker[v].turn] = v /\ worker[v].turn \in Turns
      <4>1. Inside(v) => worker[v] # Free
        BY DEF Inside, Free
      <4>2. Inside(v) => guard[worker[v].turn] = v
        BY DEF IndInv, GuardsHold
      <4> QED BY <4>1, <4>2, SlotFacts
    <3>3. worker[v].pc = "calling" => OpenIn(db', worker[v].turn)
      BY <1>1 DEF IndInv, GuardsHold, OpenJob, OpenIn
    <3> QED BY <1>2, <2>2, <3>1, <3>2, <3>3 DEF Inside
  <2> QED BY <2>1, <2>2
<1>5. AttemptsAreAccountedFor'
  <2>1. \A u \in Turns : Coming(u)' \subseteq Coming(u)
    <3>1. \A u \in Turns : 0 # u
      BY DEF Turns
    <3> QED BY <1>2, <3>1 DEF Coming, Free
  <2>2. \A v \in Workers \ {w} : Claims(v)' <=> Claims(v)
    BY <1>1, <1>2 DEF Claims, Fenced
  <2>3. Late' \subseteq Late \cup {w}
    BY <1>2, <2>2 DEF Late
  <2> QED BY <1>1, <2>1, <2>3, FaultPays
<1> QED BY <1>1, <1>3, <1>4, <1>5 DEF IndInv

\* The guard breaks under a live worker, where that may happen.
LEMMA BreakKeeps ==
  ASSUME IndInv, NEW w \in Workers, BreakGuard(w)
  PROVE  IndInv'
<1>1. /\ GuardMayBreak /\ faults < MaxFaults /\ faults' = faults + 1 /\ db' = db /\ worker' = worker
      /\ guard' = [t \in Turns |-> IF guard[t] = w THEN Nobody ELSE guard[t]]
      /\ guard \in [Turns -> Workers \cup {Nobody}]
      /\ faults \in Nat /\ faults' \in 0 .. MaxFaults
  BY Bounds DEF BreakGuard, IndInv, Typing
<1>2. guard' \in [Turns -> Workers \cup {Nobody}]
  BY <1>1
<1>3. Typing'
  BY <1>1, <1>2 DEF IndInv, Typing, SlotsAreKnown, OpenJob
<1>4. GuardsHold'
  BY <1>1 DEF GuardsHold
<1>5. AttemptsAreAccountedFor'
  <2>1. \A u \in Turns : Coming(u)' \subseteq Coming(u)
    BY <1>1 DEF Coming
  <2>2. Late' \subseteq Late \cup {w}
    BY <1>1 DEF Late, Claims, Fenced
  <2> QED BY <1>1, <2>1, <2>2, FaultPays
<1> QED BY <1>1, <1>3, <1>4, <1>5 DEF IndInv

\* A lease that runs out under nobody costs nothing; under a slow worker it is a fault.
LEMMA LeaseExpiryKeeps ==
  ASSUME IndInv, NEW t \in Turns, LeaseExpires(t)
  PROVE  IndInv' /\ db'.turn = db.turn
<1> DEFINE row == [db.job[t] EXCEPT !.live = FALSE]
<1>1. /\ db.job[t].state = "running" /\ db.job[t].live /\ worker' = worker /\ guard' = guard
      /\ db' = [db EXCEPT !.job[t].live = FALSE]
      /\ Rows(db) /\ db.job \in [Turns -> JobRows] /\ db.job[t] \in JobRows
  BY DEF LeaseExpires, IndInv, Rows, Stored
<1>2. /\ row \in JobRows /\ row.state = "running" /\ row.owner = db.job[t].owner /\ row.live = FALSE
  BY <1>1 DEF JobRows
<1>3. db' = WithJob(db, t, row)
  BY <1>1 DEF WithJob
<1> HIDE DEF row
<1>4. /\ Rows(db') /\ NewestTurn(db') = NewestTurn(db) /\ QueuedMessages(db') = QueuedMessages(db)
      /\ db'.turn = db.turn /\ db'.job = [db.job EXCEPT ![t] = row]
  <2>1. db.turn[t].state # "none" /\ row.state # "none" /\ row.owner \in Workers
    BY <1>1, <1>2 DEF Rows, Stored, NoJob
  <2>2. Rows(db) /\ row \in JobRows /\ row.state = "running"
    BY <1>1, <1>2
  <2> QED BY <1>3, <2>1, <2>2, ChangedJob
<1>5. db'.job[t] = row /\ \A u \in Turns \ {t} : db'.job[u] = db.job[u]
  BY <1>1, <1>4
<1>6. \A u \in Turns : OpenJob(u)' <=> OpenJob(u)
  BY <1>1, <1>2, <1>5 DEF OpenJob
<1>7. NobodyWaitsInVain(db')
  BY <1>4 DEF IndInv, NobodyWaitsInVain
<1>8. ActiveTurnsAreServed(db')
  BY <1>2, <1>4, <1>5 DEF IndInv, ActiveTurnsAreServed, OpenIn
<1>9. faults' \in 0 .. MaxFaults
  BY Bounds DEF LeaseExpires, IndInv, Typing
<1>10. Typing'
  <2>1. NothingReopens
    BY <1>2, <1>4, <1>5, <1>6 DEF NothingReopens
  <2>2. worker' \in [Workers -> Slots] /\ guard' \in [Turns -> Workers \cup {Nobody}]
    BY <1>1 DEF IndInv, Typing
  <2>3. SlotsAreKnown'
    BY <1>1, <2>1, <2>2, SlotFacts, SlotsStayKnown
  <2> QED BY <1>9, <2>2, <2>3 DEF Typing
<1>11. GuardsHold'
  <2>1. \A v \in Workers : worker[v].pc = "calling" /\ OpenJob(worker[v].turn) => OpenJob(worker[v].turn)'
    BY <1>1, <1>6, SlotFacts DEF Free
  <2> QED BY <1>1, <2>1 DEF IndInv, GuardsHold, Inside
<1>12. \A u \in Turns : Coming(u)' = Coming(u)
  BY <1>1 DEF Coming
<1>13. \A v \in Workers : ~(db.job[t].owner = v /\ worker[v].turn = t) => (Claims(v)' <=> Claims(v))
  <2> SUFFICES ASSUME NEW v \in Workers, ~(db.job[t].owner = v /\ worker[v].turn = t)
               PROVE  Claims(v)' <=> Claims(v)
    OBVIOUS
  <2>1. CASE worker[v].turn = t
    BY <1>1, <1>2, <1>5, <2>1 DEF Claims, Fenced
  <2>2. CASE worker[v].turn # t
    BY <1>1, <1>5, <2>2, SlotFacts DEF Claims, Fenced
  <2> QED BY <2>1, <2>2
<1>14. AttemptsAreAccountedFor'
  <2>1. CASE Abandoned(t) /\ UNCHANGED faults
    <3>1. \A v \in Workers : Claims(v)' <=> Claims(v)
      BY <1>13, <2>1 DEF Abandoned
    <3>2. Late' = Late /\ \A u \in Turns : Due(u)' <=> Due(u)
      BY <1>1, <1>6, <3>1 DEF Late, Due
    <3> QED BY <1>4, <1>12, <2>1, <3>2 DEF IndInv, AttemptsAreAccountedFor
  <2>2. CASE ~Abandoned(t) /\ faults' = faults + 1
    <3>1. PICK w \in Workers : db.job[t].owner = w /\ worker[w].turn = t
      BY <2>2 DEF Abandoned
    <3>2. \A v \in Workers \ {w} : Claims(v)' <=> Claims(v)
      BY <1>13, <3>1
    <3>3. Late' \subseteq Late \cup {w}
      BY <1>1, <3>2 DEF Late
    <3> QED BY <1>4, <1>12, <2>2, <3>3, FaultPays
  <2> QED BY <2>1, <2>2 DEF LeaseExpires
<1> QED BY <1>4, <1>7, <1>8, <1>10, <1>11, <1>14 DEF IndInv

-----------------------------------------------------------------------------
(* The steps together.                                                     *)

\* The initial state has no rows and idle slots.
LEMMA InitEstablishes ==
  ASSUME Init
  PROVE  IndInv
<1>1. /\ db.messages = <<>> /\ \A t \in Turns : db.turn[t] = NoTurn /\ db.job[t] = NoJob
      /\ db \in [messages : Seq(Messages), turn : [Turns -> Untold], job : [Turns -> JobRows]]
  BY DEF Init, NoTurn, NoJob, Untold, JobRows
<1>2. /\ NoTurn.state = "none" /\ NoTurn.attempts = 0 /\ NoTurn.retryOf = 0
      /\ NoJob.state = "none" /\ NoJob.owner = Nobody
  BY DEF NoTurn, NoJob
<1>3. DOMAIN db.messages = {}
  BY <1>1
<1>4. NewestTurn(db) = 0
  <2>1. {t \in Turns : db.turn[t].state # "none"} = {}
    BY <1>1, <1>2
  <2> QED BY <2>1, FS_EmptySet DEF NewestTurn
<1>5. RetriesAreFew(db)
  <2>1. RetriesOf(db) = {}
    BY <1>1, <1>2 DEF RetriesOf
  <2> QED BY <2>1, FS_EmptySet, Bounds DEF RetriesAreFew
<1>6. Rows(db)
  <2>1. Stored(db)
    BY <1>1, <1>2 DEF Stored
  <2>2. Numbered(db)
    BY <1>1, <1>2, <1>4 DEF Numbered, ActiveTurn, Turns
  <2>3. MessagesAreKnown(db) /\ InOrder(db)
    BY <1>1, <1>2, <1>3 DEF MessagesAreKnown, InOrder
  <2> QED BY <1>5, <2>1, <2>2, <2>3 DEF Rows
<1>7. NobodyWaitsInVain(db) /\ ActiveTurnsAreServed(db)
  BY <1>1, <1>2, <1>3 DEF NobodyWaitsInVain, QueuedMessages, ActiveTurnsAreServed, ActiveTurn
<1>8. Typing /\ GuardsHold
  <2>1. \A w \in Workers : worker[w] = Free
    BY DEF Init
  <2>2. guard \in [Turns -> Workers \cup {Nobody}] /\ worker \in [Workers -> Slots] /\ faults \in 0 .. MaxFaults
    BY Bounds DEF Init, Slots, Free
  <2> QED BY <2>1, <2>2 DEF Typing, SlotsAreKnown, GuardsHold, Inside, Free
<1>9. AttemptsAreAccountedFor
  <2>1. \A w \in Workers : worker[w] = Free
    BY DEF Init
  <2>2. Late = {} /\ \A t \in Turns : Coming(t) = {} /\ ~Due(t)
    BY <1>1, <1>2, <2>1 DEF Late, Coming, Due, OpenJob, Free
  <2>3. faults = 0
    BY DEF Init
  <2>4. Cardinality(Late) = 0 /\ \A t \in Turns : Cardinality(Coming(t)) = 0
    BY <2>2, FS_EmptySet
  <2>5. \A t \in Turns : db.turn[t].attempts = 0
    BY <1>1, <1>2
  <2>6. MaxAttempts \in Nat
    BY Bounds
  <2>7. \A t \in Turns :
          db.turn[t].attempts + Cardinality(Coming(t)) + (IF Due(t) THEN 1 ELSE 0) <= MaxAttempts + faults
    BY <2>2, <2>3, <2>4, <2>5, <2>6
  <2> QED BY <2>3, <2>4, <2>7 DEF AttemptsAreAccountedFor
<1> QED BY <1>6, <1>7, <1>8, <1>9 DEF IndInv

\* What a step does to turns that are over.
OverStays == \A t \in Turns : db.turn[t].state \in TurnOver => db'.turn[t] = db.turn[t]

\* The steps of a slot between its claim and its end are these.
LEMMA HandleCases ==
  ASSUME IndInv, NEW w \in Workers, Handle(w)
  PROVE  \/ TakesGuard(w)
         \/ Runs(w)
         \/ Inside(w) /\ Finishes(w) /\ LeaveGuard(w) /\ UNCHANGED faults
         \/ /\ worker[w].pc \in {"claimed", "calling"}
            /\ db' = ReleaseJob(db, w, worker[w].turn) /\ worker' = [worker EXCEPT ![w] = Free] /\ UNCHANGED faults
            /\ guard' = guard \/ guard' = [t \in Turns |-> IF guard[t] = w THEN Nobody ELSE guard[t]]
            /\ worker[w].pc = "claimed" \/ db.turn[worker[w].turn].attempts < MaxAttempts
<1> DEFINE t == worker[w].turn
<1>1. ASSUME db.turn[t].state \in ActiveTurn, NEW outcome \in {"completed", "failed"},
             db' = Archive(Settle(db, t, outcome), w, t), Inside(w)
      PROVE  Finishes(w)
  <2>1. worker[w] # Free
    BY <1>1 DEF Inside, Free
  <2>2. t \in Turns /\ RowsInv(db) /\ db.turn[t] \in Untold
    BY <2>1, SlotFacts DEF IndInv, RowsInv, Rows, Stored
  <2>3. Settle(db, t, outcome).turn[t] = [db.turn[t] EXCEPT !.state = outcome]
    BY <1>1, <2>2, SettleKeeps
  <2>4. Settle(db, t, outcome) # db
    BY <1>1, <2>2, <2>3 DEF Untold, ActiveTurn
  <2> QED BY <1>1, <2>4 DEF Finishes
<1>2. ASSUME db.turn[t].state \in TurnOver, db' = Archive(db, w, t)
      PROVE  Finishes(w)
  BY <1>2 DEF Finishes
<1>3. CASE EnterGuard(w)
  BY <1>3 DEF EnterGuard, TakesGuard
<1>4. CASE ClaimExecution(w)
  <2>1. worker[w].pc = "guarded" /\ Inside(w)
    BY <1>4 DEF ClaimExecution, Inside
  <2> QED BY <1>1, <1>2, <1>4, <2>1 DEF ClaimExecution, Runs
<1>5. CASE Complete(w)
  <2>1. worker[w].pc = "calling" /\ Inside(w) /\ worker[w] # Free
    BY <1>5 DEF Complete, Inside, Free
  <2>2. db.turn[t].state \in {"running"} \cup TurnOver
    <3>1. t \in Turns /\ db.turn[t].state # "none" /\ db.turn[t] \in Untold
      BY <2>1, SlotFacts DEF IndInv, Rows, Stored
    <3>2. db.turn[t].state # "pending"
      BY <2>1 DEF IndInv, Typing, SlotsAreKnown
    <3> QED BY <3>1, <3>2 DEF Untold, ActiveTurn
  <2>3. CASE db.turn[t].state = "running"
    <3>1. db.turn[t].state \in ActiveTurn
      BY <2>3 DEF ActiveTurn
    <3> QED BY <1>1, <1>5, <2>1, <2>3, <3>1 DEF Complete
  <2>4. CASE db.turn[t].state \in TurnOver
    <3>1. db.turn[t].state # "running"
      BY <2>4 DEF TurnOver
    <3> QED BY <1>2, <1>5, <2>1, <2>4, <3>1 DEF Complete
  <2> QED BY <2>2, <2>3, <2>4
<1>6. ASSUME NEW invalid \in BOOLEAN, HandleFailure(w, invalid)
      PROVE  \/ Inside(w) /\ Finishes(w) /\ LeaveGuard(w) /\ UNCHANGED faults
             \/ /\ worker[w].pc = "calling" /\ db.turn[t].attempts < MaxAttempts
                /\ db' = ReleaseJob(db, w, t) /\ LeaveGuard(w) /\ UNCHANGED faults
  <2>1. worker[w].pc = "calling" /\ Inside(w) /\ LeaveGuard(w) /\ UNCHANGED faults
    BY <1>6 DEF HandleFailure, Inside
  <2> QED BY <1>1, <1>2, <1>6, <2>1 DEF HandleFailure
<1> QED BY <1>3, <1>4, <1>5, <1>6 DEF Handle, LeaveGuard

\* Every step keeps the invariant, and every turn that is over.
LEMMA StepKeeps ==
  ASSUME IndInv, [Next]_vars
  PROVE  IndInv' /\ OverStays
<1>1. RowsInv(db)
  BY DEF IndInv, RowsInv
<1>2. ASSUME NEW k \in Keys, Send(k) PROVE IndInv' /\ OverStays
  <2>1. RowsInv(db') /\ Grown(db, db')
    BY <1>1, <1>2, SendKeeps
  <2>2. Typing' /\ GuardsHold' /\ AttemptsAreAccountedFor'
    BY <1>2, <2>1, GrownIsUntouched, CommandKeepsTheRest DEF Send
  <2>3. OverStays
    BY <2>1 DEF Grown, SameOrNew, OverStays, TurnOver
  <2> QED BY <2>1, <2>2, <2>3 DEF IndInv, RowsInv
<1>3. ASSUME Cancel PROVE IndInv' /\ OverStays
  <2>1. RowsInv(db') /\ Untouched
    BY <1>1, <1>3, CancelKeeps
  <2>2. UNCHANGED <<guard, worker, faults>>
    BY <1>3 DEF Cancel
  <2>3. Typing' /\ GuardsHold' /\ AttemptsAreAccountedFor'
    BY <2>1, <2>2, CommandKeepsTheRest
  <2>4. OverStays
    <3>1. PICK t \in ActiveTurns(db) : db' = [db EXCEPT !.turn[t].state = "cancelled"]
      BY <1>3 DEF Cancel
    <3>2. \A u \in Turns \ {t} : db'.turn[u] = db.turn[u]
      BY <3>1 DEF ActiveTurns, IndInv, Rows, Stored
    <3>3. db.turn[t].state \notin TurnOver
      BY DEF ActiveTurns, ActiveTurn, TurnOver
    <3> QED BY <3>2, <3>3 DEF OverStays
  <2> QED BY <2>1, <2>3, <2>4 DEF IndInv, RowsInv
<1>4. ASSUME NEW t \in Turns, Retry(t) PROVE IndInv' /\ OverStays
  <2>1. RowsInv(db') /\ Grown(db, db')
    BY <1>1, <1>4, RetryKeeps
  <2>2. Typing' /\ GuardsHold' /\ AttemptsAreAccountedFor'
    BY <1>4, <2>1, GrownIsUntouched, CommandKeepsTheRest DEF Retry
  <2>3. OverStays
    BY <2>1 DEF Grown, SameOrNew, OverStays, TurnOver
  <2> QED BY <2>1, <2>2, <2>3 DEF IndInv, RowsInv
<1>5. ASSUME NEW w \in Workers, ReadBatch(w) PROVE IndInv' /\ OverStays
  BY <1>5, ReadBatchKeeps DEF OverStays
<1>6. ASSUME NEW w \in Workers, Handle(w) PROVE IndInv' /\ OverStays
  <2>1. CASE TakesGuard(w)
    BY <2>1, TakeGuardKeeps DEF OverStays, TakesGuard
  <2>2. CASE Runs(w)
    BY <2>2, RunKeeps DEF OverStays
  <2>3. CASE Inside(w) /\ Finishes(w) /\ LeaveGuard(w) /\ UNCHANGED faults
    <3>1. IndInv'
      BY <2>3, FinishKeeps
    <3>2. worker[w] # Free
      BY <2>3 DEF Inside, Free
    <3> QED BY <2>3, <3>1, <3>2, FinishedRows DEF OverStays
  <2>4. CASE /\ worker[w].pc \in {"claimed", "calling"}
             /\ db' = ReleaseJob(db, w, worker[w].turn) /\ worker' = [worker EXCEPT ![w] = Free] /\ UNCHANGED faults
             /\ guard' = guard \/ guard' = [t \in Turns |-> IF guard[t] = w THEN Nobody ELSE guard[t]]
             /\ worker[w].pc = "claimed" \/ db.turn[worker[w].turn].attempts < MaxAttempts
    <3>1. worker[w] # Free /\ guard \in [Turns -> Workers \cup {Nobody}]
      BY <2>4 DEF Free, IndInv, Typing
    <3>2. /\ guard' \in [Turns -> Workers \cup {Nobody}]
          /\ \A u \in Turns : guard'[u] = guard[u] \/ (guard[u] = w /\ guard'[u] = Nobody)
      BY <2>4, <3>1
    <3> QED BY <2>4, <3>1, <3>2, HandBackKeeps DEF OverStays
  <2> QED BY <1>6, <2>1, <2>2, <2>3, <2>4, HandleCases
<1>7. ASSUME NEW w \in Workers, Crash(w) PROVE IndInv' /\ OverStays
  BY <1>7, CrashKeeps DEF OverStays, Crash
<1>8. ASSUME NEW w \in Workers, BreakGuard(w) PROVE IndInv' /\ OverStays
  BY <1>8, BreakKeeps DEF OverStays, BreakGuard
<1>9. ASSUME NEW t \in Turns, LeaseExpires(t) PROVE IndInv' /\ OverStays
  BY <1>9, LeaseExpiryKeeps DEF OverStays
<1>10. CASE UNCHANGED vars
  <2>1. db' = db /\ guard' = guard /\ worker' = worker /\ faults' = faults
    BY <1>10 DEF vars
  <2>2. \A u \in Turns : OpenJob(u)' <=> OpenJob(u)
    BY <2>1 DEF OpenJob
  <2>3. Typing'
    BY <2>1, <2>2 DEF IndInv, Typing, SlotsAreKnown
  <2>4. GuardsHold'
    BY <2>1, SlotFacts DEF IndInv, GuardsHold, Inside, OpenJob
  <2>5. AttemptsAreAccountedFor'
    BY <2>1 DEF IndInv, AttemptsAreAccountedFor, Late, Coming, Due, Claims, Fenced, OpenJob
  <2> QED BY <2>1, <2>3, <2>4, <2>5 DEF IndInv, OverStays
<1> QED BY <1>2, <1>3, <1>4, <1>5, <1>6, <1>7, <1>8, <1>9, <1>10 DEF Next, UserStep

-----------------------------------------------------------------------------
(* The promise: what the user sees of each step.                           *)

\* The numbers of turns that are shown, and which of them are active.
LEMMA ShownTurns ==
  ASSUME NEW d, Rows(d)
  PROVE  /\ \A t \in Turns : Shown(d)[t].state = "active" <=> d.turn[t].state \in ActiveTurn
         /\ \A t \in Turns : Shown(d)[t].state = "none" <=> d.turn[t].state = "none"
         /\ \A t \in Turns : d.turn[t].state \notin ActiveTurn => Shown(d)[t].state = d.turn[t].state
         /\ \A t \in Turns : Shown(d)[t].retryOf = d.turn[t].retryOf
         /\ \A n \in Turns : n = NewestTurn(d) + 1 => \A t \in Turns : Shown(d)[t].state # "none" <=> t < n
         /\ {t \in Turns : Shown(d)[t].state = "active"} = ActiveTurns(d)
         /\ {i \in DOMAIN Said(d) : Said(d)[i].turn = 0} = QueuedMessages(d)
<1>1. \A t \in Turns : Shown(d)[t].state = IF d.turn[t].state \in ActiveTurn THEN "active" ELSE d.turn[t].state
  BY DEF Shown
<1>2. \A t \in Turns : d.turn[t].state \in {"none"} \cup ActiveTurn \cup TurnOver
  BY DEF Rows, Stored, Untold
<1>3. \A t \in Turns : Shown(d)[t].state = "active" <=> d.turn[t].state \in ActiveTurn
  BY <1>1, <1>2 DEF TurnOver
<1>4. \A t \in Turns : Shown(d)[t].state = "none" <=> d.turn[t].state = "none"
  BY <1>1 DEF ActiveTurn
<1>5. \A n \in Turns : n = NewestTurn(d) + 1 => \A t \in Turns : Shown(d)[t].state # "none" <=> t < n
  BY <1>4, NewestIsATurn, Bounds DEF Rows, Numbered
<1>6. {t \in Turns : Shown(d)[t].state = "active"} = ActiveTurns(d)
  BY <1>3 DEF ActiveTurns
<1>7. {i \in DOMAIN Said(d) : Said(d)[i].turn = 0} = QueuedMessages(d)
  BY DEF Said, QueuedMessages
<1> QED BY <1>1, <1>3, <1>4, <1>5, <1>6, <1>7 DEF Shown

\* A turn that is started is shown as active; the others are shown as before.
LEMMA StartShows ==
  ASSUME NEW d, Rows(d), NEW r \in Turns \cup {0}, NEW messages \in Seq(Messages), NewestTurn(d) + 1 \in Turns
  PROVE  LET e == StartTurn(d, r, messages)
         IN  /\ e.messages = messages
             /\ Shown(e) = [Shown(d) EXCEPT ![NewestTurn(d) + 1] = [state |-> "active", retryOf |-> r]]
<1> DEFINE n == NewestTurn(d) + 1
           e == StartTurn(d, r, messages)
<1>1. /\ e.messages = messages /\ e.turn[n] = Pending(r)
      /\ \A t \in Turns \ {n} : e.turn[t] = d.turn[t]
  BY StartedTurn DEF Rows
<1> HIDE DEF n, e
<1>2. Pending(r).state \in ActiveTurn /\ Pending(r).retryOf = r
  BY DEF Pending, ActiveTurn
<1>3. Shown(e) = [Shown(d) EXCEPT ![n] = [state |-> "active", retryOf |-> r]]
  BY <1>1, <1>2 DEF Shown
<1> QED BY <1>1, <1>3 DEF n, e

\* drain shows the next turn, which answers all that waited.
LEMMA DrainShows ==
  ASSUME NEW d, Rows(d), ActiveTurns(d) = {}, QueuedMessages(d) # {}
  PROVE  /\ NewestTurn(d) + 1 \in Turns
         /\ Said(Drain(d)) = Promise!AnsweredBy(Said(d), NewestTurn(d) + 1)
         /\ Shown(Drain(d)) = [Shown(d) EXCEPT ![NewestTurn(d) + 1] = Promise!Begun(0)]
<1> DEFINE n == NewestTurn(d) + 1
<1>1. n \in Turns
  BY RoomForATurn
<1>2. /\ Taken(d) \in Seq(Messages) /\ DOMAIN Taken(d) = DOMAIN d.messages
      /\ \A i \in DOMAIN d.messages :
            /\ Taken(d)[i].key = d.messages[i].key
            /\ Taken(d)[i].turn = IF d.messages[i].turn = 0 THEN n ELSE d.messages[i].turn
  BY <1>1, TakenMessages
<1>3. Drain(d) = StartTurn(d, 0, Taken(d))
  BY DEF Drain
<1>4. /\ Drain(d).messages = Taken(d)
      /\ Shown(Drain(d)) = [Shown(d) EXCEPT ![n] = [state |-> "active", retryOf |-> 0]]
  BY <1>1, <1>2, <1>3, StartShows
<1> HIDE DEF n
<1>5. Said(Drain(d)) = Promise!AnsweredBy(Said(d), n)
  BY <1>2, <1>4 DEF Said, Promise!AnsweredBy
<1> QED BY <1>1, <1>4, <1>5 DEF Promise!Begun, n

\* What a turn that changes shows.
LEMMA ChangeShows ==
  ASSUME NEW d, NEW e, Rows(d), NEW t \in Turns, NEW row \in Untold, row.retryOf = d.turn[t].retryOf,
         e.turn = [d.turn EXCEPT ![t] = row]
  PROVE  Shown(e) = [Shown(d) EXCEPT ![t].state = IF row.state \in ActiveTurn THEN "active" ELSE row.state]
<1>1. d.turn \in [Turns -> Untold]
  BY DEF Rows, Stored
<1>2. e.turn[t] = row /\ \A u \in Turns \ {t} : e.turn[u] = d.turn[u]
  BY <1>1
<1> QED BY <1>2 DEF Shown

Shows == [Promise!Next]_<<Said(db), Shown(db)>>

\* Nothing that is shown changes.
LEMMA SameShown ==
  ASSUME IndInv, Said(db') = Said(db), Shown(db') = Shown(db)
  PROVE  Shows
BY DEF Shows

\* send: a message waits, or a turn takes it with all that wait.
LEMMA SendShows ==
  ASSUME IndInv, NEW k \in Keys, Send(k)
  PROVE  Shows
<1> DEFINE d == WithMessage(k)
           n == NewestTurn(d) + 1
<1>1. RowsInv(db) /\ Rows(db) /\ ~Sent(k) /\ db' = Drain(d)
  BY DEF IndInv, RowsInv, Send, WithMessage
<1>2. /\ Rows(d) /\ d.turn = db.turn
      /\ Len(db.messages) \in Nat /\ DOMAIN db.messages = 1 .. Len(db.messages)
      /\ DOMAIN d.messages = 1 .. Len(db.messages) + 1
      /\ \A i \in DOMAIN db.messages : d.messages[i] = db.messages[i]
      /\ d.messages[Len(db.messages) + 1] = [key |-> k, turn |-> 0, copies |-> {}]
  BY <1>1, MessageKeeps
<1> HIDE DEF d, n
<1>3. Said(d) = Promise!With(k) /\ Shown(d) = Shown(db)
  <2>1. Shown(d) = Shown(db)
    BY <1>2 DEF Shown
  <2>2. Said(db) \in Seq([key : Keys, turn : Turns \cup {0}]) /\ Len(Said(db)) = Len(db.messages)
    <3>1. \A i \in DOMAIN db.messages : db.messages[i] \in Messages
      BY <1>1, LenProperties, ElementOfSeq DEF Rows, Stored
    <3>2. Said(db) = [i \in 1 .. Len(db.messages) |-> [key |-> db.messages[i].key, turn |-> db.messages[i].turn]]
      BY <1>2 DEF Said
    <3>3. \A i \in 1 .. Len(db.messages) :
            [key |-> db.messages[i].key, turn |-> db.messages[i].turn] \in [key : Keys, turn : Turns \cup {0}]
      BY <1>2, <3>1 DEF Messages
    <3>4. Said(db) \in Seq([key : Keys, turn : Turns \cup {0}])
      BY <1>2, <3>2, <3>3, IsASeq
    <3> QED BY <1>2, <3>2, <3>4, LenProperties
  <2>3. Append(Said(db), [key |-> k, turn |-> 0])
          = [i \in 1 .. Len(db.messages) + 1 |->
                IF i = Len(db.messages) + 1 THEN [key |-> k, turn |-> 0] ELSE Said(db)[i]]
    BY <1>2, <2>2
  <2>4. ASSUME NEW i \in DOMAIN d.messages
        PROVE  [key |-> d.messages[i].key, turn |-> d.messages[i].turn]
                 = IF i = Len(db.messages) + 1 THEN [key |-> k, turn |-> 0] ELSE Said(db)[i]
    BY <1>2 DEF Said
  <2>5. Said(d) = Append(Said(db), [key |-> k, turn |-> 0])
    BY <1>2, <2>3, <2>4 DEF Said
  <2> QED BY <2>1, <2>5 DEF Promise!With
<1>4. ~Promise!Sent(k)
  BY <1>1 DEF Promise!Sent, Sent, Said
<1>5. Promise!Active = ActiveTurns(db) /\ ActiveTurns(d) = ActiveTurns(db)
  BY <1>1, <1>2, ShownTurns DEF Promise!Active, ActiveTurns
<1>6. CASE ActiveTurns(db) # {}
  <2>1. db' = d
    BY <1>1, <1>5, <1>6 DEF Drain
  <2>2. Said(db)' = Promise!With(k) /\ Shown(db)' = Shown(db)
    BY <1>3, <2>1
  <2>3. Promise!Wait(k)
    BY <1>4, <1>5, <1>6, <2>2 DEF Promise!Wait
  <2> QED BY <2>3 DEF Shows, Promise!Next
<1>7. CASE ActiveTurns(db) = {}
  <2>1. QueuedMessages(d) # {}
    <3>1. Len(db.messages) + 1 \in DOMAIN d.messages /\ d.messages[Len(db.messages) + 1].turn = 0
      BY <1>2
    <3> QED BY <3>1 DEF QueuedMessages
  <2>2. /\ n \in Turns /\ Said(Drain(d)) = Promise!AnsweredBy(Said(d), n)
        /\ Shown(Drain(d)) = [Shown(d) EXCEPT ![n] = Promise!Begun(0)]
    BY <1>2, <1>5, <1>7, <2>1, DrainShows DEF n
  <2>3. Promise!IsNext(n)
    BY <1>2, <1>3, <2>2, ShownTurns DEF Promise!IsNext, n
  <2>4. Said(db)' = Promise!AnsweredBy(Promise!With(k), n) /\ Shown(db)' = [Shown(db) EXCEPT ![n] = Promise!Begun(0)]
    BY <1>1, <1>3, <2>2
  <2>5. Promise!Ask(k, n)
    BY <1>4, <1>5, <1>7, <2>3, <2>4 DEF Promise!Ask
  <2> QED BY <2>2, <2>5 DEF Shows, Promise!Next
<1> QED BY <1>6, <1>7

\* The outcome of a turn, when a worker or the user ends it: the next one follows when
\* somebody waits for it.
LEMMA EndShows ==
  ASSUME IndInv, NEW t \in Turns, db.turn[t].state \in ActiveTurn,
         NEW outcome \in {"completed", "failed"}, NEW x, x = Settle(db, t, outcome),
         Said(db') = Said(x), Shown(db') = Shown(x)
  PROVE  Shows
<1> DEFINE row == [db.turn[t] EXCEPT !.state = outcome]
           d == WithTurn(db, t, row)
           n == NewestTurn(d) + 1
<1>1. Rows(db) /\ db.turn \in [Turns -> Untold] /\ db.turn[t] \in Untold
  BY DEF IndInv, Rows, Stored
<1>2. row \in Untold /\ row.state = outcome /\ row.retryOf = db.turn[t].retryOf
  BY <1>1 DEF Untold, TurnOver
<1>3. x = Drain(d)
  BY DEF Settle, WithTurn
<1>4. d.messages = db.messages
  BY <1>1 DEF WithTurn, Rows, Stored
<1> HIDE DEF row, d
<1>5. db.turn[t].state # "none" /\ row.state # "none" /\ row.state \notin ActiveTurn
  BY <1>2 DEF ActiveTurn
<1>6. /\ Rows(d) /\ NewestTurn(d) = NewestTurn(db) /\ QueuedMessages(d) = QueuedMessages(db)
      /\ d.turn = [db.turn EXCEPT ![t] = row]
  BY <1>1, <1>2, <1>5, ChangedTurn DEF d
<1>7. Shown(d) = [Shown(db) EXCEPT ![t].state = outcome] /\ Said(d) = Said(db)
  <2>1. Shown(d) = [Shown(db) EXCEPT ![t].state = IF row.state \in ActiveTurn THEN "active" ELSE row.state]
    BY <1>1, <1>2, <1>6, ChangeShows
  <2> QED BY <1>2, <1>4, <1>5, <2>1 DEF Said
<1>8. t \in Promise!Active /\ Promise!Waiting = QueuedMessages(db)
  BY <1>1, ShownTurns DEF Promise!Active, Promise!Waiting
<1>9. ActiveTurns(d) = {}
  BY <1>1, <1>2, <1>5, <1>6 DEF Rows, Numbered, ActiveTurns
<1>10. CASE QueuedMessages(db) = {}
  <2>1. x = d
    BY <1>3, <1>6, <1>10 DEF Drain
  <2>2. Said(db)' = Said(db) /\ Shown(db)' = [Shown(db) EXCEPT ![t].state = outcome]
    BY <1>7, <2>1
  <2>3. Promise!End(t, outcome)
    BY <1>8, <1>10, <2>2 DEF Promise!End
  <2> QED BY <2>3 DEF Shows, Promise!Next
<1>11. CASE QueuedMessages(db) # {}
  <2>1. /\ n \in Turns /\ Said(x) = Promise!AnsweredBy(Said(d), n)
        /\ Shown(x) = [Shown(d) EXCEPT ![n] = Promise!Begun(0)]
    BY <1>3, <1>6, <1>9, <1>11, DrainShows
  <2>2. Promise!IsNext(n)
    BY <1>1, <1>6, <2>1, ShownTurns DEF Promise!IsNext
  <2>3. /\ Said(db)' = Promise!AnsweredBy(Said(db), n)
        /\ Shown(db)' = [Shown(db) EXCEPT ![t].state = outcome, ![n] = Promise!Begun(0)]
    BY <1>7, <2>1
  <2>4. Promise!GoOn(t, outcome, n)
    BY <1>8, <1>11, <2>2, <2>3 DEF Promise!GoOn
  <2> QED BY <2>1, <2>4 DEF Shows, Promise!Next
<1> QED BY <1>10, <1>11

\* cancel ends the active turn and leaves the messages waiting.
LEMMA CancelShows ==
  ASSUME IndInv, Cancel
  PROVE  Shows
<1>1. PICK t \in ActiveTurns(db) : db' = [db EXCEPT !.turn[t].state = "cancelled"]
  BY DEF Cancel
<1> DEFINE row == [db.turn[t] EXCEPT !.state = "cancelled"]
<1>2. /\ t \in Turns /\ db.turn[t].state \in ActiveTurn /\ Rows(db)
      /\ db.turn \in [Turns -> Untold] /\ db.turn[t] \in Untold
  BY DEF ActiveTurns, IndInv, Rows, Stored
<1>3. row \in Untold /\ row.state = "cancelled" /\ row.retryOf = db.turn[t].retryOf
  BY <1>2 DEF Untold, TurnOver
<1>4. db'.turn = [db.turn EXCEPT ![t] = row] /\ db'.messages = db.messages
  BY <1>1, <1>2 DEF Rows, Stored
<1> HIDE DEF row
<1>5. Shown(db') = [Shown(db) EXCEPT ![t].state = IF row.state \in ActiveTurn THEN "active" ELSE row.state]
  BY <1>2, <1>3, <1>4, ChangeShows
<1>6. Said(db)' = Said(db) /\ Shown(db)' = [Shown(db) EXCEPT ![t].state = "cancelled"]
  BY <1>3, <1>4, <1>5 DEF Said, ActiveTurn
<1>7. t \in Promise!Active
  BY <1>2, ShownTurns DEF Promise!Active
<1>8. Promise!End(t, "cancelled")
  BY <1>6, <1>7 DEF Promise!End
<1> QED BY <1>2, <1>8 DEF Shows, Promise!Next

\* retry shows a turn that repeats the old one; nothing that waits is taken.
LEMMA RetryShows ==
  ASSUME IndInv, NEW o \in Turns, Retry(o)
  PROVE  Shows
<1> DEFINE n == NewestTurn(db) + 1
           messages == Copied(db, o)
<1>1. /\ Rows(db) /\ ActiveTurns(db) = {} /\ Cardinality(RetriesOf(db)) < MaxRetries
      /\ db' = StartTurn(db, o, messages) /\ o \in Turns \cup {0}
      /\ db.turn[o].state \in {"failed", "cancelled"} /\ ~Retried(o)
  BY DEF IndInv, Retry, RetryTurns, RetriesOf
<1>2. n \in Turns
  BY <1>1, RoomForATurn
<1>3. /\ db.messages \in Seq(Messages) /\ Len(db.messages) \in Nat /\ DOMAIN db.messages = 1 .. Len(db.messages)
      /\ \A i \in DOMAIN db.messages : db.messages[i] \in Messages
  <2>1. db.messages \in Seq(Messages)
    BY <1>1 DEF Rows, Stored
  <2> QED BY <2>1, LenProperties, ElementOfSeq
<1>4. \A i \in DOMAIN db.messages :
        LET m == [db.messages[i] EXCEPT !.copies = @ \cup {n}]
        IN  m \in Messages /\ m.key = db.messages[i].key /\ m.turn = db.messages[i].turn
  BY <1>2, <1>3 DEF Messages
<1>5. /\ DOMAIN messages = DOMAIN db.messages
      /\ \A i \in DOMAIN db.messages :
            messages[i] \in Messages /\ messages[i].key = db.messages[i].key /\ messages[i].turn = db.messages[i].turn
  BY <1>3, <1>4 DEF Copied
<1>6. messages \in Seq(Messages)
  <2>1. messages = [i \in 1 .. Len(db.messages) |-> messages[i]]
    BY <1>3 DEF Copied
  <2> HIDE DEF messages
  <2>2. \A i \in 1 .. Len(db.messages) : messages[i] \in Messages
    BY <1>3, <1>5
  <2>3. [i \in 1 .. Len(db.messages) |-> messages[i]] \in Seq(Messages)
    BY <1>3, <2>2, IsASeq
  <2> QED BY <2>1, <2>3
<1> HIDE DEF messages
<1>7. /\ db'.messages = messages
      /\ Shown(db') = [Shown(db) EXCEPT ![n] = [state |-> "active", retryOf |-> o]]
  BY <1>1, <1>2, <1>6, StartShows
<1> HIDE DEF n
<1>8. Said(db)' = Said(db) /\ Shown(db)' = [Shown(db) EXCEPT ![n] = Promise!Begun(o)]
  BY <1>5, <1>7 DEF Said, Promise!Begun
<1>9. /\ Promise!Active = {} /\ Shown(db)[o].state \in {"failed", "cancelled"}
      /\ \A r \in Turns : Shown(db)[r].retryOf # o
      /\ Promise!IsNext(n)
  <2>1. Promise!Active = {} /\ Promise!IsNext(n)
    BY <1>1, <1>2, ShownTurns DEF Promise!Active, Promise!IsNext, n
  <2>2. Shown(db)[o].state = db.turn[o].state /\ \A r \in Turns : Shown(db)[r].retryOf # o
    BY <1>1, ShownTurns DEF ActiveTurns, Retried
  <2> QED BY <1>1, <2>1, <2>2
<1>10. Promise!Repeat(o, n)
  BY <1>8, <1>9 DEF Promise!Repeat
<1> QED BY <1>2, <1>10 DEF Shows, Promise!Next

\* A worker shows the user nothing but the end of its turn.
LEMMA HandleShows ==
  ASSUME IndInv, NEW w \in Workers, Handle(w)
  PROVE  Shows
<1> DEFINE t == worker[w].turn
<1>1. ASSUME NEW x PROVE LET y == Archive(x, w, t) IN Said(y) = Said(x) /\ Shown(y) = Shown(x)
  BY DEF Archive, Said, Shown
<1>2. CASE TakesGuard(w)
  BY <1>2, SameShown DEF TakesGuard
<1>3. CASE Runs(w)
  <2> DEFINE row == [db.turn[t] EXCEPT !.state = "running", !.attempts = @ + 1]
  <2>1. worker[w] # Free
    BY <1>3 DEF Runs, Free
  <2>2. t \in Turns /\ Rows(db) /\ db.turn \in [Turns -> Untold] /\ db.turn[t] \in Untold
    BY <2>1, SlotFacts DEF IndInv, Rows, Stored
  <2>3. row \in Untold /\ row.state = "running" /\ row.retryOf = db.turn[t].retryOf
    <3>1. db.turn[t].attempts + 1 \in Nat
      BY <2>2 DEF Untold
    <3> HIDE DEF t
    <3> QED BY <2>2, <3>1 DEF Untold, ActiveTurn
  <2>4. db'.turn = [db.turn EXCEPT ![t] = row] /\ db'.messages = db.messages
    BY <1>3, <2>2 DEF Runs, Rows, Stored
  <2> HIDE DEF row
  <2>5. Shown(db') = [Shown(db) EXCEPT ![t].state = IF row.state \in ActiveTurn THEN "active" ELSE row.state]
    BY <2>2, <2>3, <2>4, ChangeShows
  <2>6. Shown(db)[t].state = "active"
    BY <1>3, <2>2, ShownTurns DEF Runs
  <2>7. Shown(db') = Shown(db) /\ Said(db') = Said(db)
    BY <2>2, <2>3, <2>4, <2>5, <2>6 DEF Said, Shown, ActiveTurn
  <2> QED BY <2>7, SameShown
<1>4. CASE Inside(w) /\ Finishes(w)
  <2>1. worker[w] # Free
    BY <1>4 DEF Inside, Free
  <2>2. t \in Turns
    BY <2>1, SlotFacts
  <2>3. PICK x \in {db, Settle(db, t, "completed"), Settle(db, t, "failed")} :
          /\ db' = Archive(x, w, t)
          /\ IF x = db THEN db.turn[t].state \in TurnOver ELSE db.turn[t].state \in ActiveTurn
    BY <1>4 DEF Finishes
  <2>4. Said(db') = Said(x) /\ Shown(db') = Shown(x)
    BY <1>1, <2>3
  <2> HIDE DEF t
  <2>5. CASE x = db
    BY <2>4, <2>5, SameShown
  <2>6. CASE x # db
    <3>1. PICK outcome \in {"completed", "failed"} : x = Settle(db, t, outcome)
      BY <2>3, <2>6
    <3> QED BY <2>2, <2>3, <2>4, <2>6, <3>1, EndShows
  <2> QED BY <2>5, <2>6
<1>5. CASE db' = ReleaseJob(db, w, t)
  <2>1. Said(db') = Said(db) /\ Shown(db') = Shown(db)
    BY <1>5 DEF ReleaseJob, Said, Shown
  <2> QED BY <2>1, SameShown
<1> QED BY <1>2, <1>3, <1>4, <1>5, HandleCases

\* Every step shows a step of the promise, or nothing.
LEMMA StepShows ==
  ASSUME IndInv, [Next]_vars
  PROVE  Shows
<1>1. ASSUME db'.messages = db.messages, db'.turn = db.turn PROVE Shows
  BY <1>1, SameShown DEF Said, Shown
<1>2. ASSUME NEW w \in Workers, ReadBatch(w) PROVE Shows
  <2>1. db'.messages = db.messages /\ db'.turn = db.turn
    BY <1>2 DEF ReadBatch, IndInv, Rows, Stored
  <2> QED BY <1>1, <2>1
<1>3. ASSUME NEW t \in Turns, LeaseExpires(t) PROVE Shows
  <2>1. db'.messages = db.messages /\ db'.turn = db.turn
    BY <1>3 DEF LeaseExpires, IndInv, Rows, Stored
  <2> QED BY <1>1, <2>1
<1>4. ASSUME NEW w \in Workers, Crash(w) \/ BreakGuard(w) PROVE Shows
  BY <1>1, <1>4 DEF Crash, BreakGuard
<1>5. CASE UNCHANGED vars
  BY <1>1, <1>5 DEF vars
<1> QED BY <1>2, <1>3, <1>4, <1>5, SendShows, CancelShows, RetryShows, HandleShows DEF Next, UserStep

-----------------------------------------------------------------------------
(* The theorems.                                                           *)

\* The rows of the conversation, the claims of the workers and the accounts of the
\* attempts keep their invariant: the whole of what conversations.py and the worker do.
THEOREM Invariance == Spec => []IndInv
<1>1. Init => IndInv
  BY InitEstablishes
<1>2. IndInv /\ [Next]_vars => IndInv'
  BY StepKeeps
<1> QED BY <1>1, <1>2, PTL DEF Spec

\* Every row, guard and slot keeps its type; in particular a turn is attempted at most
\* conversation_queue_max_attempts times, and once more for each fault.
THEOREM TypeCorrect == Spec => []TypeOK
<1>1. IndInv => TypeOK
  <2> SUFFICES ASSUME IndInv PROVE TypeOK
    OBVIOUS
  <2>1. /\ db \in [messages : Seq(Messages), turn : [Turns -> Untold], job : [Turns -> JobRows]]
    BY DEF IndInv, Rows, Stored
  <2>2. ASSUME NEW t \in Turns PROVE db.turn[t] \in TurnRows
    <3>1. db.turn[t].attempts + Cardinality(Coming(t)) + (IF Due(t) THEN 1 ELSE 0) <= MaxAttempts + faults
      BY DEF IndInv, AttemptsAreAccountedFor
    <3>2. /\ db.turn[t].attempts \in Nat /\ Cardinality(Coming(t)) \in Nat /\ faults \in Nat /\ faults <= MaxFaults
          /\ MaxAttempts \in Nat /\ MaxFaults \in Nat
      BY SlotFacts, Bounds
    <3>3. db.turn[t].attempts \in 0 .. MaxAttempts + MaxFaults
      BY <3>1, <3>2
    <3> QED BY <2>1, <3>3 DEF Untold, TurnRows
  <2>3. db \in Database
    BY <2>1, <2>2 DEF Database
  <2> QED BY <2>3 DEF IndInv, Typing, TypeOK, Slots
<1> QED BY <1>1, Invariance, PTL

\* A conversation never has two active turns: the partial unique index on active turns
\* (persistence.py) is never hit.
THEOREM AtMostOneActiveTurn == Spec => []OneActiveTurn
<1>1. IndInv => OneActiveTurn
  <2> SUFFICES ASSUME IndInv PROVE Cardinality(ActiveTurns(db)) <= 1
    BY DEF OneActiveTurn
  <2>1. ActiveTurns(db) \subseteq {NewestTurn(db)}
    BY DEF IndInv, Rows, Numbered, ActiveTurns
  <2>2. IsFiniteSet({NewestTurn(db)}) /\ Cardinality({NewestTurn(db)}) = 1
    BY FS_Singleton
  <2>3. Cardinality(ActiveTurns(db)) <= Cardinality({NewestTurn(db)})
    BY <2>1, <2>2, FS_Subset
  <2> QED BY <2>2, <2>3
<1> QED BY <1>1, Invariance, PTL

\* While no guard breaks, one provider call runs per conversation, whatever happens to
\* leases and turns: the job of a running call is open and the first that is.
THEOREM OneCallPerConversation == GuardMayBreak = FALSE /\ Spec => []OneProviderCall
<1>1. GuardMayBreak = FALSE /\ IndInv => OneProviderCall
  <2> SUFFICES ASSUME GuardMayBreak = FALSE, IndInv, NEW v \in Workers, NEW w \in Workers,
                      worker[v].pc = "calling", worker[w].pc = "calling"
               PROVE  v = w
    BY DEF OneProviderCall
  <2>1. /\ guard[worker[v].turn] = v /\ guard[worker[w].turn] = w
        /\ OpenJob(worker[v].turn) /\ OpenJob(worker[w].turn)
    BY DEF IndInv, GuardsHold, Inside
  <2>2. worker[v] # Free /\ worker[w] # Free
    BY DEF Free
  <2>3. worker[v].turn \in Turns /\ worker[w].turn \in Turns
    BY <2>2, SlotFacts
  <2>4. ~(worker[v].turn < worker[w].turn) /\ ~(worker[w].turn < worker[v].turn)
    BY <2>1, <2>2, <2>3, EarlierJobsAreClosed
  <2>5. worker[v].turn = worker[w].turn
    BY <2>3, <2>4, Bounds
  <2> QED BY <2>1, <2>5
<1>2. SUFFICES ASSUME GuardMayBreak = FALSE PROVE Spec => []OneProviderCall
  OBVIOUS
<1>3. IndInv => OneProviderCall
  BY <1>1, <1>2
<1> QED BY <1>3, Invariance, PTL

\* What the user wrote is answered in the order it was written.
THEOREM MessagesAreAnsweredInOrder == Spec => []AnsweredInOrder
<1>1. IndInv => AnsweredInOrder
  BY DEF IndInv, Rows, InOrder, AnsweredInOrder
<1> QED BY <1>1, Invariance, PTL

\* No late answer, failure, retry or redelivery changes a turn that is over.
THEOREM OutcomesAreFinal == Spec => OutcomeIsFinal
<1>1. IndInv /\ [Next]_vars => [\A t \in Turns : db.turn[t].state \in TurnOver => db'.turn[t] = db.turn[t]]_vars
  BY StepKeeps DEF OverStays
<1> QED BY <1>1, Invariance, PTL DEF Spec, OutcomeIsFinal

\* A message waits only behind an active turn or one the user cancelled, and an active
\* turn has a job that a worker can still claim or holds: what liveness starts from.
THEOREM WhatWaitsIsServed == Spec => [](NobodyWaitsInVain(db) /\ ActiveTurnsAreServed(db))
<1>1. IndInv => NobodyWaitsInVain(db) /\ ActiveTurnsAreServed(db)
  BY DEF IndInv
<1> QED BY <1>1, Invariance, PTL

\* What the rows show implements the promise to the user: one turn after the other, each
\* answers all that waited for it, and nothing that was shown is taken back.
THEOREM PromiseIsKept == Spec => ImplementsAnsweredMessages
<1>1. Init => Promise!Init
  <2> SUFFICES ASSUME Init PROVE Said(db) = <<>> /\ Shown(db) = [t \in Turns |-> [state |-> "none", retryOf |-> 0]]
    BY DEF Promise!Init
  <2>1. db.messages = <<>> /\ db.turn = [t \in Turns |-> NoTurn]
    BY DEF Init
  <2>2. Said(db) = <<>>
    BY <2>1 DEF Said
  <2>3. Shown(db) = [t \in Turns |-> [state |-> "none", retryOf |-> 0]]
    BY <2>1 DEF Shown, NoTurn, ActiveTurn
  <2> QED BY <2>2, <2>3
<1>2. IndInv /\ [Next]_vars => [Promise!Next]_Promise!vars
  BY StepShows DEF Shows, Promise!vars
<1> QED BY <1>1, <1>2, Invariance, PTL DEF Spec, ImplementsAnsweredMessages, Promise!Spec
=============================================================================
