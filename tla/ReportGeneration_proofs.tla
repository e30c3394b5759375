---------------------- MODULE ReportGeneration_proofs ----------------------
(***************************************************************************)
(* Proofs about one report generation, for every number of deliveries,     *)
(* attempts, requests and faults and every visibility timeout.             *)
(*                                                                         *)
(* A call in doubt, under way or lost, holds the generation: only its own  *)
(* delivery owns the row, or the row needs verification for good.          *)
(*                                                                         *)
(* The last part (JobInv) adds what a delivery may conclude when it ends:  *)
(* what it reports of the generation is true, except where it was          *)
(* abandoned or its beat met other hands.                                  *)
(***************************************************************************)
EXTENDS ReportGeneration, TLAPS

\* Attempts are numbered within the deliveries made so far.
AttemptsAreBounded ==
    /\ job.attempt <= delivered
    /\ \A n \in Deliveries : child[n].pc = "starting" => child[n].attempt \in 1 .. MaxDeliveries

Typing == TypeOK /\ AttemptsAreBounded

\* Nothing runs for a delivery that was not made yet.
RunsAreDelivered ==
    \A n \in Deliveries : (child[n].pc # "none" \/ parent[n].pc # "none") => n <= delivered

\* A call that was lost is over, and its delivery makes no other.
LostCallsAreOver == \A n \in lost : n <= delivered /\ child[n].pc \notin Live

\* A call in doubt is remembered, and no other delivery gets hold of the row.
InDoubt(n) == child[n].pc = "calling" \/ n \in lost
DoubtHoldsTheRow ==
    \A n \in Deliveries :
        InDoubt(n) => started /\ (generation.state = "needs_verification" \/ Owned(n))

IndInv == Typing /\ RunsAreDelivered /\ LostCallsAreOver /\ DoubtHoldsTheRow

-----------------------------------------------------------------------------
(* The operators that change one delivery's child.                         *)

\* A child that ends keeps neither an attempt nor a place in Live.
LEMMA LeftEnds ==
  ASSUME child \in [Deliveries -> Children], NEW n \in Deliveries,
         NEW result \in Results \cup {"dead"}
  PROVE  /\ Left(n, result) \in [Deliveries -> Children]
         /\ Left(n, result)[n].pc \in {result, "gone"}
         /\ \A m \in Deliveries \ {n} : Left(n, result)[m] = child[m]
<1>1. 0 \in 0 .. MaxDeliveries
  BY ReportAssumption
<1> QED
  BY <1>1 DEF Left, NoChild, Children, Results

\* The same of a child that is killed.
LEMMA GoneEnds ==
  ASSUME child \in [Deliveries -> Children], NEW n \in Deliveries
  PROVE  /\ Gone(n) \in [Deliveries -> Children]
         /\ Gone(n)[n].pc = "gone"
         /\ \A m \in Deliveries \ {n} : Gone(n)[m] = child[m]
<1>1. 0 \in 0 .. MaxDeliveries
  BY ReportAssumption
<1> QED
  BY <1>1 DEF Gone, NoChild, Children

\* A call is lost with its own delivery only.
LEMMA LostWithItsCall ==
  ASSUME lost \subseteq Deliveries, NEW n \in Deliveries
  PROVE  /\ LostWith(n) \subseteq Deliveries
         /\ \A m \in LostWith(n) : m \in lost \/ (m = n /\ child[n].pc = "calling")
  BY DEF LostWith

\* Half the visibility timeout is a delay a job may have.
LEMMA HalfIsADelay == HalfVisibility \in 0 .. Visibility /\ 1 \in 0 .. Visibility
<1>1. Visibility \in Nat \ {0}
  BY ReportAssumption
<1>2. CASE Visibility \div 2 > 1
  BY <1>1, <1>2 DEF HalfVisibility
<1>3. CASE ~(Visibility \div 2 > 1)
  BY <1>1, <1>3 DEF HalfVisibility
<1> QED BY <1>2, <1>3

\* Closing a job keeps its type and its count of attempts.
LEMMA ClosedType ==
  ASSUME job \in Jobs, NEW n \in Deliveries,
         NEW state \in {"queued", "completed", "failed"}, NEW delay \in 0 .. Visibility
  PROVE  Closed(n, state, delay) \in Jobs /\ Closed(n, state, delay).attempt = job.attempt
<1>1. 0 \in 0 .. MaxDeliveries /\ 0 \in 0 .. Visibility
  BY ReportAssumption
<1> QED
  BY <1>1 DEF Closed, Jobs

\* So does the transport's heartbeat.
LEMMA BeatenType ==
  ASSUME job \in Jobs
  PROVE  Beaten \in Jobs /\ Beaten.attempt = job.attempt
<1>1. Visibility \in 0 .. Visibility
  BY ReportAssumption
<1> QED
  BY <1>1 DEF Beaten, Jobs

\* A generation that was ended is one.
LEMMA EndedType ==
  ASSUME NEW state \in Open \cup Over
  PROVE  Ended(state) \in Generations
  BY ReportAssumption DEF Ended, Generations

\* A parent about to close its job, or that loses its delivery, is one.
LEMMA ClosingType ==
  ASSUME parent \in [Deliveries -> Parents], NEW n \in Deliveries,
         NEW status \in Endings \cup {"none"}
  PROVE  /\ Closing(n, status) \in [Deliveries -> Parents]
         /\ Losing(n, status) \in [Deliveries -> Parents]
  BY DEF Closing, Losing, Parents

\* And a parent that waits or is gone.
LEMMA ParentAt ==
  ASSUME parent \in [Deliveries -> Parents], NEW n \in Deliveries,
         NEW pc \in {"watching", "gone"}
  PROVE  [parent EXCEPT ![n] = [NoParent EXCEPT !.pc = pc]] \in [Deliveries -> Parents]
<1>1. [NoParent EXCEPT !.pc = pc] \in Parents
  BY DEF NoParent, Parents
<1> QED BY <1>1

-----------------------------------------------------------------------------
(* Types.                                                                  *)

\* The parent's steps keep every type and the numbers of attempts.
LEMMA ParentTypeStep ==
  ASSUME Typing, NEW n \in Deliveries, ParentStep(n) \/ ParentErrs(n) \/ ParentDies(n)
  PROVE  Typing'
<1> USE ReportAssumption DEF Typing, TypeOK, AttemptsAreBounded
<1>1. CASE BeatJob(n)
  <2>1. job' \in Jobs /\ job'.attempt = job.attempt
    BY <1>1, BeatenType DEF BeatJob
  <2>2. parent' \in [Deliveries -> Parents]
    <3>1. /\ [parent EXCEPT ![n].due = FALSE] \in [Deliveries -> Parents]
          /\ [parent EXCEPT ![n].pc = "beating"] \in [Deliveries -> Parents]
      BY DEF Parents
    <3>2. Losing(n, "failed") \in [Deliveries -> Parents]
      BY ClosingType DEF Endings, Results
    <3> QED BY <1>1, <3>1, <3>2 DEF BeatJob
  <2> QED BY <1>1, <2>1, <2>2 DEF BeatJob
<1>2. CASE BeatGeneration(n)
  <2>1. generation' \in Generations
    <3>1. Ended("needs_verification") \in Generations
      BY EndedType DEF Over
    <3>2. [generation EXCEPT !.age = 0] \in Generations
      BY DEF Generations
    <3> QED BY <1>2, <3>1, <3>2 DEF BeatGeneration
  <2>2. parent' \in [Deliveries -> Parents]
    <3>1. /\ Losing(n, "failed") \in [Deliveries -> Parents]
          /\ Losing(n, "overtaken") \in [Deliveries -> Parents]
      BY ClosingType DEF Endings, Results
    <3>2. [parent EXCEPT ![n] = [NoParent EXCEPT !.pc = "watching"]] \in [Deliveries -> Parents]
      BY ParentAt
    <3> QED BY <1>2, <3>1, <3>2 DEF BeatGeneration
  <2> QED BY <1>2, <2>1, <2>2 DEF BeatGeneration
<1>3. CASE TimeOut(n)
  <2>1. generation' \in Generations
    BY <1>3, EndedType DEF TimeOut, Over
  <2>2. parent' \in [Deliveries -> Parents]
    <3>1. parent[n].status \in Endings \cup {"none"}
      BY DEF Parents
    <3> QED BY <1>3, <3>1, ClosingType DEF TimeOut
  <2>3. lost' \subseteq Deliveries
    BY <1>3, LostWithItsCall DEF TimeOut
  <2> QED BY <1>3, <2>1, <2>2, <2>3, GoneEnds DEF TimeOut
<1>4. CASE Collect(n)
  <2>1. job' \in Jobs /\ job'.attempt = job.attempt
    BY <1>4, BeatenType DEF Collect
  <2>2. parent' \in [Deliveries -> Parents]
    <3>1. Closing(n, child[n].pc) \in [Deliveries -> Parents]
      BY <1>4, ClosingType DEF Collect, Endings
    <3>2. [parent EXCEPT ![n] = [NoParent EXCEPT !.pc = "gone"]] \in [Deliveries -> Parents]
      BY DEF Parents, NoParent
    <3> QED BY <1>4, <3>1, <3>2 DEF Collect
  <2> QED BY <1>4, <2>1, <2>2, GoneEnds DEF Collect
<1>0. ASSUME GiveUp(n) PROVE generation' \in Generations /\ parent' \in [Deliveries -> Parents]
  <2>1. "queued" \in Open \cup Over /\ "needs_verification" \in Open \cup Over
    BY DEF Open, Over
  <2>2. "returned" \in Endings /\ "abandoned" \in Endings
    BY DEF Endings
  <2> QED BY <1>0, <2>1, <2>2, EndedType, ClosingType DEF GiveUp
<1>5. CASE Abandon(n)
  BY <1>0, <1>5, GoneEnds DEF Abandon
<1>8. CASE ParentErrs(n)
  <2>1. /\ lost' \subseteq Deliveries
        /\ faults' \in 0 .. MaxFaults
        /\ child' \in {child, Gone(n)}
    BY <1>8, LostWithItsCall DEF ParentErrs
  <2> QED BY <1>0, <1>8, <2>1, GoneEnds DEF ParentErrs
<1>6. CASE Finish(n)
  <2>1. job' \in Jobs /\ job'.attempt = job.attempt
    <3>1. 0 \in 0 .. Visibility
      OBVIOUS
    <3>2. PICK state \in {"queued", "completed", "failed"}, delay \in 0 .. Visibility :
             job' = Closed(n, state, delay)
      BY <1>6, <3>1, HalfIsADelay DEF Finish
    <3> QED BY <3>2, ClosedType
  <2>2. parent' \in [Deliveries -> Parents]
    BY <1>6 DEF Finish, Parents, NoParent
  <2> QED BY <1>6, <2>1, <2>2 DEF Finish
<1>7. CASE ParentDies(n)
  <2>1. parent' \in [Deliveries -> Parents]
    BY <1>7 DEF ParentDies, Parents, NoParent
  <2>2. lost' \subseteq Deliveries
    BY <1>7, LostWithItsCall DEF ParentDies
  <2>3. faults' \in 0 .. MaxFaults
    BY <1>7 DEF ParentDies
  <2> QED BY <1>7, <2>1, <2>2, <2>3, GoneEnds DEF ParentDies
<1> QED BY <1>1, <1>2, <1>3, <1>4, <1>5, <1>6, <1>7, <1>8 DEF ParentStep

\* So do the child's.
LEMMA ChildTypeStep ==
  ASSUME Typing, NEW n \in Deliveries, ChildStep(n) \/ ChildDies(n)
  PROVE  Typing'
<1> USE ReportAssumption DEF Typing, TypeOK, AttemptsAreBounded
<1>0. /\ \A result \in Results \cup {"dead"} :
            /\ Left(n, result) \in [Deliveries -> Children]
            /\ Left(n, result)[n].pc # "starting"
            /\ \A m \in Deliveries \ {n} : Left(n, result)[m] = child[m]
      /\ \A state \in Open \cup Over : Ended(state) \in Generations
  <2>1. ASSUME NEW result \in Results \cup {"dead"}
        PROVE  /\ Left(n, result) \in [Deliveries -> Children]
               /\ Left(n, result)[n].pc # "starting"
               /\ \A m \in Deliveries \ {n} : Left(n, result)[m] = child[m]
    <3>1. result # "starting"
      BY DEF Results
    <3> QED BY <3>1, LeftEnds
  <2> QED BY <2>1, EndedType
<1>1. CASE Claim(n)
  <2>1. generation' \in Generations
    <3>1. /\ [state |-> "running", token |-> n, age |-> 0] \in Generations
          /\ [state |-> "failed", token |-> 0, age |-> 0] \in Generations
      BY DEF Generations, Open, Over, Deliveries
    <3>2. Ended("needs_verification") \in Generations
      BY <1>0 DEF Over
    <3> QED BY <1>1, <3>1, <3>2 DEF Claim
  <2>2. used' \subseteq 1 .. MaxDeliveries
    BY <1>1 DEF Claim
  <2>3. \/ \E result \in Results : child' = Left(n, result)
        \/ child' = [child EXCEPT ![n].pc = "claimed"]
    BY <1>1 DEF Claim, Results
  <2>4. CASE \E result \in Results : child' = Left(n, result)
    BY <1>0, <1>1, <2>1, <2>2, <2>4 DEF Claim
  <2>5. CASE child' = [child EXCEPT ![n].pc = "claimed"]
    <3>1. child' \in [Deliveries -> Children]
      BY <2>5 DEF Children, Live
    <3> QED BY <1>1, <2>1, <2>2, <2>5, <3>1 DEF Claim
  <2> QED BY <2>3, <2>4, <2>5
<1>2. CASE Prepare(n)
  <2>1. generation' \in Generations
    <3>1. [generation EXCEPT !.age = 0] \in Generations
      BY DEF Generations
    <3> QED BY <1>0, <1>2, <3>1 DEF Prepare, Over
  <2>2. CASE \E result \in Results : child' = Left(n, result)
    BY <1>0, <1>2, <2>1, <2>2 DEF Prepare
  <2>3. CASE child' = [child EXCEPT ![n].pc = "ready"]
    <3>1. child' \in [Deliveries -> Children]
      BY <2>3 DEF Children, Live
    <3> QED BY <1>2, <2>1, <2>3, <3>1 DEF Prepare
  <2> QED BY <1>2, <2>2, <2>3 DEF Prepare, Results
<1>3. CASE BeginCall(n)
  <2>1. generation' \in Generations /\ started' \in BOOLEAN
    BY <1>0, <1>3 DEF BeginCall, Over
  <2>2. CASE \E result \in Results : child' = Left(n, result)
    BY <1>0, <1>3, <2>1, <2>2 DEF BeginCall
  <2>3. CASE child' = [child EXCEPT ![n].pc = "calling"]
    <3>1. child' \in [Deliveries -> Children]
      BY <2>3 DEF Children, Live
    <3> QED BY <1>3, <2>1, <2>3, <3>1 DEF BeginCall
  <2> QED BY <1>3, <2>2, <2>3 DEF BeginCall, Results
<1>4. ASSUME NEW answer \in Answers, EndCall(n, answer) PROVE Typing'
  <2>1. generation' \in Generations
    BY <1>0, <1>4 DEF EndCall, Open, Over
  <2>2. PICK result \in Results : child' = Left(n, result)
    BY <1>4 DEF EndCall, Results
  <2>3. lost' \subseteq Deliveries
    BY <1>4 DEF EndCall
  <2> QED BY <1>0, <1>4, <2>1, <2>2, <2>3 DEF EndCall
<1>5. CASE ChildDies(n)
  <2>1. lost' \subseteq Deliveries
    BY <1>5, LostWithItsCall DEF ChildDies
  <2>2. faults' \in 0 .. MaxFaults
    BY <1>5 DEF ChildDies
  <2> QED BY <1>0, <1>5, <2>1, <2>2 DEF ChildDies
<1> QED BY <1>1, <1>2, <1>3, <1>4, <1>5 DEF ChildStep

\* Every step keeps every type.
LEMMA TypeStep == Typing /\ [Next]_vars => Typing'
<1> SUFFICES ASSUME Typing, [Next]_vars PROVE Typing'
  OBVIOUS
<1> USE ReportAssumption DEF Typing, TypeOK, AttemptsAreBounded
<1>1. CASE Request
  <2>1. NewJob \in Jobs /\ NewJob.attempt = 0
    BY DEF NewJob, Jobs
  <2> QED BY <1>1, <2>1 DEF Request
<1>2. CASE ClaimJob
  <2> DEFINE n == delivered + 1
  <2>1. n \in Deliveries /\ n \in 0 .. MaxDeliveries /\ job.attempt + 1 \in 1 .. n
    BY <1>2 DEF ClaimJob, Deliveries, Jobs
  <2>2. job' \in Jobs /\ job'.attempt <= delivered'
    BY <1>2, <2>1 DEF ClaimJob, Jobs
  <2>3. parent' \in [Deliveries -> Parents]
    <3>1. [parent EXCEPT ![n] = [NoParent EXCEPT !.pc = "watching"]] \in [Deliveries -> Parents]
      BY <2>1 DEF Parents, NoParent
    <3>2. Closing(n, "completed") \in [Deliveries -> Parents]
      BY <2>1, ClosingType DEF Endings, Results
    <3> QED BY <1>2, <3>1, <3>2 DEF ClaimJob
  <2>4. /\ child' \in [Deliveries -> Children]
        /\ \A m \in Deliveries : child'[m].pc = "starting" => child'[m].attempt \in 1 .. MaxDeliveries
    <3>1. [pc |-> "starting", attempt |-> job.attempt + 1] \in Children
          /\ job.attempt + 1 \in 1 .. MaxDeliveries
      BY <2>1 DEF Children, Live, Deliveries
    <3> QED BY <1>2, <2>1, <3>1 DEF ClaimJob
  <2> QED BY <1>2, <2>1, <2>2, <2>3, <2>4 DEF ClaimJob
<1>3. CASE Tick
  <2>1. generation' \in Generations
    BY <1>3 DEF Tick, Generations
  <2>2. job' \in Jobs /\ job'.attempt = job.attempt
    <3>1. /\ (IF job.left > 0 THEN job.left - 1 ELSE 0) \in 0 .. Visibility
          /\ (IF job.wait > 0 THEN job.wait - 1 ELSE 0) \in 0 .. Visibility
      BY DEF Jobs
    <3> QED BY <1>3, <3>1 DEF Tick, Jobs
  <2>3. parent' \in [Deliveries -> Parents]
    <3>1. \A n \in Deliveries : Watched(n) \in BOOLEAN
      BY DEF Watched
    <3>2. \A n \in Deliveries : [parent[n] EXCEPT !.due = Watched(n)] \in Parents
      BY <3>1 DEF Parents
    <3> QED BY <1>3, <3>2 DEF Tick
  <2>4. faults' \in 0 .. MaxFaults
    BY <1>3 DEF Tick
  <2> QED BY <1>3, <2>1, <2>2, <2>3, <2>4 DEF Tick
<1>4. CASE UNCHANGED vars
  BY <1>4 DEF vars
<1> QED BY <1>1, <1>2, <1>3, <1>4, ParentTypeStep, ChildTypeStep DEF Next

-----------------------------------------------------------------------------
(* A call in doubt holds the row.                                          *)

\* Only a claim of the job begins a delivery; it is a new one.
LEMMA DeliveredStep == Typing /\ RunsAreDelivered /\ [Next]_vars => RunsAreDelivered'
<1> SUFFICES ASSUME Typing, RunsAreDelivered, [Next]_vars PROVE RunsAreDelivered'
  OBVIOUS
<1> USE DEF Typing, TypeOK, RunsAreDelivered
<1>1. CASE ClaimJob
  <2>1. delivered \in Nat /\ delivered' = delivered + 1
    BY <1>1, ReportAssumption DEF ClaimJob
  <2>2. \A m \in Deliveries \ {delivered'} : child'[m] = child[m] /\ parent'[m] = parent[m]
    BY <1>1, <2>1 DEF ClaimJob, Closing
  <2> QED BY <2>1, <2>2, ReportAssumption DEF Deliveries
<1>2. ASSUME NEW n \in Deliveries, ParentStep(n) \/ ParentErrs(n) \/ ParentDies(n) PROVE RunsAreDelivered'
  <2>1. parent[n].pc # "none" /\ delivered' = delivered
    BY <1>2 DEF ParentStep, ParentErrs, ParentDies, BeatJob, BeatGeneration, TimeOut, Collect, Abandon, Finish
  <2>2. child' \in {child, Gone(n)}
    BY <1>2 DEF ParentStep, ParentErrs, ParentDies, BeatJob, BeatGeneration, TimeOut, Collect, Abandon, Finish
  <2>3. \A m \in Deliveries \ {n} : child'[m] = child[m]
    BY <2>2, GoneEnds
  <2>4. \A m \in Deliveries \ {n} : parent'[m] = parent[m]
    BY <1>2 DEF ParentStep, ParentErrs, ParentDies, BeatJob, BeatGeneration, TimeOut, Collect, Abandon, Finish,
                GiveUp, Closing, Losing
  <2> QED BY <2>1, <2>3, <2>4
<1>3. ASSUME NEW n \in Deliveries, ChildStep(n) \/ ChildDies(n) PROVE RunsAreDelivered'
  <2>1. child[n].pc # "none" /\ delivered' = delivered /\ parent' = parent
    BY <1>3 DEF ChildStep, ChildDies, Claim, Prepare, BeginCall, EndCall, Live, Results
  <2>2. \/ \E result \in Results \cup {"dead"} : child' = Left(n, result)
        \/ \E pc \in Live : child' = [child EXCEPT ![n].pc = pc]
    <3>1. CASE Claim(n)
      BY <3>1 DEF Claim, Results, Live
    <3>2. CASE Prepare(n)
      BY <3>2 DEF Prepare, Results, Live
    <3>3. CASE BeginCall(n)
      BY <3>3 DEF BeginCall, Results, Live
    <3>4. CASE \E a \in Answers : EndCall(n, a)
      BY <3>4 DEF EndCall, Results
    <3>5. CASE ChildDies(n)
      BY <3>5 DEF ChildDies
    <3> QED BY <1>3, <3>1, <3>2, <3>3, <3>4, <3>5 DEF ChildStep
  <2>3. \A m \in Deliveries \ {n} : child'[m] = child[m]
    BY <2>2, LeftEnds
  <2> QED BY <2>1, <2>3
<1>4. CASE Request
  BY <1>4 DEF Request
<1>5. CASE Tick
  <2>1. \A m \in Deliveries : parent'[m].pc = parent[m].pc
    BY <1>5 DEF Tick, Parents
  <2> QED BY <1>5, <2>1 DEF Tick
<1>6. CASE UNCHANGED vars
  BY <1>6 DEF vars
<1> QED BY <1>1, <1>2, <1>3, <1>4, <1>5, <1>6 DEF Next

\* What the doubt depends on: lost calls are not live, and whoever is in doubt
\* finds the row in its own hands or waiting for a person.
Doubts == LostCallsAreOver /\ DoubtHoldsTheRow

\* A step that adds nothing in doubt and takes the row from nobody in doubt.
LEMMA NoNewDoubt ==
  ASSUME Typing, Doubts,
         lost' = lost, started' = started, delivered' = delivered,
         \A m \in Deliveries : child'[m].pc \in Live => child'[m].pc = child[m].pc \/ m \notin lost,
         \A m \in Deliveries : child'[m].pc = "calling" => child[m].pc = "calling",
         \/ generation' = generation
         \/ \E n \in Deliveries : Owned(n) /\ (~InDoubt(n) \/ generation'.state = "needs_verification")
         \/ generation.state = "running" /\ generation' = [generation EXCEPT !.age = generation'.age]
         \/ generation.state = "queued"
         \/ generation.state = "running" /\ (~started \/ generation'.state = "needs_verification")
  PROVE  Doubts'
<1> USE DEF Doubts, LostCallsAreOver, DoubtHoldsTheRow, InDoubt
<1>1. LostCallsAreOver'
  BY DEF Typing, TypeOK
<1>2. ASSUME NEW m \in Deliveries, InDoubt(m)'
      PROVE  started' /\ (generation'.state = "needs_verification" \/ Owned(m)')
  <2>1. InDoubt(m) /\ started /\ (generation.state = "needs_verification" \/ Owned(m))
    BY <1>2
  <2>2. CASE \E n \in Deliveries : Owned(n) /\ (~InDoubt(n) \/ generation'.state = "needs_verification")
    BY <2>1, <2>2 DEF Owned
  <2>3. CASE generation.state = "running" /\ generation' = [generation EXCEPT !.age = generation'.age]
    BY <2>1, <2>3 DEF Owned, Typing, TypeOK, Generations
  <2> QED BY <2>1, <2>2, <2>3 DEF Owned
<1> QED BY <1>1, <1>2

\* The parent: a call it kills is lost while the row is still its own or waits
\* for a person, and a row it hands back knows of no call.
LEMMA ParentDoubtStep ==
  ASSUME Typing, RunsAreDelivered, Doubts, NEW n \in Deliveries, ParentStep(n) \/ ParentErrs(n) \/ ParentDies(n)
  PROVE  Doubts'
<1> USE DEF Typing, TypeOK
<1>1. CASE BeatJob(n) \/ Finish(n)
  BY <1>1, NoNewDoubt DEF BeatJob, Finish
<1>2. CASE BeatGeneration(n)
  <2>1. \/ generation' = generation
        \/ Owned(n) /\ generation'.state = "needs_verification"
        \/ generation.state = "running" /\ generation' = [generation EXCEPT !.age = generation'.age]
    BY <1>2 DEF BeatGeneration, Ended, Owned, Generations
  <2> QED BY <1>2, <2>1, NoNewDoubt DEF BeatGeneration
<1>3. CASE Collect(n) \/ Abandon(n)
  <2>1. child[n].pc \notin Live /\ child' = Gone(n)
    BY <1>3 DEF Collect, Abandon, Results, Live
  <2>2. \A m \in Deliveries : child'[m].pc \in Live => child'[m] = child[m]
    BY <2>1, GoneEnds DEF Live
  <2>3. \/ generation' = generation
        \/ generation.state = "running" /\ (~started \/ generation'.state = "needs_verification")
    BY <1>3 DEF Collect, Abandon, GiveUp, Ended, Owned
  <2>4. lost' = lost /\ started' = started /\ delivered' = delivered
    BY <1>3 DEF Collect, Abandon
  <2>5. "calling" \in Live
    BY DEF Live
  <2>6. \A m \in Deliveries : child'[m].pc = "calling" => child[m].pc = "calling"
    BY <2>2, <2>5
  <2> QED BY <2>2, <2>3, <2>4, <2>6, NoNewDoubt
<1>4. CASE TimeOut(n) \/ ParentErrs(n) \/ ParentDies(n)
  <2>1. \/ child' = Gone(n) /\ lost' = LostWith(n)
        \/ child' = child /\ lost' = lost
    BY <1>4 DEF TimeOut, ParentErrs, ParentDies
  <2>2. \A m \in Deliveries : child'[m].pc \in Live => child'[m] = child[m]
    BY <2>1, GoneEnds DEF Live
  <2>3. n <= delivered /\ delivered' = delivered /\ started' = started
    BY <1>4 DEF TimeOut, ParentErrs, ParentDies, RunsAreDelivered
  <2>4. LostCallsAreOver'
    <3>1. ASSUME NEW m \in lost' PROVE m <= delivered' /\ child'[m].pc \notin Live
      <4>1. CASE m \in lost
        BY <2>2, <2>3, <4>1 DEF Doubts, LostCallsAreOver
      <4>2. CASE m \notin lost
        <5>1. m = n /\ child'[n].pc = "gone"
          BY <2>1, <3>1, <4>2, LostWithItsCall, GoneEnds
        <5> QED BY <2>3, <5>1 DEF Live
      <4> QED BY <4>1, <4>2
    <3> QED BY <3>1 DEF LostCallsAreOver
  <2>5. \A m \in Deliveries : InDoubt(m)' => InDoubt(m)
    <3>1. \A m \in Deliveries : m \in lost' => InDoubt(m)
      BY <2>1, LostWithItsCall DEF InDoubt
    <3>2. \A m \in Deliveries : child'[m].pc = "calling" => child[m].pc = "calling"
      BY <2>2 DEF Live
    <3> QED BY <3>1, <3>2 DEF InDoubt
  <2>6. \/ generation' = generation
        \/ Owned(n) /\ generation'.state = "needs_verification"
        \/ ~started
    BY <1>4 DEF TimeOut, ParentErrs, ParentDies, GiveUp, Ended
  <2>7. DoubtHoldsTheRow'
    BY <2>3, <2>5, <2>6 DEF Doubts, DoubtHoldsTheRow, Owned
  <2> QED BY <2>4, <2>7 DEF Doubts
<1> QED BY <1>1, <1>2, <1>3, <1>4 DEF ParentStep

\* The child: it takes a row that nobody in doubt holds, begins its call only
\* with the row in its hands, and ends a call with its answer or in doubt.
LEMMA ChildDoubtStep ==
  ASSUME Typing, RunsAreDelivered, Doubts, NEW n \in Deliveries, ChildStep(n) \/ ChildDies(n)
  PROVE  Doubts'
<1> USE DEF Typing, TypeOK
<1>0. ASSUME NEW result \in Results \cup {"dead"}, child' = Left(n, result)
      PROVE  /\ \A m \in Deliveries : child'[m].pc \in Live => child'[m] = child[m]
             /\ child'[n].pc \notin Live
  <2>1. Left(n, result)[n].pc \notin Live
    BY LeftEnds DEF Live, Results
  <2> QED BY <1>0, <2>1, LeftEnds
<1>1. CASE Claim(n)
  <2>1. \/ \E result \in Results : child' = Left(n, result)
        \/ child' = [child EXCEPT ![n].pc = "claimed"]
    BY <1>1 DEF Claim, Results
  <2>2. child[n].pc = "starting" /\ n \notin lost
    BY <1>1 DEF Claim, Doubts, LostCallsAreOver, Live
  <2>3. /\ \A m \in Deliveries : child'[m].pc \in Live => child'[m].pc = child[m].pc \/ m \notin lost
        /\ \A m \in Deliveries : child'[m].pc = "calling" => child[m].pc = "calling"
    <3>1. CASE \E result \in Results : child' = Left(n, result)
      BY <1>0, <3>1 DEF Live
    <3>2. CASE child' = [child EXCEPT ![n].pc = "claimed"]
      BY <2>2, <3>2
    <3> QED BY <2>1, <3>1, <3>2
  <2>4. \/ generation' = generation
        \/ generation.state = "queued"
        \/ generation.state = "running" /\ (~started \/ generation'.state = "needs_verification")
    BY <1>1 DEF Claim, Deserted, Ended
  <2>5. lost' = lost /\ started' = started /\ delivered' = delivered
    BY <1>1 DEF Claim
  <2> QED BY <2>3, <2>4, <2>5, NoNewDoubt
<1>2. CASE Prepare(n)
  <2>1. \/ \E result \in Results : child' = Left(n, result)
        \/ child' = [child EXCEPT ![n].pc = "ready"]
    BY <1>2 DEF Prepare, Results
  <2>2. child[n].pc = "claimed" /\ n \notin lost
    BY <1>2 DEF Prepare, Doubts, LostCallsAreOver, Live
  <2>3. /\ \A m \in Deliveries : child'[m].pc \in Live => child'[m].pc = child[m].pc \/ m \notin lost
        /\ \A m \in Deliveries : child'[m].pc = "calling" => child[m].pc = "calling"
    <3>1. CASE \E result \in Results : child' = Left(n, result)
      BY <1>0, <3>1 DEF Live
    <3>2. CASE child' = [child EXCEPT ![n].pc = "ready"]
      BY <2>2, <3>2
    <3> QED BY <2>1, <3>1, <3>2
  <2>4. generation' = generation \/ (Owned(n) /\ ~InDoubt(n))
    BY <1>2, <2>2 DEF Prepare, InDoubt
  <2>5. lost' = lost /\ started' = started /\ delivered' = delivered
    BY <1>2 DEF Prepare
  <2> QED BY <2>3, <2>4, <2>5, NoNewDoubt
<1>3. CASE BeginCall(n)
  <2>1. child[n].pc = "ready" /\ n \notin lost
    BY <1>3 DEF BeginCall, Doubts, LostCallsAreOver, Live
  <2>2. CASE /\ started' = started
             /\ \E result \in Results : child' = Left(n, result)
    <3>1. /\ \A m \in Deliveries : child'[m].pc \in Live => child'[m].pc = child[m].pc \/ m \notin lost
          /\ \A m \in Deliveries : child'[m].pc = "calling" => child[m].pc = "calling"
      BY <1>0, <2>2 DEF Live
    <3>2. generation' = generation \/ (Owned(n) /\ ~InDoubt(n))
      BY <1>3, <2>1 DEF BeginCall, InDoubt
    <3>3. lost' = lost /\ started' = started /\ delivered' = delivered
      BY <1>3, <2>2 DEF BeginCall
    <3> QED BY <3>1, <3>2, <3>3, NoNewDoubt
  <2>3. CASE /\ Owned(n) /\ started' = TRUE /\ generation' = generation
             /\ child' = [child EXCEPT ![n].pc = "calling"]
    <3>1. lost' = lost /\ delivered' = delivered
      BY <1>3 DEF BeginCall
    <3> QED BY <2>1, <2>3, <3>1 DEF Doubts, LostCallsAreOver, DoubtHoldsTheRow, InDoubt, Owned
  <2> QED BY <1>3, <2>2, <2>3 DEF BeginCall, Results
<1>4. ASSUME NEW answer \in Answers, EndCall(n, answer) PROVE Doubts'
  <2>1. PICK result \in Results : child' = Left(n, result)
    BY <1>4 DEF EndCall, Results
  <2>2. /\ \A m \in Deliveries : child'[m].pc \in Live => child'[m] = child[m]
        /\ child'[n].pc \notin Live
    BY <1>0, <2>1
  <2>3. /\ n <= delivered /\ delivered' = delivered
        /\ started' = started
        /\ lost' \in {lost, lost \cup {n}}
        /\ child[n].pc = "calling"
    BY <1>4 DEF EndCall, RunsAreDelivered
  <2>4. started /\ (generation.state = "needs_verification" \/ Owned(n)) /\ n \notin lost
    BY <2>3 DEF Doubts, DoubtHoldsTheRow, LostCallsAreOver, InDoubt, Live
  <2>5. LostCallsAreOver'
    BY <2>2, <2>3 DEF Doubts, LostCallsAreOver
  <2>6. /\ Owned(n) \/ generation' = generation
        /\ n \in lost' => generation'.state = "needs_verification"
    BY <1>4, <2>4 DEF EndCall, Ended, Answers
  <2>7. ASSUME NEW m \in Deliveries, InDoubt(m)'
        PROVE  started' /\ (generation'.state = "needs_verification" \/ Owned(m)')
    <3>1. CASE m = n
      <4>1. n \in lost'
        BY <2>2, <2>7, <3>1 DEF InDoubt, Live
      <4> QED BY <2>3, <2>4, <2>6, <3>1, <4>1
    <3>2. CASE m # n
      <4>1. InDoubt(m)
        BY <2>2, <2>3, <2>7, <3>2 DEF InDoubt, Live
      <4> QED BY <2>3, <2>6, <3>2, <4>1 DEF Doubts, DoubtHoldsTheRow, Owned
    <3> QED BY <3>1, <3>2
  <2> QED BY <2>5, <2>7 DEF Doubts, DoubtHoldsTheRow
<1>5. CASE ChildDies(n)
  <2>1. child' = Left(n, "dead") /\ lost' = LostWith(n)
        /\ UNCHANGED <<generation, started, delivered>>
    BY <1>5 DEF ChildDies
  <2>2. /\ \A m \in Deliveries : child'[m].pc \in Live => child'[m] = child[m]
        /\ child'[n].pc \notin Live
    BY <1>0, <2>1
  <2>3. n <= delivered
    BY <1>5 DEF ChildDies, RunsAreDelivered, Live, Results
  <2>4. LostCallsAreOver'
    BY <2>1, <2>2, <2>3, LostWithItsCall DEF Doubts, LostCallsAreOver
  <2>5. \A m \in Deliveries : InDoubt(m)' => InDoubt(m)
    BY <2>1, <2>2, LostWithItsCall DEF InDoubt, Live
  <2> QED BY <2>1, <2>4, <2>5 DEF Doubts, DoubtHoldsTheRow, Owned
<1> QED BY <1>1, <1>2, <1>3, <1>4, <1>5 DEF ChildStep

-----------------------------------------------------------------------------
(* The theorems.                                                           *)

\* The invariant holds before anything was asked for.
LEMMA InitInv == Init => IndInv
<1> SUFFICES ASSUME Init PROVE IndInv
  OBVIOUS
<1> USE ReportAssumption DEF Init
<1>0. 0 \in 0 .. MaxDeliveries /\ 0 \in 0 .. Visibility /\ 0 \in 0 .. Visibility + 1
  OBVIOUS
<1>1. generation \in Generations
  BY <1>0 DEF Generations, Open
<1>2. job \in Jobs /\ job.attempt = 0
  BY <1>0 DEF Jobs, NewJob
<1>3. parent \in [Deliveries -> Parents] /\ child \in [Deliveries -> Children]
  BY DEF Parents, Children, NoParent, NoChild
<1>4. \A n \in Deliveries : child[n].pc = "none" /\ parent[n].pc = "none"
  BY DEF NoParent, NoChild
<1>5. Typing
  <2>1. delivered \in 0 .. MaxDeliveries /\ requests \in 1 .. MaxRequests /\ faults \in 0 .. MaxFaults
    OBVIOUS
  <2>2. job.attempt <= delivered
    BY <1>2
  <2>3. \A n \in Deliveries : child[n].pc # "starting"
    BY <1>4
  <2> HIDE ReportAssumption
  <2> QED BY <1>1, <1>2, <1>3, <2>1, <2>2, <2>3 DEF Typing, TypeOK, AttemptsAreBounded
<1> QED
  BY <1>4, <1>5 DEF IndInv, RunsAreDelivered, LostCallsAreOver, DoubtHoldsTheRow, InDoubt

\* The owner's request, the claim of the job and time create no doubt.
LEMMA InvStep == IndInv /\ [Next]_vars => IndInv'
<1> SUFFICES ASSUME IndInv, [Next]_vars PROVE IndInv'
  OBVIOUS
<1>1. Typing /\ RunsAreDelivered /\ Doubts
  BY DEF IndInv, Doubts
<1>2. Typing' /\ RunsAreDelivered'
  BY <1>1, TypeStep, DeliveredStep
<1>3. Doubts'
  <2>1. CASE Request
    BY <1>1, <2>1, NoNewDoubt DEF Request
  <2>2. CASE ClaimJob
    <3> DEFINE n == delivered + 1
    <3>1. n \notin lost /\ delivered \in Nat /\ delivered' = n
      BY <1>1, <2>2 DEF ClaimJob, Doubts, LostCallsAreOver, Typing, TypeOK
    <3>2. UNCHANGED <<generation, started, lost>>
      BY <2>2 DEF ClaimJob
    <3>3. /\ \A m \in Deliveries \ {n} : child'[m] = child[m]
          /\ n \in Deliveries /\ child'[n].pc = "calling" => child[n].pc = "calling"
      <4>1. \/ child' = child
            \/ child' = [child EXCEPT ![n] = [pc |-> "starting", attempt |-> job.attempt + 1]]
        BY <2>2 DEF ClaimJob
      <4> QED BY <1>1, <4>1 DEF Typing, TypeOK
    <3>4. LostCallsAreOver'
      <4>1. \A m \in lost : m \in Deliveries \ {n} /\ m <= delivered
        BY <1>1, <3>1 DEF Doubts, LostCallsAreOver, Typing, TypeOK
      <4>2. \A m \in lost : m <= delivered'
        BY <3>1, <4>1 DEF Deliveries
      <4> QED BY <1>1, <3>2, <3>3, <4>1, <4>2 DEF Doubts, LostCallsAreOver
    <3>5. DoubtHoldsTheRow'
      <4>1. \A m \in Deliveries : InDoubt(m)' => InDoubt(m)
        BY <3>2, <3>3 DEF InDoubt
      <4> QED BY <1>1, <3>2, <4>1 DEF Doubts, DoubtHoldsTheRow, Owned
    <3> QED BY <3>4, <3>5 DEF Doubts
  <2>3. CASE Tick
    <3>1. \/ generation' = generation
          \/ generation.state = "running" /\ generation' = [generation EXCEPT !.age = generation'.age]
      BY <1>1, <2>3 DEF Tick, Typing, TypeOK, Generations
    <3> QED BY <1>1, <2>3, <3>1, NoNewDoubt DEF Tick
  <2>4. CASE UNCHANGED vars
    BY <1>1, <2>4, NoNewDoubt DEF vars
  <2>5. ASSUME NEW n \in Deliveries, ParentStep(n) \/ ParentErrs(n) \/ ParentDies(n) PROVE Doubts'
    BY <1>1, <2>5, ParentDoubtStep
  <2>6. ASSUME NEW n \in Deliveries, ChildStep(n) \/ ChildDies(n) PROVE Doubts'
    BY <1>1, <2>6, ChildDoubtStep
  <2> QED BY <2>1, <2>2, <2>3, <2>4, <2>5, <2>6 DEF Next
<1> QED
  BY <1>2, <1>3 DEF IndInv, Doubts

\* The invariant holds throughout.
THEOREM Invariance == Spec => []IndInv
<1> QED BY InitInv, InvStep, PTL DEF Spec

\* Every row and every process keeps its type.
THEOREM TypeCorrect == Spec => []TypeOK
<1>1. IndInv => TypeOK
  BY DEF IndInv, Typing
<1> QED BY <1>1, Invariance, PTL

\* A call begins only in the hands of the row's holder, and whoever is in doubt
\* holds the row himself or has left it to a person.
LEMMA CallStep ==
  ASSUME IndInv, [Next]_vars, NEW n \in Deliveries,
         child[n].pc # "calling", child'[n].pc = "calling"
  PROVE  lost = {} /\ \A m \in Deliveries : child[m].pc # "calling"
<1> USE DEF IndInv, Typing, TypeOK
<1>1. BeginCall(n) /\ Owned(n)
  <2>1. ASSUME NEW m \in Deliveries, NEW result \in Results \cup {"dead"}, child' = Left(m, result)
        PROVE  FALSE
    BY <2>1, LeftEnds DEF Results
  <2>2. ASSUME NEW m \in Deliveries, child' = Gone(m) PROVE FALSE
    BY <2>2, GoneEnds
  <2>3. ASSUME NEW m \in Deliveries, ParentStep(m) \/ ParentErrs(m) \/ ParentDies(m) PROVE FALSE
    <3>1. child' \in {child, Gone(m)}
      BY <2>3 DEF ParentStep, ParentErrs, ParentDies, BeatJob, BeatGeneration, TimeOut, Collect, Abandon, Finish
    <3> QED BY <2>2, <3>1
  <2>4. ASSUME NEW m \in Deliveries, ChildStep(m) \/ ChildDies(m) PROVE BeginCall(n) /\ Owned(n)
    <3>1. CASE Claim(m)
      <4>1. (\E result \in Results : child' = Left(m, result)) \/ child' = [child EXCEPT ![m].pc = "claimed"]
        BY <3>1 DEF Claim, Results
      <4>2. ASSUME child' = [child EXCEPT ![m].pc = "claimed"] PROVE FALSE
        BY <4>2
      <4> QED BY <2>1, <4>1, <4>2
    <3>2. CASE Prepare(m)
      <4>1. (\E result \in Results : child' = Left(m, result)) \/ child' = [child EXCEPT ![m].pc = "ready"]
        BY <3>2 DEF Prepare, Results
      <4>2. ASSUME child' = [child EXCEPT ![m].pc = "ready"] PROVE FALSE
        BY <4>2
      <4> QED BY <2>1, <4>1, <4>2
    <3>3. CASE BeginCall(m)
      <4>1. child' \notin {Left(m, "stale"), Left(m, "failed")}
        BY <2>1 DEF Results
      <4>2. Owned(m) /\ child' = [child EXCEPT ![m].pc = "calling"]
        BY <3>3, <4>1 DEF BeginCall
      <4>3. m = n
        BY <4>2
      <4> QED BY <3>3, <4>2, <4>3
    <3>4. CASE \E a \in Answers : EndCall(m, a)
      <4>1. \E result \in Results : child' = Left(m, result)
        BY <3>4 DEF EndCall, Results
      <4> QED BY <2>1, <4>1
    <3>5. CASE ChildDies(m)
      BY <2>1, <3>5 DEF ChildDies
    <3> QED BY <2>4, <3>1, <3>2, <3>3, <3>4, <3>5 DEF ChildStep
  <2>5. ~(Request \/ Tick \/ UNCHANGED vars)
    BY DEF Request, Tick, vars
  <2>6. ~ClaimJob
    <3>1. SUFFICES ASSUME ClaimJob PROVE FALSE
      OBVIOUS
    <3>2. \/ child' = child
          \/ child' = [child EXCEPT ![delivered + 1] = [pc |-> "starting", attempt |-> job.attempt + 1]]
      BY <3>1 DEF ClaimJob
    <3> QED BY <3>2
  <2> QED BY <2>3, <2>4, <2>5, <2>6 DEF Next
<1>2. ~InDoubt(n)
  BY <1>1 DEF BeginCall, InDoubt, LostCallsAreOver, Live
<1>3. \A m \in Deliveries : ~InDoubt(m)
  BY <1>1, <1>2 DEF DoubtHoldsTheRow, Owned
<1> QED BY <1>3 DEF InDoubt

\* The provider is never called while another call of the generation is under way
\* or ended without an answer.
THEOREM NoCallIsRepeated == Spec => NoCallIsRepeatedInDoubt
<1>1. IndInv /\ [Next]_vars =>
         [\A n \in Deliveries :
             (child[n].pc # "calling" /\ child'[n].pc = "calling") =>
                 (lost = {} /\ \A m \in Deliveries : child[m].pc # "calling")]_vars
  BY CallStep
<1> QED BY <1>1, Invariance, PTL DEF Spec, NoCallIsRepeatedInDoubt

\* A call without an answer ends in front of a person, whatever comes later.
THEOREM DoubtIsKeptForAPerson == Spec => []DoubtIsKept
<1>1. IndInv => DoubtIsKept
  BY DEF IndInv, Typing, TypeOK, DoubtHoldsTheRow, InDoubt, Owned, DoubtIsKept
<1> QED BY <1>1, Invariance, PTL

-----------------------------------------------------------------------------
(* What a delivery may conclude when it ends.                              *)

\* A child that says the generation is over says so of one that is.
OverIsTrue ==
    \A n \in Deliveries :
        child[n].pc \in {"completed", "needs_verification", "failed"} => generation.state \in Over

\* The endings that say nothing of that kind: the first four hand the job back.
Undecided == {"retry", "contended", "stale", "returned", "abandoned", "overtaken"}

\* A delivery that still holds the job of an open generation ends undecided.
EndingIsTrue ==
    \A n \in Deliveries :
        parent[n].pc \in {"losing", "closing"} /\ Fenced(n) /\ generation.state \in Open =>
            parent[n].status \in Undecided

\* Only the last delivery holds the job, and only it has closed it.
LastHoldsTheJob ==
    /\ job.state = "running" => job.token = delivered
    /\ ~JobOpen => /\ delivered \in Deliveries /\ parent[delivered].pc = "gone"
                   /\ generation.state \in Open => parent[delivered].status \in {"abandoned", "overtaken"}

JobInv == OverIsTrue /\ EndingIsTrue /\ LastHoldsTheJob

\* A generation that is over stays over, and what a child reports when it ends is true.
LEMMA OverStays ==
  ASSUME Typing, OverIsTrue, [Next]_vars
  PROVE  (generation.state \in Over => generation'.state \in Over) /\ OverIsTrue'
<1> USE DEF Typing, TypeOK, OverIsTrue
<1>0. /\ \A state \in Open \cup Over : Ended(state).state = state
      /\ Open \cap Over = {} /\ "running" \in Open
      /\ \A n \in Deliveries : Owned(n) => generation.state \notin Over
  BY DEF Ended, Open, Over, Owned
<1>1. ASSUME NEW n \in Deliveries, NEW result \in Results \cup {"dead"}, child' = Left(n, result)
      PROVE  child'[n].pc \in {result, "gone"} /\ \A m \in Deliveries \ {n} : child'[m] = child[m]
  BY <1>1, LeftEnds
<1>2. ASSUME NEW n \in Deliveries, child' \in {child, Gone(n)}, generation.state \in Over => generation'.state \in Over
      PROVE  OverIsTrue'
  BY <1>2, GoneEnds
<1>3. ASSUME NEW n \in Deliveries, NEW pc \in Live, child' = [child EXCEPT ![n].pc = pc],
             generation.state \in Over => generation'.state \in Over
      PROVE  OverIsTrue'
  BY <1>3 DEF Live
<1>4. ASSUME NEW n \in Deliveries, ParentStep(n) \/ ParentErrs(n) \/ ParentDies(n)
      PROVE  (generation.state \in Over => generation'.state \in Over) /\ OverIsTrue'
  <2>1. generation' = generation \/ Owned(n)
    BY <1>4 DEF ParentStep, ParentErrs, ParentDies, BeatJob, BeatGeneration, TimeOut, Collect, Abandon, Finish,
                GiveUp
  <2>2. child' \in {child, Gone(n)}
    BY <1>4 DEF ParentStep, ParentErrs, ParentDies, BeatJob, BeatGeneration, TimeOut, Collect, Abandon, Finish
  <2> QED BY <1>0, <1>2, <2>1, <2>2
<1>5. ASSUME NEW n \in Deliveries, Claim(n)
      PROVE  (generation.state \in Over => generation'.state \in Over) /\ OverIsTrue'
  <2>1. \/ generation' = generation /\ child' \in {Left(n, "contended"), Left(n, "stale")}
        \/ generation' = generation /\ generation.state \in Over /\ child' \in {Left(n, "completed"), Left(n, "failed")}
        \/ /\ generation.state \in Open /\ generation'.state \in Over
           /\ child' \in {Left(n, "needs_verification"), Left(n, "failed")}
        \/ generation.state \in Open /\ child' = [child EXCEPT ![n].pc = "claimed"]
    BY <1>5 DEF Claim, Deserted, Ended, Open, Over
  <2>2. generation.state \in Over => generation'.state \in Over
    BY <1>0, <2>1
  <2>3. "claimed" \in Live
    BY DEF Live
  <2> QED BY <1>1, <1>3, <2>1, <2>2, <2>3 DEF Results
<1>6. ASSUME NEW n \in Deliveries, Prepare(n) \/ BeginCall(n)
      PROVE  (generation.state \in Over => generation'.state \in Over) /\ OverIsTrue'
  <2>1. \/ generation' = generation /\ child' = Left(n, "stale")
        \/ generation'.state \in Over /\ child' = Left(n, "failed")
        \/ /\ generation'.state = generation.state
           /\ \E pc \in Live : child' = [child EXCEPT ![n].pc = pc]
    BY <1>6 DEF Prepare, BeginCall, Ended, Over, Live, Generations
  <2>2. generation.state \in Over => generation'.state \in Over
    BY <2>1
  <2> QED BY <1>1, <1>3, <2>1, <2>2 DEF Results
<1>7. ASSUME NEW n \in Deliveries, NEW a \in Answers, EndCall(n, a)
      PROVE  (generation.state \in Over => generation'.state \in Over) /\ OverIsTrue'
  <2>1. \/ generation' = generation /\ child' = Left(n, "stale")
        \/ Owned(n) /\ child' = Left(n, "retry")
        \/ \E state \in Over : Owned(n) /\ generation' = Ended(state) /\ child' = Left(n, state)
    BY <1>7 DEF EndCall, Over
  <2>2. Over \subseteq Results
    BY DEF Over, Results
  <2> QED BY <1>0, <1>1, <2>1, <2>2 DEF Results
<1>8. CASE ClaimJob
  <2>1. generation' = generation
    BY <1>8 DEF ClaimJob
  <2>2. \/ child' = child
        \/ child' = [child EXCEPT ![delivered + 1] = [pc |-> "starting", attempt |-> job.attempt + 1]]
    BY <1>8 DEF ClaimJob
  <2> QED BY <2>1, <2>2
<1>9. CASE Request \/ Tick \/ UNCHANGED vars
  BY <1>9 DEF Request, Tick, vars, Generations
<1>10. ASSUME NEW n \in Deliveries, ChildDies(n)
       PROVE  (generation.state \in Over => generation'.state \in Over) /\ OverIsTrue'
  BY <1>1, <1>10 DEF ChildDies
<1> QED BY <1>4, <1>5, <1>6, <1>7, <1>8, <1>9, <1>10 DEF Next, ChildStep

\* A step of the parent says of the generation only what is true, and takes itself
\* out only by closing its own job.
LEMMA ParentEndsTruly ==
  ASSUME Typing, JobInv, RunsAreDelivered, NEW n \in Deliveries,
         ParentStep(n) \/ ParentErrs(n) \/ ParentDies(n),
         generation.state \in Over => generation'.state \in Over
  PROVE  EndingIsTrue' /\ LastHoldsTheJob'
<1> USE DEF Typing, TypeOK
<1>0. /\ Open \cap Over = {} /\ generation.state \in Open \cup Over
      /\ \A state \in Open \cup Over : Ended(state).state = state
      /\ \A status : /\ Closing(n, status)[n].pc = "closing" /\ Closing(n, status)[n].status = status
                      /\ Losing(n, status)[n].pc = "losing" /\ Losing(n, status)[n].status = status
      /\ parent[n].pc # "none" /\ parent[n].pc # "gone"
  BY DEF Open, Over, Ended, Closing, Losing, Generations, ParentStep, ParentErrs, ParentDies, BeatJob,
         BeatGeneration, TimeOut, Collect, Abandon, Finish
<1>1. (\A m \in Deliveries \ {n} : parent'[m] = parent[m]) /\ delivered' = delivered
  BY DEF ParentStep, ParentErrs, ParentDies, BeatJob, BeatGeneration, TimeOut, Collect, Abandon, Finish,
         GiveUp, Closing, Losing
<1>2. \A m \in Deliveries : Fenced(m)' => Fenced(m)
  BY DEF Fenced, Closed, Beaten, Jobs, ParentStep, ParentErrs, ParentDies, BeatJob, BeatGeneration, TimeOut,
         Collect, Abandon, Finish
<1>3. generation'.state \in Open => generation.state \in Open
  BY <1>0
<1>4. SUFFICES /\ parent'[n].pc \in {"losing", "closing"} /\ Fenced(n)' /\ generation'.state \in Open =>
                      parent'[n].status \in Undecided
               /\ LastHoldsTheJob'
  BY <1>1, <1>2, <1>3 DEF JobInv, EndingIsTrue
<1>5. ASSUME job' = job \/ job' = Beaten PROVE LastHoldsTheJob'
  <2>1. job'.state = job.state /\ job'.token = job.token
    BY <1>5 DEF Beaten, Jobs
  <2>2. ~JobOpen => delivered # n
    BY <1>0 DEF JobInv, LastHoldsTheJob
  <2>3. ~JobOpen => parent'[delivered] = parent[delivered]
    BY <1>1, <2>2 DEF JobInv, LastHoldsTheJob
  <2> QED BY <1>1, <1>3, <2>1, <2>3 DEF JobInv, LastHoldsTheJob, JobOpen
<1>6. CASE BeatJob(n)
  <2>1. parent'[n].pc \in {"losing", "closing"} => ~Fenced(n) /\ job' = job
    BY <1>6 DEF BeatJob, Parents
  <2> QED BY <1>5, <1>6, <2>1 DEF BeatJob, Fenced
<1>7. CASE BeatGeneration(n)
  <2>1. \/ parent'[n].pc = "watching"
        \/ generation' = Ended("needs_verification")
        \/ parent' = Losing(n, "overtaken")
    BY <1>7 DEF BeatGeneration, NoParent
  <2>2. Ended("needs_verification").state \in Over
    BY <1>0 DEF Over
  <2> QED BY <1>0, <1>5, <1>7, <2>1, <2>2 DEF BeatGeneration, Undecided
<1>8. CASE TimeOut(n)
  <2>1. parent'[n].status = parent[n].status /\ parent[n].pc = "losing" /\ job' = job
    BY <1>0, <1>8 DEF TimeOut
  <2> QED BY <1>2, <1>3, <1>5, <2>1 DEF JobInv, EndingIsTrue
<1>9. CASE Collect(n)
  <2>1. \/ parent' = Closing(n, child[n].pc)
        \/ parent'[n].pc = "gone"
    BY <1>9 DEF Collect, NoParent
  <2>2. generation.state \in Open => child[n].pc \in Undecided
    BY <1>0, <1>9 DEF Collect, JobInv, OverIsTrue, Results, Undecided
  <2> QED BY <1>0, <1>3, <1>5, <1>9, <2>1, <2>2 DEF Collect
<1>10. CASE Abandon(n) \/ ParentErrs(n)
  <2>1. GiveUp(n) /\ job' = job
    BY <1>10 DEF Abandon, ParentErrs
  <2>2. parent'[n].status \in {"returned", "abandoned"}
    BY <1>0, <2>1 DEF GiveUp
  <2> QED BY <1>5, <2>1, <2>2 DEF Undecided
<1>11. CASE ParentDies(n)
  BY <1>5, <1>11 DEF ParentDies, NoParent
<1>12. CASE Finish(n)
  <2>1. /\ parent[n].pc = "closing" /\ generation' = generation
        /\ parent'[n].pc = "gone" /\ parent'[n].status = parent[n].status
    BY <1>12 DEF Finish, Parents
  <2>2. CASE ~Fenced(n)
    <3>1. job' = job
      BY <1>12, <2>2 DEF Finish, Closed
    <3> QED BY <1>5, <2>1, <3>1
  <2>3. CASE Fenced(n)
    <3>1. n = delivered
      BY <2>3 DEF Fenced, JobInv, LastHoldsTheJob
    <3>2. \/ job'.state = "queued"
          \/ /\ job'.state \in {"completed", "failed"}
             /\ parent[n].status \notin {"retry", "contended", "stale", "returned"}
      BY <1>12, <2>3 DEF Finish, Closed, Jobs
    <3>3. generation.state \in Open => parent[n].status \in Undecided
      BY <2>1, <2>3 DEF JobInv, EndingIsTrue
    <3> QED BY <1>1, <2>1, <3>1, <3>2, <3>3 DEF LastHoldsTheJob, JobOpen, Undecided
  <2> QED BY <2>2, <2>3
<1> QED BY <1>6, <1>7, <1>8, <1>9, <1>10, <1>11, <1>12 DEF ParentStep

\* No other step makes a delivery end, and a new one or a new job begins in order.
LEMMA JobStep == Typing /\ RunsAreDelivered /\ JobInv /\ [Next]_vars => JobInv'
<1> SUFFICES ASSUME Typing, RunsAreDelivered, JobInv, [Next]_vars PROVE JobInv'
  OBVIOUS
<1> USE DEF Typing, TypeOK
<1>1. (generation.state \in Over => generation'.state \in Over) /\ OverIsTrue'
  BY OverStays DEF JobInv
<1>2. generation'.state \in Open => generation.state \in Open
  BY <1>1 DEF Open, Over, Generations
<1>3. ASSUME UNCHANGED delivered,
             \A m \in Deliveries : parent'[m].pc = parent[m].pc /\ parent'[m].status = parent[m].status,
             job'.state = job.state, job'.token = job.token, job'.left > 0 => job.left > 0
      PROVE  EndingIsTrue' /\ LastHoldsTheJob'
  BY <1>2, <1>3 DEF JobInv, EndingIsTrue, LastHoldsTheJob, JobOpen, Fenced
<1>4. CASE Request
  <2>1. CASE job' = job
    <3>1. EndingIsTrue' /\ LastHoldsTheJob'
      BY <1>3, <1>4, <2>1 DEF Request
    <3> QED BY <1>1, <3>1 DEF JobInv
  <2>2. CASE job' = NewJob
    <3>1. job'.state = "queued"
      BY <2>2 DEF NewJob
    <3> QED BY <1>1, <3>1 DEF JobInv, EndingIsTrue, LastHoldsTheJob, JobOpen, Fenced
  <2> QED BY <1>4, <2>1, <2>2 DEF Request
<1>5. CASE ClaimJob
  <2> DEFINE n == delivered + 1
  <2>1. /\ n \in Deliveries /\ delivered' = n /\ generation' = generation
        /\ job'.state = "running" /\ job'.token = n
    BY <1>5 DEF ClaimJob, Deliveries
  <2>2. \/ parent'[n].pc = "watching"
        \/ generation.state = "completed"
    BY <1>5, <2>1 DEF ClaimJob, NoParent
  <2>3. EndingIsTrue'
    <3>1. \A m \in Deliveries : Fenced(m)' => m = n
      BY <2>1 DEF Fenced
    <3>2. generation.state = "completed" => generation'.state \notin Open
      BY <2>1 DEF Open
    <3> QED BY <2>2, <3>1, <3>2 DEF EndingIsTrue
  <2>4. LastHoldsTheJob'
    BY <2>1 DEF LastHoldsTheJob, JobOpen
  <2> QED BY <1>1, <2>3, <2>4 DEF JobInv
<1>6. CASE Tick
  <2>1. \A m \in Deliveries : parent'[m].pc = parent[m].pc /\ parent'[m].status = parent[m].status
    BY <1>6 DEF Tick, Parents
  <2>2. job'.state = job.state /\ job'.token = job.token /\ (job'.left > 0 => job.left > 0)
    BY <1>6 DEF Tick, Jobs
  <2> QED BY <1>1, <1>3, <1>6, <2>1, <2>2 DEF Tick, JobInv
<1>7. ASSUME NEW n \in Deliveries, ChildStep(n) \/ ChildDies(n) PROVE JobInv'
  <2>1. UNCHANGED <<job, parent, delivered>>
    BY <1>7 DEF ChildStep, ChildDies, Claim, Prepare, BeginCall, EndCall
  <2> QED BY <1>1, <1>3, <2>1 DEF JobInv
<1>8. ASSUME NEW n \in Deliveries, ParentStep(n) \/ ParentErrs(n) \/ ParentDies(n) PROVE JobInv'
  BY <1>1, <1>8, ParentEndsTruly DEF JobInv
<1>9. CASE UNCHANGED vars
  BY <1>1, <1>3, <1>9 DEF vars, JobInv
<1> QED BY <1>4, <1>5, <1>6, <1>7, <1>8, <1>9 DEF Next

\* However many faults there are, a job is closed only when its generation is over, or by
\* a delivery that was abandoned or whose beat met other hands: never by one that was
\* contended, stale, told to retry or handed back (_heartbeat, _time_out, _abandon, _deliver).
THEOREM OnlyTwoEndingsStrand == Spec => []ClosedJobHasClosedGeneration
<1>1. Init => JobInv
  BY DEF Init, NoParent, NoChild, NewJob, JobInv, OverIsTrue, EndingIsTrue, LastHoldsTheJob, JobOpen
<1>2. IndInv /\ JobInv /\ [Next]_vars => JobInv'
  BY JobStep DEF IndInv
<1>3. IndInv /\ JobInv => ClosedJobHasClosedGeneration
  BY DEF IndInv, Typing, TypeOK, Generations, JobInv, LastHoldsTheJob, ClosedJobHasClosedGeneration, Stranded
<1> QED BY <1>1, <1>2, <1>3, Invariance, PTL DEF Spec
=============================================================================
