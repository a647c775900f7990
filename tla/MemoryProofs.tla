---------------------------- MODULE MemoryProofs -----------------------------
(***************************************************************************)
(* The two halves of memory.  First what the leases of the job table       *)
(* guarantee for any number of workers, crashes, cancellations and late    *)
(* transactions (MemoryJobs), then what happens to the records             *)
(* (MemoryRecords).  Each half is a system of its own: the names of the    *)
(* second one begin with Records, and no result is about both.             *)
(***************************************************************************)
EXTENDS MemoryJobs, MemoryRecords, TLAPS

\* Where a worker has a lease in hand, valid or not.
Engaged == AtWork \cup {"failing", "closing"}

\* Between claiming and giving back there is a lease, and a request has a target.
TypeInv ==
  /\ TypeOK
  /\ \A w \in Worker :
       /\ at[w] \in Engaged => work[w].lease \in Leases
       /\ at[w] = "calling" => work[w].target \in Snapshot \cup {Merge}

HeldAlone == \A j, k \in Job : Held(j) /\ Held(k) => j = k

Row == [state : JobState, owner : Worker \cup {NoWorker}, epoch : Nat,
        live : BOOLEAN, attempts : 0..Retries, ready : BOOLEAN]

Task == [lease : Leases \cup {NoLease}, left : SUBSET Session, read : SUBSET Snapshot,
         deferred : BOOLEAN, target : Snapshot \cup {Merge, NoTarget}, spared : BOOLEAN]

-------------------------------------------------------------------------------
(* What the transactions do to the table.                                  *)

\* A claim keeps the types of the rows.
LEMMA ClaimType ==
  ASSUME TypeOK, NEW w \in Worker, NEW j \in Job, NextJob(j), ClaimRow(w, j)
  PROVE  jobs' \in [Job -> Row]
<1>1. jobs[j] \in Row /\ jobs[j].attempts < Retries
  BY DEF TypeOK, Row, NextJob, Oldest, Claimable
<1>2. jobs[j].attempts + 1 \in 0..Retries
  BY <1>1, JobAssumption DEF Row
<1>3. [state |-> "running", owner |-> w, epoch |-> jobs[j].epoch + 1, live |-> TRUE,
       attempts |-> jobs[j].attempts + 1, ready |-> jobs[j].ready] \in Row
  BY <1>1, <1>2 DEF Row, JobState
<1> QED
  BY <1>3 DEF TypeOK, ClaimRow, Row

\* A row that ends keeps its type.
LEMMA EndedType ==
  ASSUME TypeOK, NEW j \in Job, NEW state \in JobState, NEW attempts \in 0..Retries,
         NEW ready \in BOOLEAN
  PROVE  Ended(j, state, attempts, ready) \in Row
BY DEF Ended, TypeOK, Row

\* Publishing keeps the types of what it changes.
LEMMA PublishType ==
  ASSUME TypeOK, NEW lease \in Leases, NEW read \in SUBSET Snapshot, NEW deferred \in BOOLEAN,
         Publish(lease, read, deferred)
  PROVE  /\ jobs' \in [Job -> Row]
         /\ queue' \in Seq(Job)
         /\ done' \subseteq Snapshot
<1> DEFINE j == lease.job
           next == <<j[1], j[2] + 1>>
           partly == deferred /\ read # {}
           succeeded == [jobs EXCEPT ![j] = Ended(j, "succeeded", @.attempts, TRUE)]
<1>1. j \in Job /\ jobs \in [Job -> Row] /\ jobs[j].attempts \in 0..Retries
  BY DEF Leases, TypeOK, Row
<1>2. Ended(j, "succeeded", jobs[j].attempts, TRUE) \in Row
  <2>1. "succeeded" \in JobState /\ TRUE \in BOOLEAN
    BY DEF JobState
  <2> QED
    BY <1>1, <2>1, EndedType
<1>3. Ended(j, "pending", 0, FALSE) \in Row
  <2>1. "pending" \in JobState /\ 0 \in 0..Retries /\ FALSE \in BOOLEAN
    BY JobAssumption DEF JobState
  <2> QED
    BY <1>1, <2>1, EndedType
<1>4. succeeded \in [Job -> Row]
  BY <1>1, <1>2
<1>5. partly => next \in Job
  <2>1. partly => j[2] < MaxBatches
    BY DEF Publish
  <2>2. j[1] \in Starter /\ j[2] \in 0..MaxBatches
    BY <1>1 DEF Job
  <2> QED
    BY <2>1, <2>2, JobAssumption DEF Job
<1>6. partly => [succeeded EXCEPT ![next].state = "pending"] \in [Job -> Row]
  <2> SUFFICES ASSUME partly
               PROVE  [succeeded EXCEPT ![next].state = "pending"] \in [Job -> Row]
    OBVIOUS
  <2> HIDE DEF succeeded, next, partly
  <2>1. succeeded[next] \in Row
    BY <1>4, <1>5
  <2>2. [succeeded[next] EXCEPT !.state = "pending"] \in Row
    BY <2>1 DEF Row, JobState
  <2> QED
    BY <1>4, <2>2
<1>7. jobs' \in [Job -> Row]
  BY <1>1, <1>3, <1>4, <1>6 DEF Publish
<1>8. queue' \in Seq(Job)
  <2>1. queue \in Seq(Job)
    BY DEF TypeOK
  <2>2. queue' = queue \/ (partly /\ queue' = Append(queue, next))
    BY DEF Publish
  <2> QED
    BY <1>5, <2>1, <2>2
<1>9. done' \subseteq Snapshot
  BY DEF Publish, TypeOK
<1> QED
  BY <1>7, <1>8, <1>9

\* Giving up keeps the types of the rows.
LEMMA GiveUpType ==
  ASSUME TypeOK, NEW j \in Job, NEW spared \in BOOLEAN, GiveUp(j, spared)
  PROVE  jobs' \in [Job -> Row]
<1>1. jobs \in [Job -> Row] /\ jobs[j].attempts \in 0..Retries
  BY DEF TypeOK, Row
<1>2. \A state \in JobState : \A n \in 0..Retries : Ended(j, state, n, spared) \in Row
  BY EndedType
<1>3. (IF spared /\ jobs[j].attempts > 0 THEN jobs[j].attempts - 1 ELSE jobs[j].attempts)
        \in 0..Retries
  BY <1>1, JobAssumption
<1>4. (IF jobs[j].attempts >= Retries /\ ~spared THEN "failed" ELSE "pending") \in JobState
  BY DEF JobState
<1> QED
  BY <1>1, <1>2, <1>3, <1>4 DEF GiveUp

-------------------------------------------------------------------------------
(* Type correctness.                                                       *)

TableType ==
  /\ jobs \in [Job -> Row]
  /\ queue \in Seq(Job)
  /\ done \subseteq Snapshot
  /\ extracted \subseteq Snapshot

WorkerType ==
  /\ at \in [Worker -> Point]
  /\ work \in [Worker -> Task]
  /\ \A w \in Worker :
       /\ at[w] \in Engaged => work[w].lease \in Leases
       /\ at[w] = "calling" => work[w].target \in Snapshot \cup {Merge}

Transaction(t) ==
  \/ t \in [worker : Worker, kind : {"claim"}]
  \/ t \in [worker : Worker, kind : {"finish"}, lease : Leases,
            read : SUBSET Snapshot, deferred : BOOLEAN]

LateType == \A t \in late : Transaction(t)

OtherType ==
  /\ content \in [Session -> 0..MaxEdits]
  /\ faults \in Nat

\* The parts of TypeInv, which the actions disturb separately.
LEMMA TypeParts == TypeInv <=> TableType /\ WorkerType /\ LateType /\ OtherType
BY DEF TypeInv, TypeOK, TableType, WorkerType, LateType, OtherType, Transaction, Row, Task

\* They make up the invariant of the next state as well.
LEMMA NextTypeParts ==
  ASSUME TableType', WorkerType', LateType', OtherType' PROVE TypeInv'
BY DEF TypeInv, TypeOK, TableType, WorkerType, LateType, OtherType, Transaction, Row, Task

\* A worker that unwinds keeps the lease it needs to give the job back.
LEMMA UnwindType ==
  ASSUME TypeInv, NEW w \in Worker, at[w] \in Engaged,
         NEW point \in {"failing", "closing"}, NEW spared \in BOOLEAN,
         Unwind(w, point, spared)
  PROVE  WorkerType'
<1> DEFINE task == [NoWork EXCEPT !.lease = work[w].lease, !.spared = spared]
<1>1. WorkerType
  BY TypeParts
<1>2. task \in Task /\ task.lease \in Leases
  BY <1>1 DEF WorkerType, Task, NoWork
<1>3. at' = [at EXCEPT ![w] = point] /\ work' = [work EXCEPT ![w] = task]
  BY DEF Unwind, Go
<1>4. point \in Point /\ point # "calling"
  BY DEF Point
<1> HIDE DEF task
<1> QED
  BY <1>1, <1>2, <1>3, <1>4 DEF WorkerType

\* A worker that is done with a job, or crashed, forgets its locals.
LEMMA DoneType ==
  ASSUME TypeInv, NEW w \in Worker, NEW point \in {"idle", "stopped"}, Go(w, point),
         work' \in {work, [work EXCEPT ![w] = NoWork]}
  PROVE  WorkerType'
<1>1. WorkerType
  BY TypeParts
<1>2. NoWork \in Task
  BY DEF NoWork, Task
<1>3. point \in Point /\ point \notin Engaged /\ point # "calling"
  BY DEF Point, Engaged, AtWork
<1> QED
  BY <1>1, <1>2, <1>3 DEF WorkerType, Go

\* A worker that goes on with its job keeps its lease.
LEMMA GoesOnType ==
  ASSUME TypeInv, NEW w \in Worker, at[w] \in AtWork,
         NEW point \in AtWork, at' = [at EXCEPT ![w] = point],
         NEW task \in Task, work' = [work EXCEPT ![w] = task],
         task.lease = work[w].lease,
         point = "calling" => task.target \in Snapshot \cup {Merge}
  PROVE  WorkerType'
<1>1. WorkerType
  BY TypeParts
<1>2. point \in Point
  BY DEF Point, AtWork
<1> QED
  BY <1>1, <1>2 DEF WorkerType, Engaged

\* What a cancelled transaction carries is what its worker held.
LEMMA LateFinishType ==
  ASSUME TypeInv, NEW w \in Worker, at[w] \in Engaged, GoesOn(LatePublication(w))
  PROVE  LateType'
<1>1. WorkerType /\ LateType
  BY TypeParts
<1>2. Transaction(LatePublication(w))
  BY <1>1 DEF WorkerType, Task, Transaction, LatePublication
<1> QED
  BY <1>1, <1>2 DEF GoesOn, LateType

-------------------------------------------------------------------------------

\* A claim.
LEMMA ClaimJobType == ASSUME TypeInv, NEW w \in Worker, ClaimJob(w) PROVE TypeInv'
<1>1. TableType /\ WorkerType /\ LateType /\ OtherType
  BY TypeParts
<1>2. PICK j \in Job :
        /\ NextJob(j)
        /\ ClaimRow(w, j)
        /\ work' = [work EXCEPT ![w] =
             [NoWork EXCEPT !.lease = [job |-> j, epoch |-> jobs[j].epoch + 1],
                            !.left = Session \ {j[1]}]]
  BY DEF ClaimJob
<1>3. jobs' \in [Job -> Row]
  BY <1>2, ClaimType DEF TypeInv
<1>4. TableType'
  BY <1>1, <1>3 DEF ClaimJob, TableType
<1>5. WorkerType'
  <2> DEFINE task == [NoWork EXCEPT !.lease = [job |-> j, epoch |-> jobs[j].epoch + 1],
                                    !.left = Session \ {j[1]}]
  <2>1. [job |-> j, epoch |-> jobs[j].epoch + 1] \in Leases
    BY <1>1 DEF TableType, Row, Leases
  <2>2. task \in Task /\ task.lease \in Leases
    BY <2>1 DEF Task, NoWork
  <2>3. work' = [work EXCEPT ![w] = task]
    BY <1>2
  <2>4. at' = [at EXCEPT ![w] = "reading"] /\ "reading" \in Point
    BY DEF ClaimJob, Go, Point
  <2> HIDE DEF task
  <2> QED
    BY <1>1, <2>2, <2>3, <2>4 DEF WorkerType
<1>6. LateType' /\ OtherType'
  BY <1>1 DEF ClaimJob, LateType, OtherType
<1> QED
  BY <1>4, <1>5, <1>6, NextTypeParts

\* A claim cancelled while it is under way.
LEMMA CancelClaimType == ASSUME TypeInv, NEW w \in Worker, CancelClaim(w) PROVE TypeInv'
<1>1. TableType /\ WorkerType /\ LateType /\ OtherType
  BY TypeParts
<1>2. WorkerType'
  BY DoneType DEF CancelClaim
<1>3. LateType'
  BY <1>1 DEF CancelClaim, GoesOn, LateType, Transaction
<1>4. TableType' /\ OtherType'
  BY <1>1 DEF CancelClaim, rows, Fault, TableType, OtherType
<1> QED
  BY <1>2, <1>3, <1>4, NextTypeParts

\* Passing over, deferring, taking a source or asking the model about it.
LEMMA SourceType ==
  ASSUME TypeInv, NEW w \in Worker, at[w] = "reading", NEW s \in Session,
         \/ Pass(w, s) \/ Defer(w, s) \/ Take(w, <<s, content[s]>>)
         \/ Request(w, <<s, content[s]>>) \/ Request(w, Merge)
  PROVE  WorkerType'
<1>1. WorkerType /\ OtherType
  BY TypeParts
<1>2. work[w] \in Task /\ at = [at EXCEPT ![w] = "reading"]
  BY <1>1 DEF WorkerType
<1>3. <<s, content[s]>> \in Snapshot
  BY <1>1 DEF OtherType, Snapshot
<1>4. {"reading", "calling"} \subseteq AtWork
  BY DEF AtWork
<1>5. CASE Pass(w, s)
  <2>1. [work[w] EXCEPT !.left = @ \ {s}] \in Task
    BY <1>2 DEF Task
  <2>2. [work[w] EXCEPT !.left = @ \ {s}].lease = work[w].lease
    BY <1>2 DEF Task
  <2>3. work' = [work EXCEPT ![w] = [work[w] EXCEPT !.left = @ \ {s}]]
    BY <1>1, <1>5 DEF Pass, WorkerType
  <2> QED
    BY <1>2, <1>4, <1>5, <2>1, <2>2, <2>3, GoesOnType DEF Pass
<1>6. CASE Defer(w, s)
  <2> DEFINE task == [work[w] EXCEPT !.left = @ \ {s}, !.deferred = TRUE]
  <2>1. task \in Task
    BY <1>2 DEF Task
  <2>2. task.lease = work[w].lease
    BY <1>2 DEF Task
  <2>3. work' = [work EXCEPT ![w] = task]
    BY <1>1, <1>6 DEF Defer, WorkerType
  <2> QED
    BY <1>2, <1>4, <1>6, <2>1, <2>2, <2>3, GoesOnType DEF Defer
<1>7. CASE Take(w, <<s, content[s]>>)
  <2> DEFINE task == [work[w] EXCEPT !.left = @ \ {s}, !.read = @ \cup {<<s, content[s]>>}]
  <2>1. task \in Task
    BY <1>2, <1>3 DEF Task
  <2>2. task.lease = work[w].lease
    BY <1>2 DEF Task
  <2>3. work' = [work EXCEPT ![w] = task]
    BY <1>1, <1>7 DEF Take, WorkerType
  <2>4. at' = [at EXCEPT ![w] = "reading"]
    BY <1>2, <1>7 DEF Take
  <2> HIDE DEF task
  <2> QED
    BY <1>2, <1>4, <2>1, <2>2, <2>3, <2>4, GoesOnType
<1>8. CASE \E target \in Snapshot \cup {Merge} : Request(w, target)
  <2>1. PICK target \in Snapshot \cup {Merge} : Request(w, target)
    BY <1>8
  <2> DEFINE task == [work[w] EXCEPT !.target = target]
  <2>2. task \in Task /\ task.target = target
    BY <1>2 DEF Task
  <2>3. task.lease = work[w].lease
    BY <1>2 DEF Task
  <2>4. work' = [work EXCEPT ![w] = task] /\ at' = [at EXCEPT ![w] = "calling"]
    BY <1>1, <2>1 DEF Request, Go, WorkerType
  <2> HIDE DEF task
  <2> QED
    BY <1>2, <1>4, <2>2, <2>3, <2>4, GoesOnType
<1> QED
  BY <1>3, <1>5, <1>6, <1>7, <1>8

\* A source that is passed over, taken or asked about.
LEMMA ReadSourceType == ASSUME TypeInv, NEW w \in Worker, ReadSource(w) PROVE TypeInv'
<1>1. TableType /\ WorkerType /\ LateType /\ OtherType
  BY TypeParts
<1>2. PICK s \in work[w].left :
        Pass(w, s) \/ Defer(w, s) \/ Take(w, <<s, content[s]>>) \/ Request(w, <<s, content[s]>>)
  BY DEF ReadSource
<1>3. s \in Session
  BY <1>1 DEF WorkerType, Task
<1>4. WorkerType'
  BY <1>2, <1>3, SourceType DEF ReadSource
<1>5. TableType' /\ LateType' /\ OtherType'
  BY <1>1 DEF ReadSource, TableType, LateType, OtherType
<1> QED
  BY <1>4, <1>5, NextTypeParts

\* A source that cannot be read now.
LEMMA UnavailableType ==
  ASSUME TypeInv, NEW w \in Worker, SourceUnavailable(w) PROVE TypeInv'
<1>1. TableType /\ WorkerType /\ LateType /\ OtherType
  BY TypeParts
<1>2. PICK s \in work[w].left : Defer(w, s)
  BY DEF SourceUnavailable
<1>3. s \in Session
  BY <1>1 DEF WorkerType, Task
<1>4. WorkerType'
  BY <1>2, <1>3, SourceType DEF SourceUnavailable
<1>5. TableType' /\ LateType' /\ OtherType'
  BY <1>1 DEF SourceUnavailable, Fault, TableType, LateType, OtherType
<1> QED
  BY <1>4, <1>5, NextTypeParts

\* The second stage begins.
LEMMA MergeType == ASSUME TypeInv, NEW w \in Worker, MergeCandidates(w) PROVE TypeInv'
<1>1. TableType /\ WorkerType /\ LateType /\ OtherType
  BY TypeParts
<1>2. work[w] \in Task
  BY <1>1 DEF WorkerType
<1>3. WorkerType'
  <2>1. CASE Go(w, "checking") /\ work' = work
    <3>1. work' = [work EXCEPT ![w] = work[w]]
      BY <1>1, <2>1 DEF WorkerType
    <3> QED
      BY <1>2, <2>1, <3>1, GoesOnType DEF MergeCandidates, Go, AtWork
  <2>2. CASE Request(w, Merge)
    <3> DEFINE task == [work[w] EXCEPT !.target = Merge]
    <3>1. task \in Task /\ task.lease = work[w].lease /\ task.target = Merge
      BY <1>2 DEF Task
    <3>2. work' = [work EXCEPT ![w] = task] /\ at' = [at EXCEPT ![w] = "calling"]
      BY <1>1, <2>2 DEF Request, Go, WorkerType
    <3>3. at[w] \in AtWork /\ "calling" \in AtWork
      BY DEF MergeCandidates, AtWork
    <3> HIDE DEF task
    <3> QED
      BY <3>1, <3>2, <3>3, GoesOnType
  <2> QED
    BY <2>1, <2>2 DEF MergeCandidates
<1>4. TableType' /\ LateType' /\ OtherType'
  BY <1>1 DEF MergeCandidates, TableType, LateType, OtherType
<1> QED
  BY <1>3, <1>4, NextTypeParts

\* An answer is saved.
LEMMA SaveAnswerType == ASSUME TypeInv, NEW w \in Worker, SaveAnswer(w) PROVE TypeInv'
<1>1. TableType /\ WorkerType /\ LateType /\ OtherType
  BY TypeParts
<1>2. work[w] \in Task /\ at[w] \in AtWork /\ work[w].target \in Snapshot \cup {Merge}
  BY <1>1 DEF WorkerType, SaveAnswer, AtWork
<1>3. ASSUME work[w].target = Merge PROVE TableType' /\ WorkerType'
  <2> DEFINE task == [work[w] EXCEPT !.target = NoTarget]
  <2>1. task \in Task /\ task.lease = work[w].lease
    BY <1>2 DEF Task
  <2>2. work' = [work EXCEPT ![w] = task] /\ at' = [at EXCEPT ![w] = "checking"]
    BY <1>1, <1>3 DEF SaveAnswer, Go, WorkerType
  <2>3. "checking" \in AtWork
    BY DEF AtWork
  <2>4. TableType'
    BY <1>1, <1>3 DEF SaveAnswer, TableType
  <2> HIDE DEF task
  <2> QED
    BY <1>2, <2>1, <2>2, <2>3, <2>4, GoesOnType
<1>4. ASSUME work[w].target # Merge PROVE TableType' /\ WorkerType'
  <2> DEFINE target == work[w].target
             task == [work[w] EXCEPT !.left = @ \ {target[1]}, !.read = @ \cup {target},
                                     !.target = NoTarget]
  <2>0. target \in Snapshot
    BY <1>2, <1>4
  <2>1. task \in Task /\ task.lease = work[w].lease
    BY <1>2, <2>0 DEF Task
  <2>2. work' = [work EXCEPT ![w] = task] /\ at' = [at EXCEPT ![w] = "reading"]
    BY <1>1, <1>4 DEF SaveAnswer, Go, WorkerType
  <2>3. "reading" \in AtWork
    BY DEF AtWork
  <2>4. TableType'
    BY <1>1, <1>4, <2>0 DEF SaveAnswer, TableType
  <2> HIDE DEF task
  <2> QED
    BY <1>2, <2>1, <2>2, <2>3, <2>4, GoesOnType
<1>5. TableType' /\ WorkerType'
  BY <1>3, <1>4
<1>6. LateType' /\ OtherType'
  BY <1>1 DEF SaveAnswer, LateType, OtherType
<1> QED
  BY <1>5, <1>6, NextTypeParts

\* An attempt that fails, is postponed or runs out of time.
LEMMA AbortType ==
  ASSUME TypeInv, NEW w \in Worker,
         StepFails(w) \/ Postpone(w) \/ FinishRefused(w) \/ FinishTimesOut(w)
  PROVE  TypeInv'
<1>1. TableType /\ WorkerType /\ LateType /\ OtherType
  BY TypeParts
<1>2. at[w] \in Engaged
  BY DEF StepFails, Postpone, FinishRefused, FinishTimesOut, Engaged, AtWork
<1>3. PICK spared \in BOOLEAN : Unwind(w, "failing", spared)
  BY DEF StepFails, Postpone, FinishRefused, FinishTimesOut, Abort
<1>4. WorkerType'
  BY <1>2, <1>3, UnwindType
<1>5. LateType'
  <2>1. late' = late \/ GoesOn(LatePublication(w))
    BY DEF StepFails, Postpone, FinishRefused, FinishTimesOut
  <2>2. late' = late => LateType'
    BY <1>1 DEF LateType
  <2> QED
    BY <1>2, <2>1, <2>2, LateFinishType
<1>6. TableType' /\ OtherType'
  <2>1. /\ UNCHANGED <<jobs, queue, done, extracted, content>>
        /\ faults' \in {faults, faults + 1}
    BY DEF StepFails, Postpone, FinishRefused, FinishTimesOut, Fault, rows
  <2> QED
    BY <1>1, <2>1 DEF TableType, OtherType
<1> QED
  BY <1>4, <1>5, <1>6, NextTypeParts

\* Closing interrupts whatever the worker does.
LEMMA CancelWorkType == ASSUME TypeInv, NEW w \in Worker, CancelWork(w) PROVE TypeInv'
<1>1. TableType /\ WorkerType /\ LateType /\ OtherType
  BY TypeParts
<1>2. at[w] \in Engaged /\ Unwind(w, "closing", TRUE)
  BY DEF CancelWork, Engaged, AtWork
<1>3. WorkerType'
  BY <1>2, UnwindType
<1>4. LateType'
  <2>1. late' = late \/ GoesOn(LatePublication(w))
    BY DEF CancelWork
  <2>2. late' = late => LateType'
    BY <1>1 DEF LateType
  <2> QED
    BY <1>2, <2>1, <2>2, LateFinishType
<1>5. TableType' /\ OtherType'
  BY <1>1 DEF CancelWork, Fault, rows, TableType, OtherType
<1> QED
  BY <1>3, <1>4, <1>5, NextTypeParts

\* The last look at the sources.
LEMMA CheckSourcesType == ASSUME TypeInv, NEW w \in Worker, CheckSources(w) PROVE TypeInv'
<1>1. TableType /\ WorkerType /\ LateType /\ OtherType
  BY TypeParts
<1>2. WorkerType'
  <2>1. CASE Go(w, "finishing") /\ work' = work
    <3>1. work[w] \in Task /\ work' = [work EXCEPT ![w] = work[w]]
      BY <1>1, <2>1 DEF WorkerType
    <3> QED
      BY <2>1, <3>1, GoesOnType DEF CheckSources, Go, AtWork
  <2>2. CASE Abort(w, TRUE)
    BY <2>2, UnwindType DEF CheckSources, Abort, Engaged, AtWork
  <2> QED
    BY <2>1, <2>2 DEF CheckSources
<1>3. TableType' /\ LateType' /\ OtherType'
  BY <1>1 DEF CheckSources, rows, TableType, LateType, OtherType
<1> QED
  BY <1>2, <1>3, NextTypeParts

\* A job is finished.
LEMMA FinishJobType == ASSUME TypeInv, NEW w \in Worker, FinishJob(w) PROVE TypeInv'
<1>1. TableType /\ WorkerType /\ LateType /\ OtherType
  BY TypeParts
<1>2. /\ work[w].lease \in Leases
      /\ work[w].read \in SUBSET Snapshot
      /\ work[w].deferred \in BOOLEAN
  BY <1>1 DEF WorkerType, Task, FinishJob, Engaged, AtWork
<1>3. Publish(work[w].lease, work[w].read, work[w].deferred)
  BY DEF FinishJob
<1>4. TypeOK
  BY DEF TypeInv
<1>5. TableType'
  BY <1>1, <1>2, <1>3, <1>4, PublishType DEF FinishJob, TableType
<1>6. WorkerType'
  BY DoneType DEF FinishJob
<1>7. LateType' /\ OtherType'
  BY <1>1 DEF FinishJob, LateType, OtherType
<1> QED
  BY <1>5, <1>6, <1>7, NextTypeParts

\* A job is given back.
LEMMA GiveBackType ==
  ASSUME TypeInv, NEW w \in Worker, at[w] \in Engaged, NEW point \in {"idle", "stopped"},
         GiveBack(w), Go(w, point)
  PROVE  TableType' /\ WorkerType' /\ LateType'
<1>1. TableType /\ WorkerType /\ LateType
  BY TypeParts
<1>2. work[w].lease.job \in Job /\ work[w].spared \in BOOLEAN
  BY <1>1 DEF WorkerType, Task, Leases
<1>3. TypeOK
  BY DEF TypeInv
<1>4. jobs' \in [Job -> Row]
  <2>1. GiveUp(work[w].lease.job, work[w].spared) \/ jobs' = jobs
    BY DEF GiveBack
  <2>2. jobs' = jobs => jobs' \in [Job -> Row]
    BY <1>1 DEF TableType
  <2> QED
    BY <1>2, <1>3, <2>1, <2>2, GiveUpType
<1>5. WorkerType'
  BY DoneType DEF GiveBack
<1> QED
  BY <1>1, <1>4, <1>5 DEF GiveBack, TableType, LateType

\* After a failed attempt.
LEMMA FailType == ASSUME TypeInv, NEW w \in Worker, Fail(w) PROVE TypeInv'
<1>1. TableType' /\ WorkerType' /\ LateType'
  BY GiveBackType DEF Fail, Engaged
<1>2. OtherType'
  BY TypeParts DEF Fail, GiveBack, OtherType
<1> QED
  BY <1>1, <1>2, NextTypeParts

\* After a cancellation.
LEMMA CloseType == ASSUME TypeInv, NEW w \in Worker, Close(w) PROVE TypeInv'
<1>1. TableType' /\ WorkerType' /\ LateType'
  BY GiveBackType DEF Close, Engaged
<1>2. OtherType
  BY TypeParts
<1>3. OtherType'
  BY <1>2 DEF Close, GiveBack, OtherType
<1> QED
  BY <1>1, <1>3, NextTypeParts

\* The next process, and a crash.
LEMMA RestartType ==
  ASSUME TypeInv, NEW w \in Worker, Restart(w) \/ Crash(w) PROVE TypeInv'
<1>1. TableType /\ WorkerType /\ LateType /\ OtherType
  BY TypeParts
<1>2. WorkerType'
  BY DoneType DEF Restart, Crash
<1>3. LateType'
  BY <1>1 DEF Restart, Crash, LateType, Transaction
<1>4. TableType' /\ OtherType'
  <2>1. /\ UNCHANGED <<jobs, queue, done, extracted, content>>
        /\ faults' \in {faults, faults + 1}
    BY DEF Restart, Crash, Fault, rows
  <2> QED
    BY <1>1, <2>1 DEF TableType, OtherType
<1> QED
  BY <1>2, <1>3, <1>4, NextTypeParts

\* A late claim.
LEMMA LateClaimType == ASSUME TypeInv, LateClaim PROVE TypeInv'
<1>1. TableType /\ WorkerType /\ LateType /\ OtherType
  BY TypeParts
<1>2. PICK t \in late :
        /\ t.kind = "claim"
        /\ late' = late \ {t}
        /\ \/ \E j \in Job :
                /\ NextJob(j)
                /\ ClaimRow(t.worker, j)
           \/ UNCHANGED jobs
        /\ UNCHANGED <<queue, done, extracted, content, at, work, faults>>
  BY DEF LateClaim
<1>3. t.worker \in Worker /\ TypeOK
  BY <1>1, <1>2 DEF LateType, Transaction, TypeInv
<1>4. CASE UNCHANGED jobs
  BY <1>1, <1>2, <1>4, NextTypeParts DEF TableType, WorkerType, LateType, OtherType
<1>5. ASSUME NEW j \in Job, NextJob(j), ClaimRow(t.worker, j)
      PROVE  TypeInv'
  <2>1. jobs' \in [Job -> Row]
    BY <1>3, <1>5, ClaimType
  <2>2. TableType' /\ WorkerType'
    BY <1>1, <1>2, <2>1 DEF TableType, WorkerType
  <2>3. LateType' /\ OtherType'
    BY <1>1, <1>2, <1>5 DEF LateType, OtherType
  <2> QED
    BY <2>2, <2>3, NextTypeParts
<1> QED
  BY <1>2, <1>4, <1>5

\* A late publication.
LEMMA LateFinishedType == ASSUME TypeInv, LateFinish PROVE TypeInv'
<1>1. TableType /\ WorkerType /\ LateType /\ OtherType
  BY TypeParts
<1>2. PICK t \in late :
        /\ t.kind = "finish"
        /\ late' = late \ {t}
        /\ \/ Publish(t.lease, t.read, t.deferred)
           \/ UNCHANGED <<jobs, queue, done>>
        /\ UNCHANGED <<extracted, content, at, work, faults>>
  BY DEF LateFinish
<1>3. t.lease \in Leases /\ t.read \in SUBSET Snapshot /\ t.deferred \in BOOLEAN
  BY <1>1, <1>2 DEF LateType, Transaction
<1>4. TableType'
  <2>1. CASE Publish(t.lease, t.read, t.deferred)
    BY <1>1, <1>2, <1>3, <2>1, PublishType DEF TypeInv, TableType
  <2>2. CASE UNCHANGED <<jobs, queue, done>>
    BY <1>1, <1>2, <2>2 DEF TableType
  <2> QED
    BY <1>2, <2>1, <2>2
<1>5. WorkerType' /\ LateType' /\ OtherType'
  BY <1>1, <1>2 DEF WorkerType, LateType, OtherType
<1> QED
  BY <1>4, <1>5, NextTypeParts

\* Time passes.
LEMMA TimeType ==
  ASSUME TypeInv, NEW j \in Job, Expire(j) \/ DelayPasses(j) PROVE TypeInv'
<1>1. TableType /\ WorkerType /\ LateType /\ OtherType
  BY TypeParts
<1>2. jobs' \in [Job -> Row]
  <2>1. jobs[j] \in Row
    BY <1>1 DEF TableType
  <2>2. [jobs[j] EXCEPT !.live = FALSE] \in Row /\ [jobs[j] EXCEPT !.ready = TRUE] \in Row
    BY <2>1 DEF Row
  <2> QED
    BY <1>1, <2>2 DEF TableType, Expire, DelayPasses
<1>3. /\ UNCHANGED <<queue, done, extracted, content, at, work, late>>
      /\ faults' \in {faults, faults + 1}
  BY DEF Expire, DelayPasses, Fault
<1> QED
  BY <1>1, <1>2, <1>3, NextTypeParts DEF TableType, WorkerType, LateType, OtherType

\* A job is scheduled.
LEMMA ScheduleType == ASSUME TypeInv, NEW s \in Starter, Schedule(s) PROVE TypeInv'
<1>1. TableType /\ WorkerType /\ LateType /\ OtherType
  BY TypeParts
<1>2. <<s, 0>> \in Job
  BY JobAssumption DEF Job
<1>3. [jobs[<<s, 0>>] EXCEPT !.state = "pending"] \in Row
  BY <1>1, <1>2 DEF TableType, Row, JobState
<1>4. TableType'
  BY <1>1, <1>2, <1>3 DEF TableType, Schedule
<1>5. WorkerType' /\ LateType' /\ OtherType'
  BY <1>1 DEF Schedule, WorkerType, LateType, OtherType
<1> QED
  BY <1>4, <1>5, NextTypeParts

\* A session grows.
LEMMA ChangeType == ASSUME TypeInv, NEW s \in Session, Change(s) PROVE TypeInv'
<1>1. TableType /\ WorkerType /\ LateType /\ OtherType
  BY TypeParts
<1>2. OtherType'
  <2>1. content[s] + 1 \in 0..MaxEdits
    BY <1>1, JobAssumption DEF Change, OtherType
  <2> QED
    BY <1>1, <2>1 DEF Change, Fault, OtherType
<1>3. TableType' /\ WorkerType' /\ LateType'
  BY <1>1 DEF Change, rows, TableType, WorkerType, LateType
<1> QED
  BY <1>2, <1>3, NextTypeParts

\* TypeInv is inductive.
LEMMA TypeStep == TypeInv /\ [Next]_vars => TypeInv'
<1> SUFFICES ASSUME TypeInv, [Next]_vars PROVE TypeInv'
  OBVIOUS
<1>1. ASSUME NEW w \in Worker, Works(w) PROVE TypeInv'
  BY <1>1, ClaimJobType, ReadSourceType, MergeType, SaveAnswerType, AbortType, CheckSourcesType,
     FinishJobType, FailType, CloseType, RestartType DEF Works
<1>2. ASSUME NEW w \in Worker, Disturbed(w) PROVE TypeInv'
  BY <1>2, CancelClaimType, UnavailableType, AbortType, CancelWorkType, RestartType DEF Disturbed
<1>3. CASE Settles
  BY <1>3, LateClaimType, LateFinishedType, TimeType DEF Settles
<1>4. CASE UNCHANGED vars
  BY <1>4, TypeParts, NextTypeParts DEF vars, rows, TableType, WorkerType, LateType, OtherType
<1> QED
  BY <1>1, <1>2, <1>3, <1>4, ScheduleType, ChangeType DEF Next

\* TypeInv holds at first.
LEMMA TypeInit == Init => TypeInv
<1> SUFFICES ASSUME Init PROVE TypeInv
  OBVIOUS
<1>1. NoJob \in Row /\ NoWork \in Task
  BY JobAssumption DEF NoJob, NoWork, Row, Task, JobState
<1>2. TableType /\ WorkerType
  BY <1>1 DEF Init, TableType, WorkerType, Point, Engaged, AtWork
<1>3. LateType /\ OtherType
  BY JobAssumption DEF Init, LateType, OtherType
<1> QED
  BY <1>2, <1>3, TypeParts

\* Every variable keeps its type, for any number of sessions, workers and faults;
\* no row ever counts more than Retries attempts (claim).
THEOREM JobTypes == Spec => []TypeOK
<1>1. TypeInv => TypeOK
  BY DEF TypeInv
<1> QED
  BY <1>1, TypeInit, TypeStep, PTL DEF Spec

-------------------------------------------------------------------------------
(* One holder.                                                             *)

\* A transaction that marks no second row as held leaves at most one.
LEMMA NoNewHolder ==
  ASSUME HeldAlone, \A j \in Job : Held(j)' => Held(j)
  PROVE  HeldAlone'
BY DEF HeldAlone

\* A claim finds no row held, and holds one.
LEMMA ClaimHolds ==
  ASSUME TypeInv, NEW w, NEW j \in Job, NextJob(j), ClaimRow(w, j)
  PROVE  HeldAlone'
<1>1. \A k \in Job : ~Held(k)
  BY DEF NextJob
<1>2. \A k \in Job : k # j => jobs'[k] = jobs[k]
  BY TypeParts DEF ClaimRow, TableType
<1>3. \A k \in Job : Held(k)' => k = j
  BY <1>1, <1>2 DEF Held
<1> QED
  BY <1>3 DEF HeldAlone

\* Publishing holds nothing.
LEMMA PublishHolds ==
  ASSUME TypeInv, NEW lease \in Leases, NEW read, NEW deferred, Publish(lease, read, deferred),
         NEW k \in Job, Held(k)'
  PROVE  Held(k)
<1> DEFINE j == lease.job
           next == <<j[1], j[2] + 1>>
<1>1. jobs \in [Job -> Row] /\ j \in Job
  BY TypeParts DEF TableType, Leases
<1>2. k # j
  BY <1>1 DEF Publish, Held, Ended
<1>3. jobs'[k] = jobs[k] \/ (jobs[next].state = "missing" /\ jobs'[k] = [jobs[k] EXCEPT !.state = "pending"])
  BY <1>1, <1>2 DEF Publish
<1>4. jobs[k] \in Row
  BY <1>1
<1> QED
  BY <1>3, <1>4 DEF Held, Row

\* Giving up holds nothing.
LEMMA GiveUpHolds ==
  ASSUME TypeInv, NEW j \in Job, NEW spared, GiveUp(j, spared), NEW k \in Job, Held(k)'
  PROVE  Held(k)
BY TypeParts DEF TableType, GiveUp, Ended, Held

\* What a worker or a thread does to the table when it is not a claim: it is either
\* nothing, or the end of the job it holds.
LEMMA JobsStep ==
  ASSUME TypeInv, [Next]_vars
  PROVE  \/ jobs' = jobs
         \/ \E w \in Worker : \E j \in Job :
              /\ NextJob(j) /\ ClaimRow(w, j)
              /\ \A v \in Worker : v # w => at'[v] = at[v] /\ work'[v] = work[v]
         \/ \E w \in Worker :
              /\ at[w] = "finishing" /\ work[w].lease \in Leases /\ at'[w] # at[w]
              /\ CheckLease(w, work[w].lease)
              /\ Publish(work[w].lease, work[w].read, work[w].deferred)
         \/ \E w \in Worker : \E spared :
              /\ at[w] \in {"failing", "closing"} /\ work[w].lease \in Leases
              /\ CheckLease(w, work[w].lease) /\ GiveUp(work[w].lease.job, spared)
         \/ \E t \in late :
              /\ t.kind = "finish" /\ t.worker \in Worker /\ t.lease \in Leases
              /\ CheckLease(t.worker, t.lease) /\ Publish(t.lease, t.read, t.deferred)
         \/ \E j \in Job : Held(j) /\ jobs' = [jobs EXCEPT ![j].live = FALSE]
         \/ \E j \in Job : ~jobs[j].ready /\ jobs' = [jobs EXCEPT ![j].ready = TRUE]
         \/ \E j \in Job : /\ jobs[j].state = "missing" /\ j[2] = 0
                            /\ jobs' = [jobs EXCEPT ![j].state = "pending"]
<1>1. TableType /\ WorkerType /\ LateType
  BY TypeParts
<1>2. ASSUME NEW w \in Worker, ClaimJob(w)
      PROVE  \E j \in Job : /\ NextJob(j) /\ ClaimRow(w, j)
                            /\ \A v \in Worker : v # w => at'[v] = at[v] /\ work'[v] = work[v]
  BY <1>1, <1>2 DEF ClaimJob, Go, WorkerType
<1>3. ASSUME NEW w \in Worker, FinishJob(w)
      PROVE  /\ at[w] = "finishing" /\ work[w].lease \in Leases /\ at'[w] # at[w]
             /\ CheckLease(w, work[w].lease)
             /\ Publish(work[w].lease, work[w].read, work[w].deferred)
  BY <1>1, <1>3 DEF FinishJob, Go, WorkerType, Engaged, AtWork
<1>4. ASSUME NEW w \in Worker, Fail(w) \/ Close(w)
      PROVE  \/ jobs' = jobs
             \/ /\ at[w] \in {"failing", "closing"} /\ work[w].lease \in Leases
                /\ CheckLease(w, work[w].lease) /\ GiveUp(work[w].lease.job, work[w].spared)
  BY <1>1, <1>4 DEF Fail, Close, GiveBack, WorkerType, Engaged
<1>5. ASSUME NEW w \in Worker, Works(w), ~ClaimJob(w), ~FinishJob(w), ~Fail(w), ~Close(w)
      PROVE  jobs' = jobs
  BY <1>5 DEF Works, ReadSource, MergeCandidates, SaveAnswer, StepFails, CheckSources,
              FinishRefused, Restart, rows
<1>6. ASSUME NEW w \in Worker, Disturbed(w) PROVE jobs' = jobs
  BY <1>6 DEF Disturbed, CancelClaim, SourceUnavailable, Postpone, FinishTimesOut, CancelWork,
              Crash, rows
<1>7. ASSUME LateClaim
      PROVE  \/ jobs' = jobs
             \/ \E w \in Worker : \E j \in Job :
                  /\ NextJob(j) /\ ClaimRow(w, j)
                  /\ \A v \in Worker : v # w => at'[v] = at[v] /\ work'[v] = work[v]
  <2>1. PICK t \in late :
          /\ t.kind = "claim"
          /\ jobs' = jobs \/ \E j \in Job : NextJob(j) /\ ClaimRow(t.worker, j)
          /\ at' = at /\ work' = work
    BY <1>7 DEF LateClaim
  <2>2. t.worker \in Worker
    BY <1>1, <2>1 DEF LateType, Transaction
  <2> QED
    BY <2>1, <2>2
<1>8. ASSUME LateFinish
      PROVE  \/ jobs' = jobs
             \/ \E t \in late :
                  /\ t.kind = "finish" /\ t.worker \in Worker /\ t.lease \in Leases
                  /\ CheckLease(t.worker, t.lease) /\ Publish(t.lease, t.read, t.deferred)
  BY <1>1, <1>8 DEF LateFinish, LateType, Transaction
<1>9. ASSUME NEW j \in Job, Expire(j) \/ DelayPasses(j)
      PROVE  \/ Held(j) /\ jobs' = [jobs EXCEPT ![j].live = FALSE]
             \/ ~jobs[j].ready /\ jobs' = [jobs EXCEPT ![j].ready = TRUE]
  BY <1>9 DEF Expire, DelayPasses
<1>10. ASSUME NEW s \in Starter, Schedule(s)
       PROVE  \E j \in Job : /\ jobs[j].state = "missing" /\ j[2] = 0
                             /\ jobs' = [jobs EXCEPT ![j].state = "pending"]
  <2>1. <<s, 0>> \in Job
    BY JobAssumption DEF Job
  <2> QED
    BY <1>10, <2>1 DEF Schedule
<1>11. ASSUME NEW s \in Session, Change(s) PROVE jobs' = jobs
  BY <1>11 DEF Change, rows
<1>12. CASE UNCHANGED vars
  BY <1>12 DEF vars, rows
<1>13. CASE \E w \in Worker : Works(w)
  BY <1>2, <1>3, <1>4, <1>5, <1>13
<1>14. CASE Settles
  BY <1>7, <1>8, <1>9, <1>14 DEF Settles
<1> QED
  BY <1>6, <1>10, <1>11, <1>12, <1>13, <1>14 DEF Next

\* HeldAlone is inductive.
LEMMA HeldStep == TypeInv /\ HeldAlone /\ [Next]_vars => HeldAlone'
<1> SUFFICES ASSUME TypeInv, HeldAlone, [Next]_vars PROVE HeldAlone'
  OBVIOUS
<1>1. TableType
  BY TypeParts
<1>2. CASE jobs' = jobs
  BY <1>2 DEF HeldAlone, Held
<1>3. ASSUME NEW w \in Worker, NEW j \in Job, NextJob(j), ClaimRow(w, j) PROVE HeldAlone'
  BY <1>3, ClaimHolds
<1>4. ASSUME NEW lease \in Leases, NEW read, NEW deferred, Publish(lease, read, deferred)
      PROVE  HeldAlone'
  BY <1>4, PublishHolds, NoNewHolder
<1>5. ASSUME NEW lease \in Leases, NEW spared, GiveUp(lease.job, spared) PROVE HeldAlone'
  <2>1. lease.job \in Job
    BY DEF Leases
  <2> QED
    BY <1>5, <2>1, GiveUpHolds, NoNewHolder
<1>6. ASSUME NEW j \in Job,
             \/ jobs' = [jobs EXCEPT ![j].live = FALSE]
             \/ jobs' = [jobs EXCEPT ![j].ready = TRUE]
             \/ jobs' = [jobs EXCEPT ![j].state = "pending"]
      PROVE  HeldAlone'
  <2>1. \A k \in Job :
          \/ jobs'[k] = [jobs[k] EXCEPT !.live = FALSE]
          \/ jobs'[k] = [jobs[k] EXCEPT !.ready = TRUE]
          \/ jobs'[k] = [jobs[k] EXCEPT !.state = "pending"]
          \/ jobs'[k] = jobs[k]
    BY <1>1, <1>6 DEF TableType
  <2>2. \A k \in Job : jobs[k] \in Row
    BY <1>1 DEF TableType
  <2>3. \A k \in Job : Held(k)' => Held(k)
    BY <2>1, <2>2 DEF Row, Held
  <2> QED
    BY <2>3, NoNewHolder
<1> QED
  BY <1>2, <1>3, <1>4, <1>5, <1>6, JobsStep

\* Whatever job a worker claimed, and whoever else believes to hold one: one worker at
\* a time may write for the workspace (claim, _check_lease).
THEOREM OneWorkerHolds == Spec => []OneHolder
<1>1. Init => HeldAlone
  BY DEF Init, NoJob, HeldAlone, Held
<1>2. TypeInv /\ HeldAlone => OneHolder
  <2> SUFFICES ASSUME TypeInv, HeldAlone,
                      NEW v \in Worker, NEW w \in Worker, Holding(v), Holding(w)
               PROVE  v = w
    BY DEF OneHolder, HeldAlone
  <2>1. work[v].lease.job \in Job /\ work[w].lease.job \in Job
    BY TypeParts DEF WorkerType, Holding, Engaged, Leases
  <2> QED
    BY <2>1 DEF Holding, CheckLease, HeldAlone
<1> QED
  BY <1>1, <1>2, TypeInit, TypeStep, HeldStep, PTL DEF Spec

-------------------------------------------------------------------------------
(* What is settled.                                                        *)

\* A step leaves the state of a settled job alone.
LEMMA SettledStep ==
  ASSUME TypeInv, [Next]_vars, NEW j \in Job, Settled(j)
  PROVE  jobs'[j].state = jobs[j].state
<1>1. TableType /\ jobs[j] \in Row
  BY TypeParts DEF TableType
<1>2. ~Held(j) /\ ~Claimable(j) /\ jobs[j].state # "missing"
  BY DEF Settled, Held, Claimable
<1>3. ASSUME NEW w \in Worker, NEW k \in Job, NextJob(k), ClaimRow(w, k)
      PROVE  jobs'[j] = jobs[j]
  <2>1. k # j
    BY <1>2, <1>3 DEF NextJob, Oldest
  <2> QED
    BY <1>1, <1>3, <2>1 DEF ClaimRow, TableType
<1>4. ASSUME NEW lease \in Leases, NEW w, CheckLease(w, lease), NEW read, NEW deferred,
             Publish(lease, read, deferred)
      PROVE  jobs'[j] = jobs[j]
  <2>1. lease.job # j
    BY <1>2, <1>4 DEF CheckLease
  <2> QED
    BY <1>1, <1>2, <1>4, <2>1 DEF Publish, TableType
<1>5. ASSUME NEW lease \in Leases, NEW w, CheckLease(w, lease), NEW spared,
             GiveUp(lease.job, spared)
      PROVE  jobs'[j] = jobs[j]
  <2>1. lease.job # j
    BY <1>2, <1>5 DEF CheckLease
  <2> QED
    BY <1>1, <1>5, <2>1 DEF GiveUp, TableType
<1>6. ASSUME NEW k \in Job,
             \/ jobs' = [jobs EXCEPT ![k].live = FALSE]
             \/ jobs' = [jobs EXCEPT ![k].ready = TRUE]
             \/ jobs[k].state = "missing" /\ jobs' = [jobs EXCEPT ![k].state = "pending"]
      PROVE  jobs'[j].state = jobs[j].state
  BY <1>1, <1>2, <1>6 DEF TableType, Row
<1> QED
  BY <1>3, <1>4, <1>5, <1>6, JobsStep

\* A job that has succeeded or failed stays so, whatever stale workers and late
\* threads attempt (_check_lease, claim).
THEOREM SettledJobsStay == Spec => SettledIsFinal
<1>1. TypeInv /\ [Next]_vars => [\A j \in Job : Settled(j) => jobs'[j].state = jobs[j].state]_vars
  BY SettledStep
<1> QED
  BY <1>1, TypeInit, TypeStep, PTL DEF Spec, SettledIsFinal

-------------------------------------------------------------------------------
(* Fencing.                                                                *)

\* No lease has a later epoch than its row, no two workers have the same lease, and
\* none still works with the lease of a publication that goes on in a thread.
FenceInv ==
  /\ \A w \in Worker : at[w] \in Engaged =>
       work[w].lease.epoch <= jobs[work[w].lease.job].epoch
  /\ \A v, w \in Worker :
       at[v] \in Engaged /\ at[w] \in Engaged /\ v # w => work[v].lease # work[w].lease
  /\ \A t \in late : t.kind = "finish" =>
       /\ t.lease.epoch <= jobs[t.lease.job].epoch
       /\ \A w \in Worker : at[w] \in AtWork => work[w].lease # t.lease

\* The epoch of a row never falls.
LEMMA EpochsGrow ==
  ASSUME TypeInv, [Next]_vars, NEW j \in Job
  PROVE  jobs[j].epoch \in Nat /\ jobs'[j].epoch \in Nat /\ jobs[j].epoch <= jobs'[j].epoch
<1>1. TableType /\ jobs[j] \in Row
  BY TypeParts DEF TableType
<1>2. ASSUME NEW w \in Worker, NEW k \in Job, ClaimRow(w, k)
      PROVE  jobs'[j].epoch \in {jobs[j].epoch, jobs[j].epoch + 1}
  BY <1>1, <1>2 DEF ClaimRow, TableType
<1>3. ASSUME NEW lease \in Leases, NEW read, NEW deferred, Publish(lease, read, deferred)
      PROVE  jobs'[j].epoch = jobs[j].epoch
  <2> DEFINE k == lease.job
             next == <<k[1], k[2] + 1>>
             ended == [jobs EXCEPT ![k] = Ended(k, "succeeded", @.attempts, TRUE)]
  <2>1. k \in Job
    BY DEF Leases
  <2>2. ended \in [Job -> [state : JobState, owner : Worker \cup {NoWorker}, epoch : Nat,
                           live : BOOLEAN, attempts : 0..Retries, ready : BOOLEAN]]
    <3>1. "succeeded" \in JobState /\ jobs[k].attempts \in 0..Retries
      BY <1>1, <2>1 DEF TableType, Row, JobState
    <3>2. Ended(k, "succeeded", jobs[k].attempts, TRUE) \in Row
      BY <2>1, <3>1, EndedType DEF TypeInv
    <3> QED
      BY <1>1, <3>2 DEF TableType, Row
  <2>3. ended[j].epoch = jobs[j].epoch
    BY <1>1, <2>1 DEF TableType, Ended
  <2>4. jobs' = [ended EXCEPT ![next].state = "pending"] => jobs'[j].epoch = ended[j].epoch
    <3> HIDE DEF ended, next
    <3> QED
      BY <2>2
  <2>5. jobs' = [jobs EXCEPT ![k] = Ended(k, "pending", 0, FALSE)] => jobs'[j].epoch = jobs[j].epoch
    BY <1>1, <2>1 DEF TableType, Ended
  <2> QED
    BY <1>3, <2>3, <2>4, <2>5 DEF Publish
<1>4. ASSUME NEW lease \in Leases, NEW spared, GiveUp(lease.job, spared)
      PROVE  jobs'[j].epoch = jobs[j].epoch
  BY <1>1, <1>4 DEF GiveUp, Ended, TableType, Leases
<1>5. ASSUME NEW k \in Job,
             \/ jobs' = [jobs EXCEPT ![k].live = FALSE]
             \/ jobs' = [jobs EXCEPT ![k].ready = TRUE]
             \/ jobs' = [jobs EXCEPT ![k].state = "pending"]
      PROVE  jobs'[j].epoch = jobs[j].epoch
  <2>1. \/ jobs'[j] = [jobs[j] EXCEPT !.live = FALSE]
        \/ jobs'[j] = [jobs[j] EXCEPT !.ready = TRUE]
        \/ jobs'[j] = [jobs[j] EXCEPT !.state = "pending"]
        \/ jobs'[j] = jobs[j]
    BY <1>1, <1>5 DEF TableType
  <2> QED
    BY <1>1, <2>1 DEF Row
<1>6. jobs'[j].epoch \in {jobs[j].epoch, jobs[j].epoch + 1}
  BY <1>2, <1>3, <1>4, <1>5, JobsStep
<1> QED
  BY <1>1, <1>6 DEF Row

\* A step that begins no job and leaves no publication behind keeps the fences.
LEMMA FencesStay ==
  ASSUME TypeInv, FenceInv, [Next]_vars,
         \A w \in Worker :
           \/ at'[w] \notin Engaged
           \/ at[w] \in Engaged /\ work'[w].lease = work[w].lease
              /\ (at'[w] \in AtWork => at[w] \in AtWork),
         late' \subseteq late
  PROVE  FenceInv'
<1>1. WorkerType /\ LateType
  BY TypeParts
<1>2. \A w \in Worker : at[w] \in Engaged => work[w].lease.job \in Job /\ work[w].lease.epoch \in Nat
  BY <1>1 DEF WorkerType, Leases
<1>3. \A t \in late : t.kind = "finish" => t.lease.job \in Job /\ t.lease.epoch \in Nat
  BY <1>1 DEF LateType, Transaction, Leases
<1>4. \A w \in Worker : at'[w] \in Engaged =>
        work'[w].lease.epoch <= jobs'[work'[w].lease.job].epoch
  <2> SUFFICES ASSUME NEW w \in Worker, at'[w] \in Engaged
               PROVE  work'[w].lease.epoch <= jobs'[work'[w].lease.job].epoch
    OBVIOUS
  <2>1. at[w] \in Engaged /\ work'[w].lease = work[w].lease
    OBVIOUS
  <2> DEFINE j == work[w].lease.job
  <2>2. j \in Job /\ work[w].lease.epoch \in Nat /\ work[w].lease.epoch <= jobs[j].epoch
    BY <1>2, <2>1 DEF FenceInv
  <2>3. jobs[j].epoch \in Nat /\ jobs'[j].epoch \in Nat /\ jobs[j].epoch <= jobs'[j].epoch
    BY <2>2, EpochsGrow
  <2> QED
    BY <2>1, <2>2, <2>3
<1>5. \A v, w \in Worker :
        at'[v] \in Engaged /\ at'[w] \in Engaged /\ v # w => work'[v].lease # work'[w].lease
  BY DEF FenceInv
<1>6. ASSUME NEW t \in late', t.kind = "finish"
      PROVE  /\ t.lease.epoch <= jobs'[t.lease.job].epoch
             /\ \A w \in Worker : at'[w] \in AtWork => work'[w].lease # t.lease
  <2>1. t \in late
    OBVIOUS
  <2>2. t.lease.job \in Job /\ t.lease.epoch \in Nat /\ t.lease.epoch <= jobs[t.lease.job].epoch
    BY <1>3, <1>6, <2>1 DEF FenceInv
  <2> DEFINE j == t.lease.job
  <2>3. jobs[j].epoch \in Nat /\ jobs'[j].epoch \in Nat /\ jobs[j].epoch <= jobs'[j].epoch
    BY <2>2, EpochsGrow
  <2>4. \A w \in Worker : at'[w] \in AtWork => work'[w].lease # t.lease
    BY <1>6, <2>1 DEF FenceInv, Engaged
  <2> QED
    BY <2>2, <2>3, <2>4
<1> QED
  BY <1>4, <1>5, <1>6 DEF FenceInv

\* A claim gives a worker an epoch no one has had.
LEMMA ClaimFences == ASSUME TypeInv, FenceInv, NEW w \in Worker, ClaimJob(w) PROVE FenceInv'
<1>1. TableType /\ WorkerType /\ LateType
  BY TypeParts
<1>2. PICK j \in Job :
        /\ ClaimRow(w, j)
        /\ work' = [work EXCEPT ![w] =
             [NoWork EXCEPT !.lease = [job |-> j, epoch |-> jobs[j].epoch + 1],
                            !.left = Session \ {j[1]}]]
  BY DEF ClaimJob
<1> DEFINE lease == [job |-> j, epoch |-> jobs[j].epoch + 1]
<1>3. jobs[j] \in Row /\ lease.job = j /\ lease.epoch = jobs[j].epoch + 1
  BY <1>1 DEF TableType
<1>4. work'[w].lease = lease /\ at'[w] = "reading" /\ jobs'[j].epoch = jobs[j].epoch + 1
  BY <1>1, <1>2 DEF ClaimJob, Go, ClaimRow, TableType, WorkerType, NoWork
<1>5. \A v \in Worker : v # w => work'[v] = work[v] /\ at'[v] = at[v]
  BY <1>1, <1>2 DEF ClaimJob, Go, WorkerType
<1>6. \A k \in Job : k # j => jobs'[k] = jobs[k]
  BY <1>1, <1>2 DEF ClaimRow, TableType
<1> DEFINE Kept(old) == /\ old \in Leases
                        /\ old.epoch <= jobs[old.job].epoch
<1>7. ASSUME NEW old, Kept(old) PROVE old.epoch <= jobs'[old.job].epoch /\ old # lease
  <2>1. old.job \in Job /\ old.epoch \in Nat /\ jobs[old.job] \in Row
    BY <1>1, <1>7 DEF Leases, TableType
  <2>2. CASE old.job # j
    BY <1>3, <1>6, <1>7, <2>1, <2>2
  <2>3. CASE old.job = j
    <3>1. old.epoch <= jobs[j].epoch /\ jobs[j].epoch \in Nat /\ old.epoch \in Nat
      BY <1>7, <2>1, <2>3 DEF Row
    <3>2. old.epoch <= jobs[j].epoch + 1 /\ old.epoch # jobs[j].epoch + 1
      BY <3>1
    <3> QED
      BY <1>3, <1>4, <2>3, <3>2
  <2> QED
    BY <2>2, <2>3
<1>8. \A v \in Worker : v # w /\ at[v] \in Engaged => Kept(work[v].lease)
  BY <1>1 DEF FenceInv, WorkerType
<1>9. \A t \in late : t.kind = "finish" => Kept(t.lease)
  BY <1>1 DEF FenceInv, LateType, Transaction
<1>10. lease.epoch <= jobs'[lease.job].epoch
  BY <1>3, <1>4 DEF Row
<1>11. late' = late
  BY DEF ClaimJob
<1> HIDE DEF lease, Kept
<1>12. \A v \in Worker : at'[v] \in Engaged => work'[v].lease.epoch <= jobs'[work'[v].lease.job].epoch
  BY <1>4, <1>5, <1>7, <1>8, <1>10
<1>13. \A u, v \in Worker :
         at'[u] \in Engaged /\ at'[v] \in Engaged /\ u # v => work'[u].lease # work'[v].lease
  BY <1>4, <1>5, <1>7, <1>8 DEF FenceInv
<1>14. ASSUME NEW t \in late, t.kind = "finish"
       PROVE  /\ t.lease.epoch <= jobs'[t.lease.job].epoch
              /\ \A v \in Worker : at'[v] \in AtWork => work'[v].lease # t.lease
  BY <1>4, <1>5, <1>7, <1>9, <1>14 DEF FenceInv
<1> QED
  BY <1>11, <1>12, <1>13, <1>14 DEF FenceInv

\* A publication left to its thread is not worked on any more.
LEMMA LateFences ==
  ASSUME TypeInv, FenceInv, [Next]_vars, NEW w \in Worker, at[w] = "finishing",
         NEW point \in {"failing", "closing"}, NEW spared, Unwind(w, point, spared),
         GoesOn(LatePublication(w)), jobs' = jobs
  PROVE  FenceInv'
<1>1. WorkerType /\ LateType
  BY TypeParts
<1>2. at'[w] = point /\ work'[w].lease = work[w].lease
  BY <1>1 DEF Unwind, Go, WorkerType, NoWork
<1>3. \A v \in Worker : v # w => work'[v] = work[v] /\ at'[v] = at[v]
  BY <1>1 DEF Unwind, Go, WorkerType
<1>4. at[w] \in Engaged /\ point \in Engaged /\ point \notin AtWork
  BY DEF Engaged, AtWork
<1>5. \A v \in Worker : at'[v] \in Engaged =>
        at[v] \in Engaged /\ work'[v].lease = work[v].lease
  BY <1>2, <1>3, <1>4
<1>6. \A v \in Worker : at'[v] \in AtWork => v # w /\ at[v] \in AtWork
  BY <1>2, <1>3, <1>4
<1>7. \A t \in late' : t \in late \/ (t.kind = "finish" /\ t.lease = work[w].lease)
  BY DEF GoesOn, LatePublication
<1>8. AtWork \subseteq Engaged
  BY DEF Engaged
<1>9. ASSUME NEW t \in late', t.kind = "finish"
      PROVE  /\ t.lease.epoch <= jobs[t.lease.job].epoch
             /\ \A v \in Worker : at'[v] \in AtWork => work'[v].lease # t.lease
  <2>1. CASE t \in late
    BY <1>5, <1>6, <1>8, <1>9, <2>1 DEF FenceInv
  <2>2. CASE t.lease = work[w].lease
    BY <1>4, <1>5, <1>6, <1>8, <2>2 DEF FenceInv
  <2> QED
    BY <1>7, <2>1, <2>2
<1>10. \A v \in Worker : at'[v] \in Engaged =>
         work'[v].lease.epoch <= jobs[work'[v].lease.job].epoch
  BY <1>5 DEF FenceInv
<1>11. \A u, v \in Worker :
         at'[u] \in Engaged /\ at'[v] \in Engaged /\ u # v => work'[u].lease # work'[v].lease
  BY <1>5 DEF FenceInv
<1> QED
  BY <1>9, <1>10, <1>11 DEF FenceInv

\* A worker goes on with the lease it has, or is done with it.
KeepsLease(w) ==
  \/ at'[w] \notin Engaged
  \/ at[w] \in Engaged /\ work'[w].lease = work[w].lease
     /\ (at'[w] \in AtWork => at[w] \in AtWork)

\* Every step of a worker at work, but for a claim, keeps or drops its lease.
LEMMA WorkKeepsLease ==
  ASSUME TypeInv, NEW w \in Worker, Works(w), ~ClaimJob(w)
  PROVE  (\A v \in Worker : KeepsLease(v)) /\ late' \subseteq late
<1>1. WorkerType /\ work[w] \in Task
  BY TypeParts DEF WorkerType
<1>3. \A v \in Worker : v # w => at'[v] = at[v] /\ work'[v] = work[v]
  BY <1>1 DEF Works, ReadSource, Pass, Defer, Take, Request, MergeCandidates, SaveAnswer, StepFails,
              CheckSources, FinishJob, FinishRefused, Fail, Close, GiveBack, Restart, Abort, Unwind,
              Go, WorkerType
<1>4. ASSUME ReadSource(w) \/ MergeCandidates(w) \/ SaveAnswer(w) PROVE KeepsLease(w)
  <2>1. at[w] \in AtWork /\ at[w] \in Engaged
    BY <1>4 DEF ReadSource, MergeCandidates, SaveAnswer, AtWork, Engaged
  <2>2. work'[w].lease = work[w].lease
    <3>1. CASE ReadSource(w) \/ MergeCandidates(w)
      <4>1. \/ work' = work
            \/ \E s : Pass(w, s) \/ Defer(w, s) \/ Request(w, s)
            \/ \E s, n : Take(w, <<s, n>>)
        BY <3>1 DEF ReadSource, MergeCandidates
      <4> QED
        BY <1>1, <4>1 DEF Pass, Defer, Take, Request, WorkerType, Task
    <3>2. CASE SaveAnswer(w)
      BY <1>1, <3>2 DEF SaveAnswer, WorkerType, Task
    <3> QED
      BY <1>4, <3>1, <3>2
  <2> QED
    BY <2>1, <2>2 DEF KeepsLease
<1>5. ASSUME StepFails(w) \/ CheckSources(w) \/ FinishRefused(w) PROVE KeepsLease(w)
  <2>1. at[w] \in AtWork /\ at[w] \in Engaged
    BY <1>5 DEF StepFails, CheckSources, FinishRefused, AtWork, Engaged
  <2>2. work'[w].lease = work[w].lease
    BY <1>1, <1>5 DEF StepFails, CheckSources, FinishRefused, Abort, Unwind, WorkerType, NoWork
  <2> QED
    BY <2>1, <2>2 DEF KeepsLease
<1>6. ASSUME FinishJob(w) \/ Fail(w) \/ Close(w) \/ Restart(w) PROVE KeepsLease(w)
  <2>1. at'[w] \in {"idle", "stopped"}
    BY <1>1, <1>6 DEF FinishJob, Fail, Close, Restart, Go, WorkerType
  <2> QED
    BY <2>1 DEF KeepsLease, Engaged, AtWork
<1>7. KeepsLease(w)
  BY <1>4, <1>5, <1>6 DEF Works
<1>8. \A v \in Worker : KeepsLease(v)
  BY <1>3, <1>7 DEF KeepsLease
<1>9. late' = late
  BY DEF Works, ReadSource, MergeCandidates, SaveAnswer, StepFails, CheckSources,
         FinishJob, FinishRefused, Fail, Close, GiveBack, Restart
<1> QED
  BY <1>8, <1>9

\* So do disturbances, which may leave a publication to its thread.
LEMMA DisturbanceFences ==
  ASSUME TypeInv, FenceInv, [Next]_vars, NEW w \in Worker, Disturbed(w)
  PROVE  FenceInv'
<1>1. WorkerType /\ work[w] \in Task
  BY TypeParts DEF WorkerType
<1>2. \A v \in Worker : v # w => at'[v] = at[v] /\ work'[v] = work[v]
  BY <1>1 DEF Disturbed, CancelClaim, SourceUnavailable, Defer, Postpone, FinishTimesOut, CancelWork,
              Crash, Abort, Unwind, Go, WorkerType
<1>3. \A v \in Worker : v # w => KeepsLease(v)
  BY <1>2 DEF KeepsLease
<1>4. CASE SourceUnavailable(w) \/ Postpone(w)
  <2>1. at[w] \in AtWork /\ at[w] \in Engaged
    BY <1>4 DEF SourceUnavailable, Postpone, AtWork, Engaged
  <2>2. work'[w].lease = work[w].lease
    BY <1>1, <1>4 DEF SourceUnavailable, Defer, Postpone, Abort, Unwind, WorkerType, Task, NoWork
  <2>3. late' = late
    BY <1>4 DEF SourceUnavailable, Postpone
  <2> QED
    BY <1>3, <2>1, <2>2, <2>3, FencesStay DEF KeepsLease
<1>5. CASE Crash(w)
  <2>1. at'[w] = "idle" /\ late' \subseteq late
    BY <1>1, <1>5 DEF Crash, Go, WorkerType
  <2>2. at'[w] \notin Engaged
    BY <2>1 DEF Engaged, AtWork
  <2> QED
    BY <1>3, <2>1, <2>2, FencesStay DEF KeepsLease
<1>6. CASE CancelClaim(w)
  <2>1. at'[w] \notin Engaged /\ \A v \in Worker : work'[v] = work[v]
    BY <1>1, <1>6 DEF CancelClaim, Go, WorkerType, Engaged, AtWork
  <2>2. \A v \in Worker : at'[v] \in Engaged => v # w /\ at[v] = at'[v]
    BY <1>2, <2>1
  <2>3. jobs' = jobs /\ \A t \in late' : t \in late \/ t.kind = "claim"
    BY <1>6 DEF CancelClaim, GoesOn, rows
  <2>4. AtWork \subseteq Engaged
    BY DEF Engaged
  <2> QED
    BY <2>1, <2>2, <2>3, <2>4 DEF FenceInv
<1>7. CASE (FinishTimesOut(w) \/ CancelWork(w)) /\ at[w] = "finishing"
  <2>1. GoesOn(LatePublication(w)) /\ jobs' = jobs
    BY <1>7 DEF FinishTimesOut, CancelWork, rows
  <2>2. Unwind(w, "failing", FALSE) \/ Unwind(w, "closing", TRUE)
    BY <1>7 DEF FinishTimesOut, CancelWork, Abort
  <2> QED
    BY <1>7, <2>1, <2>2, LateFences
<1>8. CASE CancelWork(w) /\ at[w] # "finishing"
  <2>1. at[w] \in AtWork /\ at[w] \in Engaged /\ late' = late
    BY <1>8 DEF CancelWork, AtWork, Engaged
  <2>2. work'[w].lease = work[w].lease
    BY <1>1, <1>8 DEF CancelWork, Unwind, WorkerType, NoWork
  <2> QED
    BY <1>3, <2>1, <2>2, FencesStay DEF KeepsLease
<1> QED
  BY <1>4, <1>5, <1>6, <1>7, <1>8 DEF Disturbed, FinishTimesOut

\* FenceInv is inductive.
LEMMA FenceStep == TypeInv /\ FenceInv /\ [Next]_vars => FenceInv'
<1> SUFFICES ASSUME TypeInv, FenceInv, [Next]_vars PROVE FenceInv'
  OBVIOUS
<1>1. ASSUME NEW w \in Worker, Works(w) PROVE FenceInv'
  BY <1>1, ClaimFences, WorkKeepsLease, FencesStay DEF KeepsLease
<1>2. ASSUME NEW w \in Worker, Disturbed(w) PROVE FenceInv'
  BY <1>2, DisturbanceFences
<1>3. CASE at' = at /\ work' = work /\ late' \subseteq late
  BY <1>3, FencesStay
<1>4. Settles \/ (\E s \in Starter : Schedule(s)) \/ (\E s \in Session : Change(s)) \/ UNCHANGED vars
      => at' = at /\ work' = work /\ late' \subseteq late
  BY DEF Settles, LateClaim, LateFinish, Expire, DelayPasses, Schedule, Change, vars, rows
<1> QED
  BY <1>1, <1>2, <1>3, <1>4 DEF Next

\* A running row waits for no delay.
RunsReady == \A j \in Job : jobs[j].state = "running" => jobs[j].ready

\* RunsReady is inductive: only a ready job is claimed.
LEMMA ReadyStep == TypeInv /\ RunsReady /\ [Next]_vars => RunsReady'
<1> SUFFICES ASSUME TypeInv, RunsReady, [Next]_vars PROVE RunsReady'
  OBVIOUS
<1>1. TableType
  BY TypeParts
<1>2. ASSUME NEW w \in Worker, NEW j \in Job, NextJob(j), ClaimRow(w, j) PROVE RunsReady'
  BY <1>1, <1>2 DEF NextJob, Oldest, Claimable, ClaimRow, RunsReady, TableType
<1>3. ASSUME NEW lease \in Leases, NEW read, NEW deferred, Publish(lease, read, deferred)
      PROVE  RunsReady'
  <2>1. \A k \in Job : jobs'[k].state = "running" => jobs'[k] = jobs[k]
    BY <1>1, <1>3 DEF Publish, Ended, TableType, Leases
  <2> QED
    BY <2>1 DEF RunsReady
<1>4. ASSUME NEW lease \in Leases, NEW spared, GiveUp(lease.job, spared) PROVE RunsReady'
  BY <1>1, <1>4 DEF GiveUp, Ended, RunsReady, TableType, Leases
<1>5. ASSUME NEW j \in Job,
             \/ jobs' = [jobs EXCEPT ![j].live = FALSE]
             \/ jobs' = [jobs EXCEPT ![j].ready = TRUE]
             \/ jobs' = [jobs EXCEPT ![j].state = "pending"]
      PROVE  RunsReady'
  <2>1. \A k \in Job :
          \/ jobs'[k] = [jobs[k] EXCEPT !.live = FALSE]
          \/ jobs'[k] = [jobs[k] EXCEPT !.ready = TRUE]
          \/ jobs'[k] = [jobs[k] EXCEPT !.state = "pending"]
          \/ jobs'[k] = jobs[k]
    BY <1>1, <1>5 DEF TableType
  <2>2. \A k \in Job : jobs[k] \in Row
    BY <1>1 DEF TableType
  <2> QED
    BY <2>1, <2>2 DEF Row, RunsReady
<1>6. CASE jobs' = jobs
  BY <1>6 DEF RunsReady
<1> QED
  BY <1>2, <1>3, <1>4, <1>5, <1>6, JobsStep

\* A valid claim ends by its holder's hand, or expires: neither a stale worker nor a
\* publication left over from a cancelled task of the same process ends it.
THEOREM ClaimsEndWithHolder == Spec => ClaimEndsWithHolder
<1>1. Init => HeldAlone /\ FenceInv /\ RunsReady
  BY DEF Init, NoJob, HeldAlone, Held, FenceInv, RunsReady, Engaged, AtWork
<1>2. TypeInv /\ HeldAlone /\ FenceInv /\ RunsReady /\ [Next]_vars =>
        [\A w \in Worker :
           LET j == work[w].lease.job IN
           Holding(w) /\ at'[w] = at[w] =>
             jobs'[j] \in {jobs[j], [jobs[j] EXCEPT !.live = FALSE]}]_vars
  <2> SUFFICES ASSUME TypeInv, HeldAlone, FenceInv, RunsReady, [Next]_vars,
                      NEW w \in Worker, Holding(w), at'[w] = at[w]
               PROVE  jobs'[work[w].lease.job] \in
                        {jobs[work[w].lease.job], [jobs[work[w].lease.job] EXCEPT !.live = FALSE]}
    OBVIOUS
  <2> DEFINE j == work[w].lease.job
  <2>1. TableType /\ work[w].lease \in Leases /\ at[w] \in AtWork
    BY TypeParts DEF WorkerType, Holding, Engaged
  <2>2. j \in Job /\ jobs[j] \in Row /\ Held(j) /\ jobs[j].owner = w
        /\ jobs[j].epoch = work[w].lease.epoch
    BY <2>1 DEF TableType, Leases, Holding, CheckLease
  <2>3. ASSUME NEW v, NEW lease \in Leases, CheckLease(v, lease)
        PROVE  v = w /\ lease = work[w].lease
    <3>1. lease.job = j
      BY <2>2, <2>3 DEF CheckLease, HeldAlone, Leases
    <3>2. v = w /\ lease.epoch = work[w].lease.epoch
      BY <2>2, <2>3, <3>1 DEF CheckLease
    <3> QED
      BY <2>1, <3>1, <3>2 DEF Leases
  <2>4. ~\E k \in Job : NextJob(k)
    BY <2>2 DEF NextJob
  <2>5. ~\E v \in Worker : at[v] = "finishing" /\ work[v].lease \in Leases
                          /\ at'[v] # at[v] /\ CheckLease(v, work[v].lease)
    BY <2>3
  <2>6. ~\E v \in Worker : at[v] \in {"failing", "closing"} /\ work[v].lease \in Leases
                          /\ CheckLease(v, work[v].lease)
    BY <2>1, <2>3 DEF AtWork
  <2>7. ~\E t \in late : t.kind = "finish" /\ t.lease \in Leases /\ CheckLease(t.worker, t.lease)
    BY <2>1, <2>3 DEF FenceInv
  <2>8. \/ jobs' = jobs
        \/ \E k \in Job : jobs' = [jobs EXCEPT ![k].live = FALSE]
        \/ \E k \in Job : ~jobs[k].ready /\ jobs' = [jobs EXCEPT ![k].ready = TRUE]
        \/ \E k \in Job : jobs[k].state = "missing" /\ jobs' = [jobs EXCEPT ![k].state = "pending"]
    BY <2>4, <2>5, <2>6, <2>7, JobsStep
  <2>9. jobs[j].ready /\ jobs[j].state # "missing"
    BY <2>2 DEF RunsReady, Held
  <2> QED
    BY <2>1, <2>2, <2>8, <2>9 DEF TableType
<1> QED
  BY <1>1, <1>2, TypeInit, TypeStep, HeldStep, FenceStep, ReadyStep, PTL
     DEF Spec, ClaimEndsWithHolder

-------------------------------------------------------------------------------
(* Every source is read, or left to a job that is not over.                *)

Readable(s) == Session \ (Unclear \cup {s})

Extracted(sources, t) == \E n \in 0..MaxEdits : <<t, n>> \in sources

\* What a job of s has come to: sources that are left, read, extracted or deferred.
Accounts(sources, s, left, read, deferred) ==
  deferred \/ \A t \in Readable(s) : t \in left \/ Extracted(read, t) \/ Extracted(sources, t)

\* A worker, and a publication left to its thread, have accounted for every source.
ReadInv ==
  /\ \A w \in Worker : at[w] \in AtWork =>
       Accounts(done, work[w].lease.job[1], work[w].left, work[w].read, work[w].deferred)
  /\ \A w \in Worker :
       at[w] \in {"checking", "finishing"} \/ (at[w] = "calling" /\ work[w].target = Merge) =>
         work[w].left = {}
  /\ \A t \in late : t.kind = "finish" =>
       Accounts(done, t.lease.job[1], {}, t.read, t.deferred)

\* A job of s that is under way, waits or has failed.
Unfinished(table, s) == \E n \in 0..MaxBatches : table[<<s, n>>].state \in {"pending", "running", "failed"}

Covered(table, sources, s) ==
  Unfinished(table, s) \/ \A t \in Readable(s) : Extracted(sources, t)

\* A continuation is there when its predecessor has succeeded only, and a job that
\* has succeeded leaves no source behind.
ChainInv ==
  \A j \in Job :
    /\ j[2] # 0 /\ jobs[j].state # "missing" => jobs[<<j[1], j[2] - 1>>].state = "succeeded"
    /\ jobs[j].state = "succeeded" => Covered(jobs, done, j[1])

\* What is extracted stays so.
LEMMA DoneGrows == ASSUME TypeInv, [Next]_vars PROVE done \subseteq done'
<1>1. ASSUME NEW w \in Worker, Works(w) PROVE done \subseteq done'
  BY <1>1 DEF Works, ClaimJob, ReadSource, MergeCandidates, SaveAnswer, StepFails, CheckSources,
              FinishJob, Publish, FinishRefused, Fail, Close, GiveBack, Restart, rows
<1>2. ASSUME NEW w \in Worker, Disturbed(w) PROVE done \subseteq done'
  BY <1>2 DEF Disturbed, CancelClaim, SourceUnavailable, Postpone, FinishTimesOut, CancelWork,
              Crash, rows
<1>3. CASE Settles
  BY <1>3 DEF Settles, LateClaim, LateFinish, Publish, Expire, DelayPasses
<1>4. ASSUME NEW s, Schedule(s) \/ Change(s) \/ UNCHANGED vars PROVE done \subseteq done'
  BY <1>4 DEF Schedule, Change, vars, rows
<1> QED
  BY <1>1, <1>2, <1>3, <1>4 DEF Next

\* So does what is covered, as long as no job that is not over succeeds.
LEMMA CoveredStays ==
  ASSUME NEW s, NEW table, NEW table2, NEW sources, NEW sources2, sources \subseteq sources2,
         \A n \in 0..MaxBatches : table[<<s, n>>].state \in {"pending", "running", "failed"} =>
           table2[<<s, n>>].state \in {"pending", "running", "failed"},
         Covered(table, sources, s)
  PROVE  Covered(table2, sources2, s)
BY DEF Covered, Unfinished, Extracted

\* A step that finishes no job.
LEMMA ChainStays ==
  ASSUME TypeInv, ChainInv, done \subseteq done',
         \A k \in Job :
           /\ jobs[k].state \in {"pending", "running", "failed"} =>
                jobs'[k].state \in {"pending", "running", "failed"}
           /\ jobs[k].state = "succeeded" <=> jobs'[k].state = "succeeded"
           /\ jobs[k].state = "missing" /\ k[2] # 0 => jobs'[k].state = "missing"
  PROVE  ChainInv'
<1> SUFFICES ASSUME NEW j \in Job
             PROVE  /\ j[2] # 0 /\ jobs'[j].state # "missing" =>
                         jobs'[<<j[1], j[2] - 1>>].state = "succeeded"
                    /\ jobs'[j].state = "succeeded" => Covered(jobs', done', j[1])
  BY DEF ChainInv
<1>1. j[1] \in Starter /\ j[2] \in 0..MaxBatches /\ \A n \in 0..MaxBatches : <<j[1], n>> \in Job
  BY DEF Job
<1>2. j[2] # 0 => <<j[1], j[2] - 1>> \in Job
  BY <1>1, JobAssumption DEF Job
<1>3. jobs'[j].state = "succeeded" => Covered(jobs', done', j[1])
  <2> SUFFICES ASSUME jobs'[j].state = "succeeded" PROVE Covered(jobs', done', j[1])
    OBVIOUS
  <2>1. Covered(jobs, done, j[1])
    BY DEF ChainInv
  <2> QED
    BY <1>1, <2>1, CoveredStays
<1> QED
  BY <1>2, <1>3 DEF ChainInv

\* A publication leaves a continuation, its own job, or nothing to read.
LEMMA PublishChain ==
  ASSUME TypeInv, ChainInv, NEW lease \in Leases, NEW read, NEW deferred \in BOOLEAN,
         jobs[lease.job].state = "running", Publish(lease, read, deferred),
         Accounts(done, lease.job[1], {}, read, deferred)
  PROVE  ChainInv'
<1> DEFINE j == lease.job
           s == j[1]
           next == <<s, j[2] + 1>>
           partly == deferred /\ read # {}
<1>1. /\ j \in Job /\ s \in Starter /\ j[2] \in 0..MaxBatches /\ j = <<s, j[2]>>
      /\ jobs \in [Job -> Row] /\ j[2] \in Nat
  BY TypeParts, JobAssumption DEF Leases, Job, TableType
<1>2. \A k \in Job : k = <<k[1], k[2]>> /\ k[1] \in Starter /\ k[2] \in 0..MaxBatches
  BY DEF Job
<1>3. partly => next \in Job /\ jobs[next].state = "missing" /\ next # j
  <2> SUFFICES ASSUME partly PROVE next \in Job /\ jobs[next].state = "missing" /\ next # j
    OBVIOUS
  <2>1. j[2] < MaxBatches /\ j[2] + 1 \in 0..MaxBatches
    BY <1>1, JobAssumption DEF Publish
  <2>2. next \in Job /\ next[2] # 0 /\ <<next[1], next[2] - 1>> = j /\ next # j
    BY <1>1, <2>1 DEF Job
  <2> QED
    BY <2>2 DEF ChainInv
<1>4. /\ done' = done \cup read
      /\ \A k \in Job : k # j /\ ~(partly /\ k = next) => jobs'[k] = jobs[k]
      /\ jobs'[j].state = IF deferred /\ ~partly THEN "pending" ELSE "succeeded"
      /\ partly => jobs'[next].state = "pending"
  <2>1. done' = done \cup read
    BY DEF Publish
  <2>2. CASE partly
    <3>1. jobs' = [[jobs EXCEPT ![j] = Ended(j, "succeeded", jobs[j].attempts, TRUE)]
                     EXCEPT ![next].state = "pending"]
      BY <1>3, <2>2 DEF Publish
    <3>2. jobs[next] \in Row
      BY <1>1, <1>3, <2>2
    <3> HIDE DEF next
    <3>3. jobs'[next] = [jobs[next] EXCEPT !.state = "pending"]
          /\ jobs'[j] = Ended(j, "succeeded", jobs[j].attempts, TRUE)
          /\ \A k \in Job : k # j /\ k # next => jobs'[k] = jobs[k]
      BY <1>1, <1>3, <2>2, <3>1
    <3> QED
      BY <2>1, <2>2, <3>2, <3>3 DEF Ended, Row
  <2>3. CASE ~partly
    <3>1. jobs' = [jobs EXCEPT ![j] = IF deferred THEN Ended(j, "pending", 0, FALSE)
                                      ELSE Ended(j, "succeeded", jobs[j].attempts, TRUE)]
      BY <2>3 DEF Publish
    <3> QED
      BY <1>1, <2>1, <2>3, <3>1 DEF Ended
  <2> QED
    BY <2>2, <2>3
<1>5. Covered(jobs', done', s)
  <2>1. CASE partly
    <3>1. j[2] + 1 \in 0..MaxBatches
      BY <1>2, <1>3, <2>1
    <3> QED
      BY <1>4, <2>1, <3>1 DEF Covered, Unfinished
  <2>2. CASE deferred /\ ~partly
    <3>1. jobs'[<<s, j[2]>>].state = "pending"
      BY <1>1, <1>4, <2>2
    <3> QED
      BY <1>1, <3>1 DEF Covered, Unfinished
  <2>3. CASE ~deferred
    BY <1>4, <2>3 DEF Covered, Accounts, Extracted
  <2> QED
    BY <2>1, <2>2, <2>3
<1> HIDE DEF next, partly, j, s
<1>6. ASSUME NEW k \in Job, jobs'[k].state = "succeeded" PROVE Covered(jobs', done', k[1])
  <2>1. CASE k[1] = s
    BY <1>5, <2>1
  <2>2. CASE k[1] # s
    <3>1. \A n \in 0..MaxBatches : <<k[1], n>> \in Job /\ <<k[1], n>> # j /\ <<k[1], n>> # next
      BY <1>1, <1>2, <2>2 DEF Job, next
    <3>2. \A n \in 0..MaxBatches : jobs'[<<k[1], n>>] = jobs[<<k[1], n>>]
      BY <1>4, <3>1
    <3>3. jobs'[k] = jobs[k]
      BY <1>2, <3>2
    <3>4. Covered(jobs, done, k[1])
      BY <1>6, <3>3 DEF ChainInv
    <3>5. done \subseteq done'
      BY <1>4
    <3> QED
      BY <3>2, <3>4, <3>5, CoveredStays
  <2> QED
    BY <2>1, <2>2
<1>7. ASSUME NEW k \in Job, k[2] # 0, jobs'[k].state # "missing"
      PROVE  jobs'[<<k[1], k[2] - 1>>].state = "succeeded"
  <2> DEFINE p == <<k[1], k[2] - 1>>
  <2>1. p \in Job /\ p # k
    BY <1>2, <1>7, JobAssumption DEF Job
  <2>2. CASE partly /\ k = next
    <3>1. p = j
      BY <1>1, <2>2 DEF next
    <3> QED
      BY <1>4, <2>2, <3>1
  <2>3. CASE ~(partly /\ k = next)
    <3>1. jobs[k].state # "missing"
      BY <1>4, <1>7, <2>3 DEF j
    <3>2. jobs[p].state = "succeeded"
      BY <1>7, <3>1 DEF ChainInv
    <3>3. p # j /\ ~(partly /\ p = next)
      BY <1>3, <3>2 DEF j
    <3> QED
      BY <1>4, <2>1, <3>2, <3>3
  <2> QED
    BY <2>2, <2>3
<1> QED
  BY <1>6, <1>7 DEF ChainInv

\* ChainInv is inductive.
LEMMA ChainStep == ASSUME TypeInv, ChainInv, ReadInv, [Next]_vars PROVE ChainInv'
<1>1. TableType /\ WorkerType /\ LateType /\ done \subseteq done'
  BY TypeParts, DoneGrows
<1>2. ASSUME NEW w \in Worker, NEW j \in Job, NextJob(j), ClaimRow(w, j) PROVE ChainInv'
  <2>1. \A k \in Job :
          \/ jobs'[k] = jobs[k]
          \/ jobs[k].state \in {"pending", "running"} /\ jobs'[k].state = "running"
    BY <1>1, <1>2 DEF NextJob, Oldest, Claimable, ClaimRow, TableType
  <2> QED
    BY <1>1, <2>1, ChainStays
<1>3. ASSUME NEW w \in Worker, at[w] = "finishing", work[w].lease \in Leases,
             CheckLease(w, work[w].lease),
             Publish(work[w].lease, work[w].read, work[w].deferred)
      PROVE  ChainInv'
  <2>1. Accounts(done, work[w].lease.job[1], {}, work[w].read, work[w].deferred)
    BY <1>3 DEF ReadInv, AtWork
  <2>2. work[w].deferred \in BOOLEAN /\ jobs[work[w].lease.job].state = "running"
    BY <1>1, <1>3 DEF WorkerType, Task, CheckLease, Held
  <2> QED
    BY <1>3, <2>1, <2>2, PublishChain
<1>4. ASSUME NEW j \in Job, jobs[j].state = "running", NEW spared, GiveUp(j, spared) PROVE ChainInv'
  <2>1. \A k \in Job :
          \/ jobs'[k] = jobs[k]
          \/ jobs[k].state = "running" /\ jobs'[k].state \in {"pending", "failed"}
    BY <1>1, <1>4 DEF GiveUp, Ended, TableType
  <2> QED
    BY <1>1, <2>1, ChainStays
<1>5. ASSUME NEW t \in late, t.kind = "finish", t.lease \in Leases,
             CheckLease(t.worker, t.lease), Publish(t.lease, t.read, t.deferred)
      PROVE  ChainInv'
  <2>1. Accounts(done, t.lease.job[1], {}, t.read, t.deferred)
    BY <1>5 DEF ReadInv
  <2>2. t.deferred \in BOOLEAN /\ jobs[t.lease.job].state = "running"
    BY <1>1, <1>5 DEF LateType, Transaction, CheckLease, Held
  <2> QED
    BY <1>5, <2>1, <2>2, PublishChain
<1>6. ASSUME NEW j \in Job,
             \/ jobs' = [jobs EXCEPT ![j].live = FALSE]
             \/ jobs' = [jobs EXCEPT ![j].ready = TRUE]
      PROVE  ChainInv'
  <2>1. \A k \in Job :
          \/ jobs'[k] = [jobs[k] EXCEPT !.live = FALSE]
          \/ jobs'[k] = [jobs[k] EXCEPT !.ready = TRUE]
          \/ jobs'[k] = jobs[k]
    BY <1>1, <1>6 DEF TableType
  <2>2. \A k \in Job : jobs'[k].state = jobs[k].state
    BY <1>1, <2>1 DEF TableType, Row
  <2> QED
    BY <1>1, <2>2, ChainStays
<1>7. ASSUME NEW j \in Job, jobs[j].state = "missing", j[2] = 0,
             jobs' = [jobs EXCEPT ![j].state = "pending"]
      PROVE  ChainInv'
  <2>1. \A k \in Job : k # j => jobs'[k] = jobs[k]
    BY <1>1, <1>7 DEF TableType
  <2>2. jobs'[j].state = "pending"
    BY <1>1, <1>7 DEF TableType, Row
  <2> QED
    BY <1>1, <1>7, <2>1, <2>2, ChainStays
<1>8. CASE jobs' = jobs
  BY <1>1, <1>8, ChainStays
<1>9. \A lease \in Leases : lease.job \in Job
  BY DEF Leases
<1> QED
  BY <1>2, <1>3, <1>4, <1>5, <1>6, <1>7, <1>8, <1>9, JobsStep DEF CheckLease, Held

\* What a worker has accounted for.
Accounted(w) ==
  /\ at[w] \in AtWork =>
       Accounts(done, work[w].lease.job[1], work[w].left, work[w].read, work[w].deferred)
  /\ at[w] \in {"checking", "finishing"} \/ (at[w] = "calling" /\ work[w].target = Merge) =>
       work[w].left = {}

LEMMA AccountsStay ==
  ASSUME NEW sources, NEW sources2, sources \subseteq sources2, NEW s, NEW left, NEW read,
         NEW deferred, Accounts(sources, s, left, read, deferred)
  PROVE  Accounts(sources2, s, left, read, deferred)
BY DEF Accounts, Extracted

\* A source passes out of what is left when it is read, extracted or deferred.
LEMMA ReadAccounts ==
  ASSUME TypeInv, NEW w \in Worker, at[w] = "reading", Accounted(w), UNCHANGED done,
         NEW s \in work[w].left,
         \/ (s \in Unclear \/ <<s, content[s]>> \in done) /\ Pass(w, s)
         \/ Defer(w, s)
         \/ Take(w, <<s, content[s]>>)
         \/ Request(w, <<s, content[s]>>)
  PROVE  Accounted(w)'
<1>1. work \in [Worker -> Task] /\ at \in [Worker -> Point] /\ work[w] \in Task
  BY TypeParts DEF WorkerType
<1>2. s \in Session /\ content[s] \in 0..MaxEdits
  BY <1>1, TypeParts DEF Task, OtherType
<1> DEFINE job == work[w].lease.job[1]
<1>3. Accounts(done, job, work[w].left, work[w].read, work[w].deferred)
  BY DEF Accounted, AtWork
<1>4. CASE (s \in Unclear \/ <<s, content[s]>> \in done) /\ Pass(w, s)
  <2>1. /\ work'[w].lease = work[w].lease /\ work'[w].left = work[w].left \ {s}
        /\ work'[w].read = work[w].read /\ work'[w].deferred = work[w].deferred
        /\ at'[w] = "reading"
    BY <1>1, <1>4 DEF Pass, Task
  <2>2. s \in Unclear \/ Extracted(done, s)
    BY <1>2, <1>4 DEF Extracted
  <2>3. Accounts(done', job, work[w].left \ {s}, work[w].read, work[w].deferred)
    BY <1>3, <2>2 DEF Accounts, Readable
  <2> QED
    BY <2>1, <2>3 DEF Accounted
<1>5. CASE Defer(w, s)
  <2>1. work'[w] = [work[w] EXCEPT !.left = @ \ {s}, !.deferred = TRUE] /\ at'[w] = "reading"
    BY <1>1, <1>5 DEF Defer
  <2>2. work'[w].deferred = TRUE
    BY <1>1, <2>1 DEF Task
  <2> QED
    BY <2>1, <2>2 DEF Accounted, Accounts
<1>6. CASE Take(w, <<s, content[s]>>)
  <2>1. /\ work'[w] = [work[w] EXCEPT !.left = @ \ {s}, !.read = @ \cup {<<s, content[s]>>}]
        /\ at'[w] = "reading"
    BY <1>1, <1>6 DEF Take
  <2>2. /\ work'[w].lease = work[w].lease /\ work'[w].left = work[w].left \ {s}
        /\ work'[w].read = work[w].read \cup {<<s, content[s]>>}
        /\ work'[w].deferred = work[w].deferred
    BY <1>1, <2>1 DEF Task
  <2>3. Accounts(done', job, work'[w].left, work'[w].read, work[w].deferred)
    BY <1>2, <1>3, <2>2 DEF Accounts, Extracted
  <2> QED
    BY <2>1, <2>2, <2>3 DEF Accounted
<1>7. CASE Request(w, <<s, content[s]>>)
  <2>1. /\ work'[w].lease = work[w].lease /\ work'[w].left = work[w].left
        /\ work'[w].read = work[w].read /\ work'[w].deferred = work[w].deferred
        /\ work'[w].target = <<s, content[s]>> /\ at'[w] = "calling"
    BY <1>1, <1>7 DEF Request, Go, Task
  <2>2. <<s, content[s]>> # Merge
    BY <1>2, JobAssumption
  <2> QED
    BY <1>3, <2>1, <2>2 DEF Accounted
<1> QED
  BY <1>4, <1>5, <1>6, <1>7

\* Every step of a worker keeps its account.
LEMMA WorkAccounts ==
  ASSUME TypeInv, [Next]_vars, NEW w \in Worker, Accounted(w), Works(w)
  PROVE  Accounted(w)'
<1>1. work \in [Worker -> Task] /\ at \in [Worker -> Point] /\ work[w] \in Task /\ done \subseteq done'
  BY TypeParts, DoneGrows DEF WorkerType
<1> DEFINE job == work[w].lease.job[1]
<1>2. CASE ClaimJob(w)
  <2>1. PICK j \in Job :
          work'[w] = [NoWork EXCEPT !.lease = [job |-> j, epoch |-> jobs[j].epoch + 1],
                                    !.left = Session \ {j[1]}]
    BY <1>1, <1>2 DEF ClaimJob
  <2>2. work'[w].lease.job = j /\ work'[w].left = Session \ {j[1]} /\ at'[w] = "reading"
    <3>1. /\ work'[w].lease = [job |-> j, epoch |-> jobs[j].epoch + 1]
          /\ work'[w].left = Session \ {j[1]}
      BY <2>1 DEF NoWork
    <3>2. at'[w] = "reading"
      BY <1>1, <1>2 DEF ClaimJob, Go
    <3> QED
      BY <3>1, <3>2
  <2>3. \A t \in Readable(j[1]) : t \in Session \ {j[1]}
    BY DEF Readable
  <2> QED
    BY <2>2, <2>3 DEF Accounted, Accounts
<1>3. CASE ReadSource(w)
  <2>1. PICK s \in work[w].left :
          \/ (s \in Unclear \/ <<s, content[s]>> \in done) /\ Pass(w, s)
          \/ Defer(w, s)
          \/ Take(w, <<s, content[s]>>)
          \/ Request(w, <<s, content[s]>>)
    BY <1>3 DEF ReadSource
  <2>2. at[w] = "reading" /\ UNCHANGED done
    BY <1>3 DEF ReadSource
  <2> QED
    BY <2>1, <2>2, ReadAccounts
<1>4. CASE MergeCandidates(w)
  <2>1. /\ at[w] = "reading" /\ work[w].left = {} /\ UNCHANGED done
        /\ at'[w] \in {"checking", "calling"}
    BY <1>1, <1>4 DEF MergeCandidates, Go, Request
  <2>2. /\ work'[w].lease = work[w].lease /\ work'[w].left = work[w].left
        /\ work'[w].read = work[w].read /\ work'[w].deferred = work[w].deferred
    BY <1>1, <1>4 DEF MergeCandidates, Request, Task
  <2> QED
    BY <2>1, <2>2 DEF Accounted, AtWork
<1>5. CASE SaveAnswer(w)
  <2>1. at[w] = "calling" /\ UNCHANGED done
        /\ Accounts(done, job, work[w].left, work[w].read, work[w].deferred)
    BY <1>5 DEF SaveAnswer, Accounted, AtWork
  <2>2. CASE work[w].target = Merge
    <3>1. /\ work'[w].lease = work[w].lease /\ work'[w].left = work[w].left
          /\ work'[w].read = work[w].read /\ work'[w].deferred = work[w].deferred
          /\ at'[w] = "checking"
      BY <1>1, <1>5, <2>2 DEF SaveAnswer, Go, Task
    <3> QED
      BY <2>1, <2>2, <3>1 DEF Accounted
  <2>3. CASE work[w].target # Merge
    <3> DEFINE target == work[w].target
    <3>1. work'[w] = [work[w] EXCEPT !.left = @ \ {target[1]}, !.read = @ \cup {target},
                                     !.target = NoTarget]
          /\ at'[w] = "reading"
      BY <1>1, <1>5, <2>3 DEF SaveAnswer, Go
    <3>2. /\ work'[w].lease = work[w].lease /\ work'[w].left = work[w].left \ {target[1]}
          /\ work'[w].read = work[w].read \cup {target}
          /\ work'[w].deferred = work[w].deferred
      BY <1>1, <3>1 DEF Task
    <3>3. target \in Snapshot
      BY <2>1, <2>3, TypeParts DEF WorkerType
    <3>4. target = <<target[1], target[2]>> /\ target[2] \in 0..MaxEdits
      BY <3>3 DEF Snapshot
    <3> HIDE DEF target
    <3>5. Accounts(done', job, work'[w].left, work'[w].read, work[w].deferred)
      BY <2>1, <3>2, <3>4 DEF Accounts, Extracted
    <3> QED
      BY <3>1, <3>2, <3>5 DEF Accounted
  <2> QED
    BY <2>2, <2>3
<1>6. CASE CheckSources(w)
  <2>1. at[w] = "checking" /\ UNCHANGED done
    BY <1>6 DEF CheckSources, rows
  <2>2. CASE Current(w)
    BY <1>1, <1>6, <2>1, <2>2 DEF CheckSources, Go, Accounted, AtWork
  <2>3. CASE ~Current(w)
    <3>1. at'[w] = "failing"
      BY <1>1, <1>6, <2>3 DEF CheckSources, Abort, Unwind, Go
    <3> QED
      BY <3>1 DEF Accounted, AtWork
  <2> QED
    BY <2>2, <2>3
<1>7. CASE StepFails(w) \/ FinishJob(w) \/ FinishRefused(w) \/ Fail(w) \/ Close(w) \/ Restart(w)
  <2>1. at'[w] \in {"failing", "idle", "stopped"}
    BY <1>1, <1>7 DEF StepFails, FinishJob, FinishRefused, Fail, Close, Restart, Abort, Unwind, Go
  <2> QED
    BY <2>1 DEF Accounted, AtWork
<1> QED
  BY <1>2, <1>3, <1>4, <1>5, <1>6, <1>7 DEF Works

\* So does every disturbance, and a publication left to its thread takes it along.
LEMMA DisturbedAccounts ==
  ASSUME TypeInv, [Next]_vars, NEW w \in Worker, Accounted(w), Disturbed(w)
  PROVE  /\ Accounted(w)'
         /\ \A t \in late' : t \in late \/ t.kind = "claim" \/
              Accounts(done, t.lease.job[1], {}, t.read, t.deferred)
<1>1. work \in [Worker -> Task] /\ at \in [Worker -> Point] /\ work[w] \in Task
  BY TypeParts DEF WorkerType
<1>2. CASE SourceUnavailable(w)
  <2>1. PICK s : Defer(w, s)
    BY <1>2 DEF SourceUnavailable
  <2>2. work'[w] = [work[w] EXCEPT !.left = @ \ {s}, !.deferred = TRUE] /\ at'[w] = "reading"
    BY <1>1, <1>2, <2>1 DEF SourceUnavailable, Defer
  <2>3. work'[w].deferred = TRUE /\ late' = late
    BY <1>1, <1>2, <2>2 DEF Task, SourceUnavailable
  <2> QED
    BY <2>2, <2>3 DEF Accounted, Accounts
<1>3. CASE CancelClaim(w) \/ Postpone(w) \/ FinishTimesOut(w) \/ CancelWork(w) \/ Crash(w)
  <2>1. at'[w] \in {"failing", "idle", "stopped", "closing"}
    BY <1>1, <1>3 DEF CancelClaim, Postpone, FinishTimesOut, CancelWork, Crash, Abort, Unwind, Go
  <2>2. Accounted(w)'
    BY <2>1 DEF Accounted, AtWork
  <2>3. \A t \in late' : t \in late \/ t.kind = "claim" \/
          (at[w] = "finishing" /\ t = LatePublication(w))
    <3>1. CASE CancelClaim(w)
      BY <3>1 DEF CancelClaim, GoesOn
    <3>2. CASE FinishTimesOut(w) \/ (CancelWork(w) /\ at[w] = "finishing")
      BY <3>2 DEF FinishTimesOut, CancelWork, GoesOn
    <3>3. CASE Postpone(w) \/ Crash(w) \/ (CancelWork(w) /\ at[w] # "finishing")
      BY <3>3 DEF Postpone, Crash, CancelWork
    <3> QED
      BY <1>3, <3>1, <3>2, <3>3
  <2>4. at[w] = "finishing" =>
          Accounts(done, work[w].lease.job[1], {}, work[w].read, work[w].deferred)
    BY DEF Accounted, AtWork
  <2> QED
    BY <2>2, <2>3, <2>4 DEF LatePublication
<1> QED
  BY <1>2, <1>3 DEF Disturbed

\* ReadInv is inductive.
LEMMA ReadStep == ASSUME TypeInv, ReadInv, [Next]_vars PROVE ReadInv'
<1>1. WorkerType /\ done \subseteq done' /\ \A w \in Worker : Accounted(w)
  BY TypeParts, DoneGrows DEF ReadInv, Accounted
<1>2. ASSUME NEW v \in Worker, at'[v] = at[v], work'[v] = work[v] PROVE Accounted(v)'
  BY <1>1, <1>2, AccountsStay DEF Accounted
<1>3. ASSUME \A w \in Worker : Accounted(w)',
             \A t \in late' : t \in late \/ t.kind = "claim" \/
               Accounts(done, t.lease.job[1], {}, t.read, t.deferred)
      PROVE  ReadInv'
  <2>1. ASSUME NEW t \in late', t.kind = "finish"
        PROVE  Accounts(done', t.lease.job[1], {}, t.read, t.deferred)
    <3>1. Accounts(done, t.lease.job[1], {}, t.read, t.deferred)
      BY <1>3, <2>1 DEF ReadInv
    <3> QED
      BY <1>1, <3>1, AccountsStay
  <2> QED
    BY <1>3, <2>1 DEF ReadInv, Accounted
<1>4. ASSUME NEW w \in Worker, Works(w) PROVE ReadInv'
  <2>1. \A v \in Worker : v # w => at'[v] = at[v] /\ work'[v] = work[v]
    BY <1>1, <1>4 DEF Works, ClaimJob, ReadSource, Pass, Defer, Take, Request, MergeCandidates,
                SaveAnswer, StepFails, CheckSources, FinishJob, FinishRefused, Fail, Close, GiveBack,
                Restart, Abort, Unwind, Go, WorkerType
  <2>2. late' = late
    BY <1>4 DEF Works, ClaimJob, ReadSource, MergeCandidates, SaveAnswer, StepFails, CheckSources,
                FinishJob, FinishRefused, Fail, Close, GiveBack, Restart
  <2> QED
    BY <1>1, <1>2, <1>3, <1>4, <2>1, <2>2, WorkAccounts
<1>5. ASSUME NEW w \in Worker, Disturbed(w) PROVE ReadInv'
  <2>1. \A v \in Worker : v # w => at'[v] = at[v] /\ work'[v] = work[v]
    BY <1>1, <1>5 DEF Disturbed, CancelClaim, SourceUnavailable, Defer, Postpone, FinishTimesOut,
                CancelWork, Crash, Abort, Unwind, Go, WorkerType
  <2> QED
    BY <1>1, <1>2, <1>3, <1>5, <2>1, DisturbedAccounts
<1>6. CASE at' = at /\ work' = work /\ late' \subseteq late
  BY <1>2, <1>3, <1>6
<1>7. Settles \/ (\E s \in Starter : Schedule(s)) \/ (\E s \in Session : Change(s)) \/ UNCHANGED vars
      => at' = at /\ work' = work /\ late' \subseteq late
  BY DEF Settles, LateClaim, LateFinish, Expire, DelayPasses, Schedule, Change, vars, rows
<1> QED
  BY <1>4, <1>5, <1>6, <1>7 DEF Next

\* No readable session is forgotten: when the job of another one has succeeded, it
\* has been extracted, or a continuation of that job waits, runs or has failed,
\* for any number of workers, crashes, late publications and continuations.
THEOREM NoSourceIsForgotten == Spec => []NoSourceForgotten
<1>1. Init => ReadInv /\ ChainInv
  BY DEF Init, NoJob, ReadInv, AtWork, ChainInv
<1>2. TypeInv /\ (ReadInv /\ ChainInv) /\ [Next]_vars => (ReadInv /\ ChainInv)'
  BY ReadStep, ChainStep
<1>3. ChainInv => NoSourceForgotten
  <2> SUFFICES ASSUME ChainInv, NEW s \in Starter, NEW t \in Session \ (Unclear \cup {s}),
                      jobs[<<s, 0>>].state = "succeeded"
               PROVE  \/ \E n \in 0..MaxEdits : <<t, n>> \in done
                      \/ Unfinished(jobs, s)
    BY DEF NoSourceForgotten, Unfinished
  <2>1. <<s, 0>> \in Job /\ <<s, 0>>[1] = s
    BY JobAssumption DEF Job
  <2>2. Covered(jobs, done, s)
    BY <2>1 DEF ChainInv
  <2> QED
    BY <2>2 DEF Covered, Readable, Extracted
<1> QED
  BY <1>1, <1>2, <1>3, TypeInit, TypeStep, PTL DEF Spec

-------------------------------------------------------------------------------
(***************************************************************************)
(* The records.                                                            *)
(* Versions are only added, so each result is about what a step may add:   *)
(* a first version, whose source must be new; a version on top of a        *)
(* disabled one, which must stay disabled, be expired or be a              *)
(* reactivation; a version that replaces one a running search has found.   *)
(***************************************************************************)

Intent ==
  [op : Op, target : Memory \cup {NoMemory}, expected : Nat, until : 1..Never,
   deps : SUBSET Dep, result : Nat]

Verdict == {"unknown", "yes", "no"}

Search ==
  [pc : {"idle", "check", "shown"}, found : SUBSET (Memory \X Nat), good : SUBSET Dep,
   bad : SUBSET Dep, todo : SUBSET Dep, since : [Memory -> Nat]]

\* Every variable has its type; an intent other than a new memory has its target.
RecordsTypeInv ==
  /\ versions \in [Memory -> Seq(Version)]
  /\ suppressed \in [Memory -> {"none", "on", "off"}]
  /\ intent \in [Turn -> Intent \cup {NoIntent}]
  /\ \A t \in Turn : intent[t] # NoIntent /\ intent[t].op # "remember" =>
       intent[t].target \in Known
  /\ verified \in [Turn -> Verdict]
  /\ \A t \in Turn : verified[t] # "unknown" => intent[t] # NoIntent
  /\ clock \in Nat
  /\ search \in Search

-------------------------------------------------------------------------------
(* What a step adds.                                                       *)

\* A version on top of another one is that version again, with a new state.
Again(id, x) == versions[id] # <<>> /\ x.source = Latest(id).source

\* What may follow a disabled version.
Follows(log, x) ==
  log # <<>> /\ log[Len(log)].state = "disabled" =>
    x.state \in {"disabled", "expired"} \/ x.by = "reactivate"

\* A step of a search or a recall adds at most one version to a memory.
Renewed(id) ==
  \/ versions'[id] = versions[id]
  \/ \E x \in Version :
       /\ versions'[id] = Append(versions[id], x)
       /\ Again(id, x) /\ Follows(versions[id], x)
       /\ x.state # "active"

\* The latest version of a known memory is a version.
LEMMA LatestType ==
  ASSUME RecordsTypeInv, NEW id \in Known
  PROVE  /\ id \in Memory /\ versions[id] \in Seq(Version) /\ versions[id] # <<>>
         /\ Len(versions[id]) \in 1..Len(versions[id]) /\ Len(versions[id]) \in Nat
         /\ Latest(id) \in Version
<1>1. id \in Memory /\ versions[id] \in Seq(Version) /\ versions[id] # <<>>
  BY DEF RecordsTypeInv, Known
<1>2. Len(versions[id]) \in 1..Len(versions[id]) /\ Len(versions[id]) \in Nat
  BY <1>1
<1>3. versions[id][Len(versions[id])] \in Version
  BY <1>1, <1>2
<1> QED
  BY <1>1, <1>2, <1>3 DEF Latest

\* A recall writes expiries only.
LEMMA RecallRenews ==
  ASSUME RecordsTypeInv, Recall
  PROVE  /\ \A id \in Memory : Renewed(id)
         /\ \A id \in Memory : ~(id \in Known /\ Expiring(id)) => versions'[id] = versions[id]
         /\ \A id \in Known : Expiring(id) => Len(versions'[id]) = Len(versions[id]) + 1
         /\ versions' \in [Memory -> Seq(Version)]
<1> DEFINE x(id) == [Latest(id) EXCEPT !.state = "expired", !.by = "recall"]
<1>1. versions' = [id \in Memory |->
        IF id \in Known /\ Expiring(id) THEN Append(versions[id], x(id)) ELSE versions[id]]
  BY DEF Recall
<1>2. ASSUME NEW id \in Known
      PROVE  x(id) \in Version /\ x(id).state = "expired" /\ x(id).source = Latest(id).source
  BY LatestType DEF Version, State
<1> HIDE DEF x
<1>3. ASSUME NEW id \in Memory
      PROVE  /\ Renewed(id)
             /\ ~(id \in Known /\ Expiring(id)) => versions'[id] = versions[id]
             /\ id \in Known /\ Expiring(id) => Len(versions'[id]) = Len(versions[id]) + 1
             /\ versions'[id] \in Seq(Version)
  <2>1. CASE id \in Known /\ Expiring(id)
    <3>1. versions'[id] = Append(versions[id], x(id)) /\ versions[id] # <<>>
      BY <1>1, <2>1, LatestType
    <3>2. versions[id] \in Seq(Version) /\ x(id) \in Version
      BY <1>2, <2>1, LatestType
    <3>3. Again(id, x(id)) /\ Follows(versions[id], x(id)) /\ x(id).state # "active"
      BY <1>2, <2>1, <3>1 DEF Again, Follows
    <3>4. Len(versions'[id]) = Len(versions[id]) + 1 /\ versions'[id] \in Seq(Version)
      BY <3>1, <3>2
    <3> QED
      BY <2>1, <3>1, <3>2, <3>3, <3>4 DEF Renewed
  <2>2. CASE ~(id \in Known /\ Expiring(id))
    BY <1>1, <2>2 DEF Renewed, RecordsTypeInv
  <2> QED
    BY <2>1, <2>2
<1>4. \A id \in Known : id \in Memory
  BY DEF Known
<1>5. versions' \in [Memory -> Seq(Version)]
  BY <1>1, <1>3
<1> QED
  BY <1>3, <1>4, <1>5

\* An invalidation touches active memories only.
LEMMA InvalidateRenews ==
  ASSUME RecordsTypeInv, NEW d \in Dep, InvalidateDependency(d)
  PROVE  /\ \A id \in Memory : Renewed(id)
         /\ \A id \in Touched(d) : Len(versions'[id]) = Len(versions[id]) + 1
         /\ versions' \in [Memory -> Seq(Version)]
<1> DEFINE x(id) == [Latest(id) EXCEPT !.state = "needs_verification", !.by = "search"]
<1>1. versions' = [id \in Memory |->
        IF id \in Touched(d) THEN Append(versions[id], x(id)) ELSE versions[id]]
  BY DEF InvalidateDependency
<1>2. ASSUME NEW id \in Touched(d)
      PROVE  /\ id \in Known /\ Latest(id).state = "active"
             /\ x(id) \in Version /\ x(id).state = "needs_verification"
             /\ x(id).source = Latest(id).source
  <2>1. id \in Known /\ Latest(id).state = "active"
    BY DEF Touched
  <2> QED
    BY <2>1, LatestType DEF Version, State
<1> HIDE DEF x
<1>3. ASSUME NEW id \in Memory
      PROVE  /\ Renewed(id) /\ versions'[id] \in Seq(Version)
             /\ id \in Touched(d) => Len(versions'[id]) = Len(versions[id]) + 1
  <2>1. CASE id \in Touched(d)
    <3>1. versions'[id] = Append(versions[id], x(id)) /\ versions[id] # <<>>
      BY <1>1, <1>2, <2>1, LatestType
    <3>2. versions[id] \in Seq(Version) /\ x(id) \in Version
      BY <1>2, <2>1, LatestType
    <3>3. Again(id, x(id)) /\ Follows(versions[id], x(id)) /\ x(id).state # "active"
      BY <1>2, <2>1, <3>1 DEF Again, Follows, Latest
    <3>4. Len(versions'[id]) = Len(versions[id]) + 1 /\ versions'[id] \in Seq(Version)
      BY <3>1, <3>2
    <3> QED
      BY <2>1, <3>1, <3>2, <3>3, <3>4 DEF Renewed
  <2>2. CASE id \notin Touched(d)
    BY <1>1, <2>2 DEF Renewed, RecordsTypeInv
  <2> QED
    BY <2>1, <2>2
<1>4. \A id \in Touched(d) : id \in Memory
  BY DEF Touched, Known
<1>5. versions' \in [Memory -> Seq(Version)]
  BY <1>1, <1>3
<1> QED
  BY <1>3, <1>4, <1>5
\* What an applied intent adds, and where.
LEMMA ApplyAdds ==
  ASSUME RecordsTypeInv, NEW t \in Turn, ApplyIntent(t)
  PROVE  \E id \in Memory, x \in Version :
           /\ versions' = [versions EXCEPT ![id] = Append(@, x)]
           /\ intent' = [intent EXCEPT ![t].result = Len(versions[id]) + 1]
           /\ suppressed' \in [Memory -> {"none", "on", "off"}]
           /\ x.source = t /\ x.by = intent[t].op
           /\ intent[t] \in Intent /\ intent[t].result = 0
           /\ intent[t].op = "remember" => id \in Fresh
           /\ intent[t].op # "remember" => id = intent[t].target /\ id \in Known
           /\ Follows(versions[id], x)
           /\ x.state = "disabled" \/ intent[t].op # "disable"
<1> DEFINE i == intent[t]
<1>1. i \in Intent /\ i # NoIntent /\ i.result = 0
  BY DEF ApplyIntent, RecordsTypeInv, NotApplied
<1>2. PICK id \in IF i.op = "remember" THEN Fresh ELSE {i.target} :
        LET disabled == i.op # "remember" /\ Latest(id).state = "disabled"
            state == StateAfter(i, disabled, verified[t] = "yes")
        IN  /\ Add(id, [state |-> state, until |-> i.until, deps |-> i.deps,
                        by |-> i.op, source |-> t])
            /\ intent' = [intent EXCEPT ![t].result = ResultVersion(id)]
            /\ suppressed' =
                 CASE i.op = "disable" -> [suppressed EXCEPT ![id] = "on"]
                   [] i.op = "reactivate" /\ state = "active" /\ suppressed[id] = "on" ->
                        [suppressed EXCEPT ![id] = "off"]
                   [] OTHER -> suppressed
  BY DEF ApplyIntent
<1> DEFINE disabled == i.op # "remember" /\ Latest(id).state = "disabled"
           state == StateAfter(i, disabled, verified[t] = "yes")
           x == [state |-> state, until |-> i.until, deps |-> i.deps, by |-> i.op, source |-> t]
<1>3. /\ id \in Memory
      /\ i.op = "remember" => id \in Fresh
      /\ i.op # "remember" => id = i.target /\ id \in Known
  BY <1>1, <1>2 DEF RecordsTypeInv, Fresh, Known
<1>4. /\ state \in State
      /\ disabled /\ i.op # "reactivate" => state = "disabled"
      /\ i.op = "disable" => state = "disabled"
  BY DEF StateAfter, StateUnless, State
<1>5. /\ Add(id, x) /\ intent' = [intent EXCEPT ![t].result = ResultVersion(id)]
      /\ suppressed' \in {suppressed, [suppressed EXCEPT ![id] = "on"],
                          [suppressed EXCEPT ![id] = "off"]}
  BY <1>2
<1> HIDE DEF state
<1>6. x \in Version /\ x.source = t /\ x.by = i.op /\ x.state = state
  BY <1>1, <1>4 DEF Version, Intent, State
<1>7. Follows(versions[id], x)
  <2>1. CASE i.op = "remember"
    BY <1>3, <2>1 DEF Follows, Fresh, Known
  <2>2. CASE i.op # "remember"
    BY <1>4, <1>6, <2>2 DEF Follows, Latest
  <2> QED
    BY <2>1, <2>2
<1>8. suppressed' \in [Memory -> {"none", "on", "off"}]
  BY <1>3, <1>5 DEF RecordsTypeInv
<1> HIDE DEF x
<1>9. /\ versions' = [versions EXCEPT ![id] = Append(@, x)]
      /\ intent' = [intent EXCEPT ![t].result = Len(versions[id]) + 1]
  BY <1>5 DEF Add, ResultVersion
<1>10. x.state = "disabled" \/ i.op # "disable"
  BY <1>4, <1>6
<1> QED
  BY <1>1, <1>3, <1>6, <1>7, <1>8, <1>9, <1>10

\* What a publication adds, and where.
LEMMA PublishAdds ==
  ASSUME RecordsTypeInv, NEW c \in Candidate, PublishCandidate(c)
  PROVE  \E id \in Fresh, x \in Version :
           /\ versions' = [versions EXCEPT ![id] = Append(@, x)]
           /\ x.source = c
<1>1. PICK id \in Fresh, deps \in SUBSET Dep, state \in {"needs_verification", "active"} :
        Add(id, [state |-> state, until |-> Never, deps |-> deps, by |-> "publish", source |-> c])
  BY DEF PublishCandidate
<1> DEFINE x == [state |-> state, until |-> Never, deps |-> deps, by |-> "publish", source |-> c]
<1>2. x \in Version /\ x.source = c
  <2>1. Never \in 1..Never
    BY RecordsAssumption DEF Never
  <2> QED
    BY <1>1, <2>1 DEF Version, State
<1> HIDE DEF x
<1>3. versions' = [versions EXCEPT ![id] = Append(@, x)]
  BY <1>1 DEF Add, x
<1> QED
  BY <1>2, <1>3

\* A version added to one memory.
LEMMA AddOne ==
  ASSUME versions \in [Memory -> Seq(Version)], NEW id \in Memory, NEW x \in Version,
         versions' = [versions EXCEPT ![id] = Append(@, x)]
  PROVE  /\ versions' \in [Memory -> Seq(Version)]
         /\ versions'[id] = Append(versions[id], x)
         /\ \A k \in Memory \ {id} : versions'[k] = versions[k]
         /\ Known' = Known \cup {id}
<1>1. /\ versions[id] \in Seq(Version)
      /\ versions'[id] = Append(versions[id], x)
      /\ \A k \in Memory \ {id} : versions'[k] = versions[k]
  OBVIOUS
<1>2. Append(versions[id], x) \in Seq(Version) /\ Append(versions[id], x) # <<>>
  BY <1>1
<1>3. versions' \in [Memory -> Seq(Version)]
  BY <1>1, <1>2
<1>4. \A k \in Memory : k \in Known' <=> k \in Known \cup {id}
  BY <1>1, <1>2 DEF Known
<1> QED
  BY <1>1, <1>3, <1>4 DEF Known

\* Memories stay known.
LEMMA RenewedKnown ==
  ASSUME versions \in [Memory -> Seq(Version)], \A id \in Memory : Renewed(id)
  PROVE  Known' = Known
<1> SUFFICES ASSUME NEW id \in Memory PROVE versions'[id] = <<>> <=> versions[id] = <<>>
  BY DEF Known
<1>1. CASE versions'[id] = versions[id]
  BY <1>1
<1>2. ASSUME NEW x \in Version, versions'[id] = Append(versions[id], x), Again(id, x)
      PROVE  versions[id] # <<>> /\ versions'[id] # <<>>
  BY <1>2 DEF Again
<1> QED
  BY <1>1, <1>2 DEF Renewed

\* The types: what a search finds and remembers.
LEMMA SearchType ==
  ASSUME RecordsTypeInv,
         \/ BeginSearch
         \/ \E d \in Dep : CheckDependency(d) \/ InvalidateDependency(d)
         \/ ShowResults
         \/ EndSearch
  PROVE  search' \in Search
<1>0. search \in Search /\ \A id \in Memory : Len(versions[id]) \in Nat
  BY DEF RecordsTypeInv
<1>1. Actives \in SUBSET (Memory \X Nat)
  BY <1>0 DEF Actives, Known
<1>2. IdleSearch \in Search
  BY DEF IdleSearch, Search
<1>3. [id \in Memory |-> Len(versions[id])] \in [Memory -> Nat]
  BY <1>0
<1>4. CASE BeginSearch
  BY <1>1, <1>2, <1>3, <1>4 DEF BeginSearch, Search
<1>5. ASSUME NEW d \in Dep, CheckDependency(d) \/ InvalidateDependency(d) PROVE search' \in Search
  <2>1. CASE CheckDependency(d)
    <3>1. CASE d \in current
      BY <1>0, <2>1, <3>1 DEF CheckDependency, Search
    <3>2. CASE d \notin current
      <4>1. search.bad \cup {d} \in SUBSET Dep /\ search.todo \cup {d} \in SUBSET Dep
        BY <1>0 DEF Search
      <4>2. search' = [search EXCEPT !.bad = search.bad \cup {d}, !.todo = search.todo \cup {d}]
        BY <2>1, <3>2 DEF CheckDependency
      <4> QED
        BY <1>0, <4>1, <4>2 DEF Search
    <3> QED
      BY <3>1, <3>2
  <2>2. CASE InvalidateDependency(d)
    BY <1>0, <2>2 DEF InvalidateDependency, Search
  <2> QED
    BY <1>5, <2>1, <2>2
<1>6. CASE ShowResults
  BY <1>0, <1>1, <1>6 DEF ShowResults, Show, ShowAsFound, ShowAgain, Search
<1>7. CASE EndSearch
  BY <1>2, <1>7 DEF EndSearch
<1> QED
  BY <1>4, <1>5, <1>6, <1>7

\* The types: an accepted intent takes over what it leaves unsaid.
LEMMA AcceptType ==
  ASSUME RecordsTypeInv, NEW t \in Turn, NEW op \in Op, NEW target \in Memory \cup {NoMemory},
         AcceptIntent(t, op, target)
  PROVE  \E i \in Intent : /\ intent' = [intent EXCEPT ![t] = i] /\ i.result = 0
                           /\ i.op # "remember" => i.target \in Known
<1>1. /\ op = "remember" <=> target = NoMemory
      /\ target \in Known \cup {NoMemory}
      /\ \E until \in (IF op \in {"remember", "correct"} THEN 1..Never ELSE {Never}) :
         \E deps \in SUBSET Dep :
           intent' = [intent EXCEPT ![t] = NewIntent(t, op, target, until, deps)]
  BY DEF AcceptIntent
<1>2. Never \in 1..Never
  BY RecordsAssumption DEF Never
<1>3. PICK until \in 1..Never, deps \in SUBSET Dep :
        intent' = [intent EXCEPT ![t] = NewIntent(t, op, target, until, deps)]
  BY <1>1, <1>2
<1> DEFINE i == NewIntent(t, op, target, until, deps)
<1>4. /\ i.result = 0 /\ i.op = op /\ i.target = target
      /\ op # "remember" => target \in Known
  BY <1>1 DEF NewIntent
<1>5. i \in Intent
  <2>1. Count(target) \in Nat
    BY <1>1, LatestType DEF Count
  <2>2. op # "remember" => Latest(target).until \in 1..Never /\ Latest(target).deps \in SUBSET Dep
    BY <1>4, LatestType DEF Version
  <2>3. (IF until = Never /\ op # "remember" THEN Latest(target).until ELSE until) \in 1..Never
    BY <2>2
  <2>4. (IF deps = {} /\ op # "remember" THEN Latest(target).deps ELSE deps) \in SUBSET Dep
    BY <2>2
  <2> QED
    BY <2>1, <2>3, <2>4 DEF NewIntent, Intent
<1> QED
  BY <1>3, <1>4, <1>5

\* Every step keeps the types.
LEMMA RecordsTypeStep ==
  ASSUME RecordsTypeInv, [RecordsNext]_recordVars
  PROVE  RecordsTypeInv'
<1>1. ASSUME NEW t \in Turn, NEW op \in Op, NEW target \in Memory \cup {NoMemory},
             AcceptIntent(t, op, target)
      PROVE  RecordsTypeInv'
  <2>1. PICK i \in Intent : /\ intent' = [intent EXCEPT ![t] = i]
                            /\ i.op # "remember" => i.target \in Known
    BY <1>1, AcceptType
  <2>2. UNCHANGED <<versions, suppressed, verified, current, clock, search>> /\ Known' = Known
    BY <1>1 DEF AcceptIntent, Known
  <2>3. i # NoIntent
    BY DEF Intent, NoIntent, Op
  <2> QED
    BY <2>1, <2>2, <2>3 DEF RecordsTypeInv
<1>2. ASSUME NEW t \in Turn, VerifyDependencies(t) \/ RefuseIntent(t) PROVE RecordsTypeInv'
  <2>1. /\ UNCHANGED <<versions, suppressed, intent, clock, search>> /\ Known' = Known
        /\ \E v \in Verdict : verified' = [verified EXCEPT ![t] = v]
        /\ intent[t] # NoIntent
    BY <1>2 DEF VerifyDependencies, RefuseIntent, Verdict, Known, RecordsTypeInv
  <2> QED
    BY <2>1 DEF RecordsTypeInv
<1>3. ASSUME NEW t \in Turn, ApplyIntent(t) PROVE RecordsTypeInv'
  <2>1. PICK id \in Memory, x \in Version :
          /\ versions' = [versions EXCEPT ![id] = Append(@, x)]
          /\ intent' = [intent EXCEPT ![t].result = Len(versions[id]) + 1]
          /\ suppressed' \in [Memory -> {"none", "on", "off"}]
          /\ intent[t] \in Intent
    BY <1>3, ApplyAdds
  <2>2. /\ UNCHANGED <<clock, search>> /\ verified' = [verified EXCEPT ![t] = "unknown"]
        /\ intent[t] # NoIntent
    BY <1>3 DEF ApplyIntent, RecordsTypeInv
  <2>3. versions' \in [Memory -> Seq(Version)] /\ Known \subseteq Known'
    BY <2>1, AddOne DEF RecordsTypeInv
  <2>4. PICK n \in Nat : intent' = [intent EXCEPT ![t].result = n]
    <3>1. Len(versions[id]) + 1 \in Nat
      BY DEF RecordsTypeInv
    <3> QED
      BY <2>1, <3>1
  <2>5. /\ intent' \in [Turn -> Intent \cup {NoIntent}] /\ intent'[t] # NoIntent
        /\ intent'[t].op = intent[t].op /\ intent'[t].target = intent[t].target
        /\ \A u \in Turn \ {t} : intent'[u] = intent[u]
    <3>1. [intent[t] EXCEPT !.result = n] \in Intent
      BY <2>1 DEF Intent
    <3>2. /\ intent'[t] = [intent[t] EXCEPT !.result = n]
          /\ \A u \in Turn \ {t} : intent'[u] = intent[u]
          /\ DOMAIN intent' = Turn /\ intent' = [u \in Turn |-> intent'[u]]
      BY <2>4 DEF RecordsTypeInv
    <3>3. \A u \in Turn : intent'[u] \in Intent \cup {NoIntent}
      BY <3>1, <3>2 DEF RecordsTypeInv
    <3>4. /\ intent'[t].op = intent[t].op /\ intent'[t].target = intent[t].target
          /\ intent'[t] \in Intent
      BY <2>1, <3>1, <3>2 DEF Intent
    <3>5. intent'[t] # NoIntent
      BY <3>4 DEF Intent, NoIntent, Op
    <3> QED
      BY <3>2, <3>3, <3>4, <3>5
  <2>6. \A u \in Turn : intent'[u] # NoIntent /\ intent'[u].op # "remember" =>
          intent'[u].target \in Known'
    BY <2>2, <2>3, <2>5 DEF RecordsTypeInv
  <2>7. /\ verified' \in [Turn -> Verdict]
        /\ \A u \in Turn : verified'[u] # "unknown" => intent'[u] # NoIntent
    BY <2>2, <2>5 DEF RecordsTypeInv, Verdict
  <2> QED
    BY <2>1, <2>2, <2>3, <2>5, <2>6, <2>7 DEF RecordsTypeInv
<1>4. ASSUME NEW c \in Candidate, PublishCandidate(c) PROVE RecordsTypeInv'
  <2>1. PICK id \in Fresh, x \in Version : versions' = [versions EXCEPT ![id] = Append(@, x)]
    BY <1>4, PublishAdds
  <2>2. versions' \in [Memory -> Seq(Version)] /\ Known \subseteq Known'
    BY <2>1, AddOne DEF RecordsTypeInv, Fresh
  <2>3. UNCHANGED <<suppressed, intent, verified, clock, search>>
    BY <1>4 DEF PublishCandidate
  <2> QED
    BY <2>2, <2>3 DEF RecordsTypeInv
<1>5. CASE \/ BeginSearch \/ ShowResults \/ EndSearch
           \/ \E d \in Dep : CheckDependency(d) \/ InvalidateDependency(d)
  <2>1. UNCHANGED <<suppressed, intent, verified, clock>>
    BY <1>5 DEF BeginSearch, ShowResults, EndSearch, CheckDependency, InvalidateDependency
  <2>2. \/ UNCHANGED versions \/ Recall
        \/ \E d \in Dep : InvalidateDependency(d)
    BY <1>5 DEF BeginSearch, ShowResults, Show, ShowAsFound, ShowAgain, EndSearch,
                CheckDependency
  <2>3. versions' \in [Memory -> Seq(Version)] /\ Known' = Known
    BY <2>2, RecallRenews, InvalidateRenews, RenewedKnown DEF RecordsTypeInv, Known
  <2> QED
    BY <1>5, <2>1, <2>3, SearchType DEF RecordsTypeInv
<1>6. CASE \/ \E d \in Dep : SourceChanges(d) \/ UNCHANGED recordVars
           \/ Tick \/ UNCHANGED recordVars
  <2>1. /\ UNCHANGED <<versions, suppressed, intent, verified, search>>
        /\ clock' \in {clock, clock + 1} /\ Known' = Known
    BY <1>6 DEF SourceChanges, Tick, recordVars, Known
  <2> QED
    BY <2>1 DEF RecordsTypeInv
<1> QED
  BY <1>1, <1>2, <1>3, <1>4, <1>5, <1>6 DEF RecordsNext

LEMMA RecordsTypeInit == RecordsInit => RecordsTypeInv
<1> SUFFICES ASSUME RecordsInit PROVE RecordsTypeInv
  OBVIOUS
<1>1. IdleSearch \in Search
  BY DEF IdleSearch, Search
<1>2. \A id \in Memory : versions[id] = <<>>
  BY DEF RecordsInit
<1> QED
  BY <1>1 DEF RecordsInit, RecordsTypeInv, Verdict, NoIntent

-------------------------------------------------------------------------------
(* One memory for each source.                                             *)

\* A turn with a version has had its intent applied.
SourceInv ==
  /\ OneMemoryPerSource
  /\ \A id \in Memory : \A v \in 1..Len(versions[id]) :
       LET t == versions[id][v].source
       IN  t \in Turn => intent[t] # NoIntent /\ intent[t].result # 0

\* A version added to a memory that has none is the first one.
LEMMA AppendFirst ==
  ASSUME NEW log \in Seq(Version), NEW x \in Version
  PROVE  /\ log # <<>> => Append(log, x)[1] = log[1]
         /\ log = <<>> => Append(log, x)[1] = x
         /\ log # <<>> => 1 \in 1..Len(log)
         /\ Append(log, x) # <<>>
         /\ \A v \in 1..Len(Append(log, x)) :
              Append(log, x)[v] = x \/ (v \in 1..Len(log) /\ Append(log, x)[v] = log[v])
<1> DEFINE new == Append(log, x)
<1>1. /\ Len(new) = Len(log) + 1 /\ Len(log) \in Nat /\ new[Len(log) + 1] = x
      /\ \A v \in 1..Len(log) : new[v] = log[v]
      /\ log = <<>> <=> Len(log) = 0
      /\ new # <<>>
  OBVIOUS
<1> HIDE DEF new
<1>2. /\ log # <<>> => 1 \in 1..Len(log) /\ new[1] = log[1]
      /\ log = <<>> => new[1] = x
  BY <1>1
<1>3. \A v \in 1..Len(new) : new[v] = x \/ (v \in 1..Len(log) /\ new[v] = log[v])
  BY <1>1
<1> QED
  BY <1>1, <1>2, <1>3 DEF new

\* Renewed versions have sources that were there.
LEMMA RenewedSources ==
  ASSUME RecordsTypeInv, SourceInv, \A id \in Memory : Renewed(id), UNCHANGED intent
  PROVE  SourceInv'
<1>1. Known' = Known /\ \A id \in Memory : versions[id] \in Seq(Version)
  BY RenewedKnown DEF RecordsTypeInv
<1>2. ASSUME NEW id \in Known PROVE versions'[id][1] = versions[id][1]
  <2>1. id \in Memory /\ versions[id] # <<>>
    BY DEF Known
  <2>2. CASE versions'[id] = versions[id]
    BY <2>2
  <2>3. ASSUME NEW x \in Version, versions'[id] = Append(versions[id], x)
        PROVE  versions'[id][1] = versions[id][1]
    BY <1>1, <2>1, <2>3, AppendFirst
  <2> QED
    BY <2>1, <2>2, <2>3 DEF Renewed
<1>3. OneMemoryPerSource'
  BY <1>1, <1>2 DEF SourceInv, OneMemoryPerSource
<1>4. ASSUME NEW id \in Memory, NEW v \in 1..Len(versions'[id])
      PROVE  \E w \in 1..Len(versions[id]) : versions'[id][v].source = versions[id][w].source
  <2>1. CASE versions'[id] = versions[id]
    BY <1>4, <2>1
  <2>2. ASSUME NEW x \in Version, versions'[id] = Append(versions[id], x), Again(id, x)
        PROVE  \E w \in 1..Len(versions[id]) : versions'[id][v].source = versions[id][w].source
    <3>1. x.source = versions[id][Len(versions[id])].source /\ Len(versions[id]) \in 1..Len(versions[id])
      BY <1>1, <2>2 DEF Again, Latest
    <3> QED
      BY <1>1, <1>4, <2>2, <3>1, AppendFirst
  <2> QED
    BY <2>1, <2>2 DEF Renewed
<1> QED
  BY <1>3, <1>4 DEF SourceInv

\* A version whose source is new, or on top of others.
LEMMA AddedSource ==
  ASSUME RecordsTypeInv, SourceInv, NEW id \in Memory, NEW x \in Version,
         versions' = [versions EXCEPT ![id] = Append(@, x)],
         id \in Fresh => \A k \in Known : versions[k][1].source # x.source,
         x.source \in Turn => intent'[x.source] # NoIntent /\ intent'[x.source].result # 0,
         \A t \in Turn : t # x.source => intent'[t] = intent[t]
  PROVE  SourceInv'
<1>1. /\ versions'[id] = Append(versions[id], x) /\ versions[id] \in Seq(Version)
      /\ \A k \in Memory \ {id} : versions'[k] = versions[k]
      /\ Known' = Known \cup {id} /\ \A k \in Known : k \in Memory
  BY AddOne DEF RecordsTypeInv, Known
<1>2. /\ id \in Known => versions'[id][1] = versions[id][1]
      /\ id \notin Known => versions'[id][1] = x
  BY <1>1, AppendFirst DEF Known
<1>3. \A k \in Known : versions'[k][1] = versions[k][1]
  BY <1>1, <1>2
<1>4. ASSUME NEW a \in Known', NEW b \in Known', versions'[a][1].source = versions'[b][1].source
      PROVE  a = b
  <2>1. CASE a \in Known /\ b \in Known
    BY <1>3, <1>4, <2>1 DEF SourceInv, OneMemoryPerSource
  <2>2. CASE a \notin Known \/ b \notin Known
    BY <1>1, <1>2, <1>3, <1>4, <2>2 DEF Fresh
  <2> QED
    BY <2>1, <2>2
<1>5. ASSUME NEW k \in Memory, NEW v \in 1..Len(versions'[k]), versions'[k][v].source \in Turn
      PROVE  LET t == versions'[k][v].source IN intent'[t] # NoIntent /\ intent'[t].result # 0
  <2>1. versions'[k][v] = x \/ (v \in 1..Len(versions[k]) /\ versions'[k][v] = versions[k][v])
    BY <1>1, <1>5, AppendFirst
  <2>2. CASE versions'[k][v].source = x.source
    BY <1>5, <2>2
  <2>3. CASE versions'[k][v].source # x.source
    BY <1>5, <2>1, <2>3 DEF SourceInv
  <2> QED
    BY <2>2, <2>3
<1> QED
  BY <1>4, <1>5 DEF SourceInv, OneMemoryPerSource

\* Every step keeps the sources single.
LEMMA SourceStep ==
  ASSUME RecordsTypeInv, SourceInv, [RecordsNext]_recordVars
  PROVE  SourceInv'
<1>1. CASE UNCHANGED <<versions, intent>>
  BY <1>1 DEF SourceInv, OneMemoryPerSource, Known
<1>2. ASSUME NEW t \in Turn, NEW op \in Op, NEW target \in Memory \cup {NoMemory},
             AcceptIntent(t, op, target)
      PROVE  SourceInv'
  <2>1. /\ UNCHANGED versions /\ intent[t] = NoIntent
        /\ \A u \in Turn \ {t} : intent'[u] = intent[u]
    BY <1>2, AcceptType DEF AcceptIntent, RecordsTypeInv
  <2> QED
    BY <2>1 DEF SourceInv, OneMemoryPerSource, Known
<1>3. ASSUME NEW t \in Turn, ApplyIntent(t) PROVE SourceInv'
  <2>1. PICK id \in Memory, x \in Version :
          /\ versions' = [versions EXCEPT ![id] = Append(@, x)]
          /\ intent' = [intent EXCEPT ![t].result = Len(versions[id]) + 1]
          /\ x.source = t /\ intent[t] \in Intent /\ intent[t].result = 0
    BY <1>3, ApplyAdds
  <2>2. \A k \in Known : versions[k][1].source # t
    BY <2>1, LatestType DEF SourceInv
  <2>3. intent'[t] # NoIntent /\ intent'[t].result # 0
    <3>1. PICK n \in Nat : n = Len(versions[id]) + 1 /\ n # 0
      BY DEF RecordsTypeInv
    <3> QED
      BY <2>1, <3>1 DEF RecordsTypeInv, Intent, NoIntent, Op
  <2>4. \A u \in Turn : u # t => intent'[u] = intent[u]
    BY <2>1 DEF RecordsTypeInv
  <2> QED
    BY <2>1, <2>2, <2>3, <2>4, AddedSource
<1>4. ASSUME NEW c \in Candidate, PublishCandidate(c) PROVE SourceInv'
  <2>1. PICK id \in Fresh, x \in Version :
          versions' = [versions EXCEPT ![id] = Append(@, x)] /\ x.source = c
    BY <1>4, PublishAdds
  <2>2. \A k \in Known : versions[k][1].source # c
    <3>1. ASSUME NEW k \in Known PROVE 1 \in DOMAIN versions[k]
      BY LatestType
    <3> QED
      BY <1>4, <3>1 DEF PublishCandidate, IsPublished
  <2>3. c \notin Turn /\ UNCHANGED intent
    BY <1>4, RecordsAssumption DEF PublishCandidate
  <2> QED
    BY <2>1, <2>2, <2>3, AddedSource DEF Fresh
<1>5. CASE BeginSearch \/ ShowResults \/ \E d \in Dep : InvalidateDependency(d)
  <2>1. UNCHANGED intent /\ (UNCHANGED versions \/ Recall \/ \E d \in Dep : InvalidateDependency(d))
    BY <1>5 DEF BeginSearch, ShowResults, Show, ShowAsFound, ShowAgain, InvalidateDependency
  <2> QED
    BY <1>1, <2>1, RecallRenews, InvalidateRenews, RenewedSources
<1>6. CASE \/ \E t \in Turn : VerifyDependencies(t) \/ RefuseIntent(t)
           \/ \E d \in Dep : CheckDependency(d) \/ SourceChanges(d)
           \/ EndSearch \/ Tick \/ UNCHANGED recordVars
  BY <1>1, <1>6 DEF VerifyDependencies, RefuseIntent, CheckDependency, SourceChanges, EndSearch,
                    Tick, recordVars
<1> QED
  BY <1>2, <1>3, <1>4, <1>5, <1>6 DEF RecordsNext

\* No source has two memories: not a turn whose tool is called twice, not a candidate
\* that a second claim of its job publishes again, for any number of memories,
\* turns, candidates, searches and versions.
THEOREM OneMemoryForEachSource == RecordsSpec => []OneMemoryPerSource
<1>1. RecordsInit => RecordsTypeInv /\ SourceInv
  BY RecordsTypeInit DEF RecordsInit, SourceInv, OneMemoryPerSource, Known
<1>2. RecordsTypeInv /\ SourceInv /\ [RecordsNext]_recordVars => (RecordsTypeInv /\ SourceInv)'
  BY RecordsTypeStep, SourceStep
<1>3. SourceInv => OneMemoryPerSource
  BY DEF SourceInv
<1> QED
  BY <1>1, <1>2, <1>3, PTL DEF RecordsSpec

-------------------------------------------------------------------------------
(* What the user disabled.                                                 *)

\* A disabled version is followed by disabled ones until one is a reactivation
\* or an expiry.
StaysDown(log) ==
  \A i, j \in 1..Len(log) :
    i < j /\ log[i].state = "disabled" =>
      \/ log[j].state = "disabled"
      \/ \E k \in (i + 1)..j : log[k].by = "reactivate" \/ log[k].state = "expired"

DownInv == \A id \in Memory : StaysDown(versions[id])

\* A version that may follow leaves the log so.
LEMMA DownAppend ==
  ASSUME NEW log \in Seq(Version), NEW x \in Version, StaysDown(log), Follows(log, x)
  PROVE  StaysDown(Append(log, x))
<1> DEFINE new == Append(log, x)
           last == Len(log)
<1>1. /\ Len(new) = last + 1 /\ last \in Nat /\ new[last + 1] = x
      /\ \A v \in 1..last : new[v] = log[v]
      /\ last # 0 => log # <<>>
  OBVIOUS
<1>2. Follows(log, x) /\ StaysDown(log)
  OBVIOUS
<1> HIDE DEF new
<1> SUFFICES ASSUME NEW i \in 1..Len(new), NEW j \in 1..Len(new), i < j,
                    new[i].state = "disabled"
             PROVE  \/ new[j].state = "disabled"
                    \/ \E k \in (i + 1)..j : new[k].by = "reactivate" \/ new[k].state = "expired"
  BY DEF StaysDown, new
<1>3. CASE j \in 1..last
  <2>1. i \in 1..last /\ new[i] = log[i] /\ new[j] = log[j]
    BY <1>1, <1>3
  <2>2. \/ log[j].state = "disabled"
        \/ \E k \in (i + 1)..j : log[k].by = "reactivate" \/ log[k].state = "expired"
    BY <1>2, <1>3, <2>1 DEF StaysDown
  <2>3. \A k \in (i + 1)..j : new[k] = log[k]
    BY <1>1, <1>3
  <2> QED
    BY <2>1, <2>2, <2>3
<1>4. CASE j = last + 1
  <2>1. i \in 1..last /\ new[i] = log[i] /\ new[j] = x /\ last \in 1..last /\ log # <<>>
    BY <1>1, <1>4
  <2>2. CASE log[last].state = "disabled"
    <3>1. x.state = "disabled" \/ x.state = "expired" \/ x.by = "reactivate"
      BY <1>2, <2>1, <2>2 DEF Follows
    <3>2. j \in (i + 1)..j
      OBVIOUS
    <3> QED
      BY <2>1, <3>1, <3>2
  <2>3. CASE log[last].state # "disabled"
    <3>1. i < last
      BY <2>1, <2>3
    <3>2. PICK k \in (i + 1)..last : log[k].by = "reactivate" \/ log[k].state = "expired"
      BY <1>2, <2>1, <2>3, <3>1 DEF StaysDown
    <3>3. k \in (i + 1)..j /\ new[k] = log[k]
      BY <1>1, <1>4
    <3> QED
      BY <3>2, <3>3
  <2> QED
    BY <2>2, <2>3
<1> QED
  BY <1>1, <1>3, <1>4

\* What every step does to the versions of a memory: it adds one that may follow.
Grown(id) ==
  \/ versions'[id] = versions[id]
  \/ \E x \in Version : versions'[id] = Append(versions[id], x) /\ Follows(versions[id], x)

\* Every step is one of these.
LEMMA EveryStepGrows ==
  ASSUME RecordsTypeInv, [RecordsNext]_recordVars
  PROVE  \A id \in Memory : Grown(id)
<1>1. CASE UNCHANGED versions
  BY <1>1 DEF Grown
<1>2. CASE Recall \/ \E d \in Dep : InvalidateDependency(d)
  BY <1>2, RecallRenews, InvalidateRenews DEF Renewed, Grown
<1>3. ASSUME NEW t \in Turn, ApplyIntent(t) PROVE \A id \in Memory : Grown(id)
  <2>1. PICK id \in Memory, x \in Version :
          versions' = [versions EXCEPT ![id] = Append(@, x)] /\ Follows(versions[id], x)
    BY <1>3, ApplyAdds
  <2> QED
    BY <2>1, AddOne DEF RecordsTypeInv, Grown
<1>4. ASSUME NEW c \in Candidate, PublishCandidate(c) PROVE \A id \in Memory : Grown(id)
  <2>1. PICK id \in Fresh, x \in Version : versions' = [versions EXCEPT ![id] = Append(@, x)]
    BY <1>4, PublishAdds
  <2>2. id \in Memory /\ Follows(versions[id], x)
    BY DEF Fresh, Known, Follows
  <2> QED
    BY <2>1, <2>2, AddOne DEF RecordsTypeInv, Grown
<1>5. UNCHANGED versions \/ Recall \/ (\E d \in Dep : InvalidateDependency(d))
      \/ (\E t \in Turn : ApplyIntent(t)) \/ (\E c \in Candidate : PublishCandidate(c))
  BY DEF RecordsNext, recordVars, AcceptIntent, VerifyDependencies, RefuseIntent, BeginSearch, CheckDependency,
         SourceChanges, ShowResults, Show, ShowAsFound, ShowAgain, EndSearch, Tick
<1> QED
  BY <1>1, <1>2, <1>3, <1>4, <1>5

LEMMA DownStep ==
  ASSUME RecordsTypeInv, DownInv, [RecordsNext]_recordVars
  PROVE  DownInv'
<1> SUFFICES ASSUME NEW id \in Memory PROVE StaysDown(versions'[id])
  BY DEF DownInv
<1>1. versions[id] \in Seq(Version) /\ StaysDown(versions[id]) /\ Grown(id)
  BY EveryStepGrows DEF RecordsTypeInv, DownInv
<1> QED
  BY <1>1, DownAppend DEF Grown

\* What the user disabled comes back by a reactivation or over an expiry only,
\* whatever intents, jobs and searches do in between.
THEOREM DisabledStays == RecordsSpec => []DisabledStaysDown
<1>1. RecordsInit => RecordsTypeInv /\ DownInv
  BY RecordsTypeInit DEF RecordsInit, DownInv, StaysDown
<1>2. RecordsTypeInv /\ DownInv /\ [RecordsNext]_recordVars => (RecordsTypeInv /\ DownInv)'
  BY RecordsTypeStep, DownStep
<1>3. RecordsTypeInv /\ DownInv => DisabledStaysDown
  <2> SUFFICES ASSUME RecordsTypeInv, DownInv, NEW id \in Known,
                      NEW i \in DOMAIN versions[id], NEW j \in DOMAIN versions[id],
                      i < j, versions[id][i].state = "disabled", versions[id][j].state = "active"
               PROVE  \E k \in (i + 1)..j : \/ versions[id][k].by = "reactivate"
                                            \/ versions[id][k].state = "expired"
    BY DEF DisabledStaysDown
  <2>1. id \in Memory /\ DOMAIN versions[id] = 1..Len(versions[id])
    BY DEF RecordsTypeInv, Known
  <2> QED
    BY <2>1 DEF DownInv, StaysDown
<1> QED
  BY <1>1, <1>2, <1>3, PTL DEF RecordsSpec

-------------------------------------------------------------------------------
(* What a search shows.                                                    *)

\* Still: the memory has no version the search has not seen.
Still(id) == Len(versions[id]) = search.since[id]

Showable(id) == Latest(id).state = "active" /\ Latest(id).until > clock

\* A running search has found every memory that is as it was and still good, and
\* a memory that depends on a source it has invalidated is not as it was.
SearchInv ==
  /\ \A id \in Memory : search.since[id] <= Len(versions[id]) \/ search.pc = "idle"
  /\ search.pc # "idle" => \A f \in search.found : f[2] \in 1..Len(versions[f[1]])
  /\ search.pc = "check" =>
       /\ \A id \in Known : Still(id) /\ Showable(id) => <<id, search.since[id]>> \in search.found
       /\ \A d \in search.bad \ search.todo : \A id \in Known :
            Still(id) /\ Latest(id).state = "active" => d \notin Latest(id).deps
  /\ VerifiedWhenShown

\* Versions are only added: what was there is there, and a log as long is the same.
LEMMA GrownFacts ==
  ASSUME RecordsTypeInv, NEW id \in Memory, Grown(id)
  PROVE  /\ Len(versions[id]) \in Nat /\ Len(versions'[id]) \in Nat
         /\ Len(versions[id]) <= Len(versions'[id])
         /\ Len(versions'[id]) = Len(versions[id]) => versions'[id] = versions[id]
         /\ \A v \in 1..Len(versions[id]) :
              v \in 1..Len(versions'[id]) /\ versions'[id][v] = versions[id][v]
<1>1. versions[id] \in Seq(Version)
  BY DEF RecordsTypeInv
<1>2. CASE versions'[id] = versions[id]
  BY <1>1, <1>2
<1>3. ASSUME NEW x \in Version, versions'[id] = Append(versions[id], x)
      PROVE  /\ Len(versions[id]) \in Nat /\ Len(versions'[id]) = Len(versions[id]) + 1
             /\ \A v \in 1..Len(versions[id]) :
                  v \in 1..Len(versions'[id]) /\ versions'[id][v] = versions[id][v]
  BY <1>1, <1>3
<1> QED
  BY <1>1, <1>2, <1>3 DEF Grown

\* A memory that is as the search saw it after a step was so before, and known.
LEMMA StillBefore ==
  ASSUME RecordsTypeInv, SearchInv, search.pc = "check", \A id \in Memory : Grown(id),
         NEW id \in Known', Len(versions'[id]) = search.since[id]
  PROVE  /\ id \in Known /\ Still(id) /\ versions'[id] = versions[id]
         /\ Latest(id)' = Latest(id)
<1>1. id \in Memory /\ versions'[id] # <<>> /\ Grown(id)
  BY DEF Known
<1>2. search.since[id] <= Len(versions[id]) /\ search.since[id] \in Nat
  BY <1>1 DEF SearchInv, RecordsTypeInv, Search
<1>3. Len(versions'[id]) = Len(versions[id]) /\ versions'[id] = versions[id]
  BY <1>1, <1>2, GrownFacts
<1> QED
  BY <1>1, <1>3 DEF Known, Still, Latest

\* The bounds of what is found and seen stay.
LEMMA BoundsStay ==
  ASSUME RecordsTypeInv, SearchInv, \A id \in Memory : Grown(id), search.pc # "idle"
  PROVE  /\ \A id \in Memory : search.since[id] <= Len(versions'[id])
         /\ \A f \in search.found : /\ f[1] \in Memory /\ f[2] \in 1..Len(versions[f[1]])
                                    /\ f[2] \in 1..Len(versions'[f[1]])
                                    /\ versions'[f[1]][f[2]] = versions[f[1]][f[2]]
<1>1. ASSUME NEW id \in Memory PROVE search.since[id] <= Len(versions'[id])
  <2>1. search.since[id] <= Len(versions[id]) /\ search.since[id] \in Nat
    BY DEF SearchInv, RecordsTypeInv, Search
  <2> QED
    BY <2>1, GrownFacts
<1>2. ASSUME NEW f \in search.found
      PROVE  /\ f[1] \in Memory /\ f[2] \in 1..Len(versions[f[1]])
             /\ f[2] \in 1..Len(versions'[f[1]])
             /\ versions'[f[1]][f[2]] = versions[f[1]][f[2]]
  <2>1. f[1] \in Memory /\ f[2] \in 1..Len(versions[f[1]])
    BY DEF SearchInv, RecordsTypeInv, Search
  <2> QED
    BY <2>1, GrownFacts
<1> QED
  BY <1>1, <1>2

\* A step that leaves the search alone.
LEMMA OtherStep ==
  ASSUME RecordsTypeInv, SearchInv, \A id \in Memory : Grown(id), UNCHANGED search,
         clock' \in {clock, clock + 1}
  PROVE  SearchInv'
<1>1. \A id \in Memory : search'.since[id] <= Len(versions'[id]) \/ search'.pc = "idle"
  BY BoundsStay
<1>2. search'.pc # "idle" => \A f \in search'.found : f[2] \in 1..Len(versions'[f[1]])
  BY BoundsStay
<1>3. ASSUME search'.pc = "check", NEW id \in Known', Still(id)', Showable(id)'
      PROVE  <<id, search'.since[id]>> \in search'.found
  <2>1. id \in Known /\ Still(id) /\ Latest(id)' = Latest(id)
    BY <1>3, StillBefore DEF Still
  <2>2. Latest(id).until > clock
    <3>1. Latest(id) \in Version /\ clock \in Nat
      BY <2>1, LatestType DEF RecordsTypeInv
    <3>2. Latest(id).until \in 1..Never
      BY <3>1 DEF Version
    <3> QED
      BY <1>3, <2>1, <3>1, <3>2 DEF Showable
  <2>3. Showable(id)
    BY <1>3, <2>1, <2>2 DEF Showable
  <2> QED
    BY <1>3, <2>1, <2>3 DEF SearchInv
<1>4. ASSUME search'.pc = "check", NEW d \in search'.bad \ search'.todo, NEW id \in Known',
             Still(id)', Latest(id)'.state = "active"
      PROVE  d \notin Latest(id)'.deps
  <2>1. id \in Known /\ Still(id) /\ Latest(id)' = Latest(id)
    BY <1>4, StillBefore DEF Still
  <2> QED
    BY <1>4, <2>1 DEF SearchInv
<1>5. VerifiedWhenShown'
  BY BoundsStay DEF SearchInv, VerifiedWhenShown
<1> QED
  BY <1>1, <1>2, <1>3, <1>4, <1>5 DEF SearchInv

\* What a recall returns are versions that are active and not expired.
LEMMA ActivesAre ==
  ASSUME RecordsTypeInv
  PROVE  /\ \A f \in Actives : \E id \in Known :
              /\ f = <<id, Len(versions[id])>> /\ f[1] = id /\ f[2] = Len(versions[id])
              /\ Showable(id)
         /\ \A id \in Known : Showable(id) => <<id, Len(versions[id])>> \in Actives
<1>1. \A id \in Known : Showable(id) <=> Latest(id).state = "active" /\ ~Expiring(id)
  <2> SUFFICES ASSUME NEW id \in Known
               PROVE  Showable(id) <=> Latest(id).state = "active" /\ ~Expiring(id)
    OBVIOUS
  <2>1. Latest(id).until \in Int /\ clock \in Nat
    <3>1. Latest(id) \in Version
      BY LatestType
    <3> QED
      BY <3>1 DEF Version, RecordsTypeInv
  <2> QED
    BY <2>1 DEF Showable, Expiring
<1> QED
  BY <1>1 DEF Actives

\* The search begins: what is still as it was has been found.
LEMMA BeginStep ==
  ASSUME RecordsTypeInv, SearchInv, BeginSearch
  PROVE  SearchInv'
<1> DEFINE since == [id \in Memory |-> Len(versions[id])]
<1>1. Recall /\ search' = [IdleSearch EXCEPT !.pc = "check", !.found = Actives, !.since = since]
      /\ UNCHANGED clock
  BY DEF BeginSearch
<1>2. /\ search'.pc = "check" /\ search'.found = Actives /\ search'.since = since
      /\ search'.bad = {}
  BY <1>1 DEF IdleSearch
<1>3. \A id \in Memory : Grown(id)
  BY <1>1, RecallRenews DEF Renewed, Grown
<1>4. \A id \in Memory : search'.since[id] <= Len(versions'[id])
  BY <1>2, <1>3, GrownFacts
<1>5. \A f \in search'.found : f[2] \in 1..Len(versions'[f[1]])
  <2> SUFFICES ASSUME NEW f \in Actives PROVE f[2] \in 1..Len(versions'[f[1]])
    BY <1>2
  <2>1. PICK id \in Known : f[1] = id /\ f[2] = Len(versions[id])
    BY ActivesAre
  <2> QED
    BY <1>3, <2>1, LatestType, GrownFacts
<1>6. ASSUME NEW id \in Known', Still(id)', Showable(id)'
      PROVE  <<id, search'.since[id]>> \in search'.found
  <2>1. id \in Memory /\ versions'[id] # <<>> /\ Len(versions'[id]) = Len(versions[id])
    BY <1>2, <1>6 DEF Known, Still
  <2>2. versions'[id] = versions[id] /\ id \in Known
    BY <1>3, <2>1, GrownFacts DEF Known
  <2>3. Showable(id)
    BY <1>1, <1>6, <2>2 DEF Showable, Latest
  <2> QED
    BY <1>2, <2>1, <2>2, <2>3, ActivesAre
<1> QED
  BY <1>2, <1>4, <1>5, <1>6 DEF SearchInv, VerifiedWhenShown

\* A dependency is checked.
LEMMA CheckStep ==
  ASSUME RecordsTypeInv, SearchInv, NEW d \in Dep, CheckDependency(d)
  PROVE  SearchInv'
<1>1. /\ UNCHANGED <<versions, clock>> /\ search.pc = "check" /\ search \in Search
      /\ Known' = Known
  BY DEF CheckDependency, RecordsTypeInv, Known
<1>2. /\ search'.pc = "check" /\ search'.found = search.found /\ search'.since = search.since
      /\ search'.bad \ search'.todo \subseteq search.bad \ search.todo
  <2>1. CASE d \in current
    BY <1>1, <2>1 DEF CheckDependency, Search
  <2>2. CASE d \notin current
    <3>1. search' = [search EXCEPT !.bad = search.bad \cup {d}, !.todo = search.todo \cup {d}]
      BY <2>2 DEF CheckDependency
    <3> QED
      BY <1>1, <3>1 DEF Search
  <2> QED
    BY <2>1, <2>2
<1>3. ASSUME NEW id \in Known
      PROVE  /\ Still(id)' <=> Still(id)
             /\ Showable(id)' <=> Showable(id)
             /\ Latest(id)' = Latest(id)
  BY <1>1, <1>2 DEF Still, Showable, Latest
<1> QED
  BY <1>1, <1>2, <1>3 DEF SearchInv, VerifiedWhenShown

\* An invalidated dependency leaves no memory that depends on it as it was.
LEMMA InvalidateStep ==
  ASSUME RecordsTypeInv, SearchInv, NEW d \in Dep, InvalidateDependency(d)
  PROVE  SearchInv'
<1>1. /\ search.pc = "check" /\ UNCHANGED clock /\ search \in Search
      /\ \A id \in Memory : Grown(id)
  BY InvalidateRenews DEF InvalidateDependency, Checked, RecordsTypeInv, Renewed, Grown
<1>2. /\ search'.pc = "check" /\ search'.found = search.found /\ search'.since = search.since
      /\ search'.bad = search.bad /\ search'.todo = search.todo \ {d}
  BY <1>1 DEF InvalidateDependency, Search
<1>3. /\ \A id \in Memory : search'.since[id] <= Len(versions'[id])
      /\ \A f \in search'.found : f[2] \in 1..Len(versions'[f[1]])
  BY <1>1, <1>2, BoundsStay
<1>4. ASSUME NEW id \in Known', Still(id)'
      PROVE  id \in Known /\ Still(id) /\ versions'[id] = versions[id] /\ Latest(id)' = Latest(id)
  BY <1>1, <1>2, <1>4, StillBefore DEF Still
<1>5. ASSUME NEW id \in Known', Still(id)', Showable(id)'
      PROVE  <<id, search'.since[id]>> \in search'.found
  <2>1. id \in Known /\ Still(id) /\ Showable(id)
    BY <1>1, <1>4, <1>5 DEF Showable
  <2> QED
    BY <1>1, <1>2, <2>1 DEF SearchInv
<1>6. ASSUME NEW e \in search'.bad \ search'.todo, NEW id \in Known', Still(id)',
             Latest(id)'.state = "active"
      PROVE  e \notin Latest(id)'.deps
  <2>1. id \in Known /\ Still(id) /\ versions'[id] = versions[id] /\ Latest(id)' = Latest(id)
    BY <1>4, <1>6
  <2>2. CASE e \in search.bad \ search.todo
    BY <1>1, <1>6, <2>1, <2>2 DEF SearchInv
  <2>3. CASE e = d
    <3>1. id \notin Touched(d)
      BY <2>1, LatestType, InvalidateRenews
    <3> QED
      BY <1>6, <2>1, <2>3, <3>1 DEF Touched
  <2> QED
    BY <1>2, <1>6, <2>2, <2>3
<1> QED
  BY <1>2, <1>3, <1>5, <1>6 DEF SearchInv, VerifiedWhenShown

\* What is shown was found and is good, or was written since.
LEMMA ShowStep ==
  ASSUME RecordsTypeInv, SearchInv, ShowResults
  PROVE  SearchInv'
<1>1. /\ search.pc = "check" /\ search.todo = {} /\ UNCHANGED clock /\ search \in Search
      /\ DepsOf(search.found) \subseteq search.good \cup search.bad
  BY DEF ShowResults, Checked, RecordsTypeInv
<1>2. CASE search.bad = {}
  <2>1. UNCHANGED versions /\ search' = [search EXCEPT !.pc = "shown"]
    BY <1>2 DEF ShowResults, Show, ShowAsFound
  <2>2. /\ search'.pc = "shown" /\ search'.found = search.found /\ search'.since = search.since
        /\ search'.good = search.good
    BY <1>1, <2>1 DEF Search
  <2>3. ASSUME NEW f \in search'.found PROVE versions'[f[1]][f[2]].deps \subseteq search'.good
    BY <1>1, <1>2, <2>1, <2>2, <2>3 DEF DepsOf
  <2> QED
    BY <1>1, <2>1, <2>2, <2>3 DEF SearchInv, VerifiedWhenShown
<1>3. CASE search.bad # {}
  <2>1. Recall /\ search' = [search EXCEPT !.pc = "shown", !.found = Actives]
    BY <1>3 DEF ShowResults, Show, ShowAgain
  <2>2. /\ search'.pc = "shown" /\ search'.found = Actives /\ search'.since = search.since
        /\ search'.good = search.good
    BY <1>1, <2>1 DEF Search
  <2>3. \A id \in Memory : Grown(id)
    BY <2>1, RecallRenews DEF Renewed, Grown
  <2>4. \A id \in Memory : search'.since[id] <= Len(versions'[id])
    BY <1>1, <2>2, <2>3, BoundsStay
  <2>5. ASSUME NEW f \in Actives
        PROVE  /\ f[2] \in 1..Len(versions'[f[1]])
               /\ f[2] > search.since[f[1]] \/ versions'[f[1]][f[2]].deps \subseteq search.good
    <3>1. PICK id \in Known : f[1] = id /\ f[2] = Len(versions[id]) /\ Showable(id)
      BY ActivesAre
    <3>2. /\ id \in Memory /\ f[2] \in 1..Len(versions[id]) /\ f[2] \in 1..Len(versions'[id])
          /\ versions'[id][f[2]] = versions[id][f[2]] /\ versions[id][f[2]] = Latest(id)
      BY <2>3, <3>1, LatestType, GrownFacts DEF Latest
    <3>3. search.since[id] <= Len(versions[id]) /\ search.since[id] \in Nat
      BY <1>1, <3>2 DEF SearchInv, Search
    <3>4. CASE Still(id)
      <4>1. <<id, search.since[id]>> \in search.found /\ f[2] = search.since[id]
        BY <1>1, <3>1, <3>4 DEF SearchInv, Still
      <4>2. Latest(id).deps \subseteq search.good \cup search.bad
        BY <1>1, <3>1, <3>2, <4>1 DEF DepsOf
      <4>3. \A d \in search.bad : d \notin Latest(id).deps
        BY <1>1, <3>1, <3>4 DEF SearchInv, Showable
      <4> QED
        BY <3>1, <3>2, <4>2, <4>3
    <3>5. CASE ~Still(id)
      BY <3>1, <3>2, <3>3, <3>5 DEF Still
    <3> QED
      BY <3>4, <3>5
  <2> QED
    BY <2>2, <2>4, <2>5 DEF SearchInv, VerifiedWhenShown
<1> QED
  BY <1>2, <1>3

\* Every step keeps what the search knows.
LEMMA SearchStep ==
  ASSUME RecordsTypeInv, SearchInv, [RecordsNext]_recordVars
  PROVE  SearchInv'
<1>1. CASE BeginSearch \/ ShowResults \/ \E d \in Dep : CheckDependency(d) \/ InvalidateDependency(d)
  BY <1>1, BeginStep, ShowStep, CheckStep, InvalidateStep
<1>2. CASE EndSearch
  BY <1>2 DEF EndSearch, IdleSearch, SearchInv, VerifiedWhenShown
<1>3. CASE UNCHANGED search /\ clock' \in {clock, clock + 1}
  BY <1>3, EveryStepGrows, OtherStep
<1>4. \/ BeginSearch \/ ShowResults \/ EndSearch
      \/ \E d \in Dep : CheckDependency(d) \/ InvalidateDependency(d)
      \/ UNCHANGED search /\ clock' \in {clock, clock + 1}
  BY DEF RecordsNext, recordVars, AcceptIntent, VerifyDependencies, RefuseIntent, ApplyIntent,
         PublishCandidate, SourceChanges, Tick
<1> QED
  BY <1>1, <1>2, <1>3, <1>4

\* A search shows nothing whose sources it has not verified itself, except what was
\* written while it ran, however intents, expiries and changed sources interleave.
THEOREM ShownIsVerified == RecordsSpec => []VerifiedWhenShown
<1>1. RecordsInit => RecordsTypeInv /\ SearchInv
  BY RecordsTypeInit DEF RecordsInit, SearchInv, VerifiedWhenShown, IdleSearch
<1>2. RecordsTypeInv /\ SearchInv /\ [RecordsNext]_recordVars => (RecordsTypeInv /\ SearchInv)'
  BY RecordsTypeStep, SearchStep
<1>3. SearchInv => VerifiedWhenShown
  BY DEF SearchInv
<1> QED
  BY <1>1, <1>2, <1>3, PTL DEF RecordsSpec

===============================================================================
