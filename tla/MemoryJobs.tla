------------------------------ MODULE MemoryJobs -------------------------------
(***************************************************************************)
(* The background jobs that extract memories from finished sessions: rows  *)
(* of a database that several processes claim, work on and finish.         *)
(*                                                                         *)
(* A worker is the maintenance task of one process.  Every access to the   *)
(* database is one transaction, run in a thread that outlives the          *)
(* cancellation of the task waiting for it.  Clocks are left out: a lease  *)
(* is alive until it expires, a job is ready again once its delay has      *)
(* passed; a heartbeat that comes in time changes nothing then.            *)
(***************************************************************************)
EXTENDS Integers, FiniteSets, Sequences

CONSTANTS Session,    \* the sessions of the workspace, numbered as they are sorted
          Starter,    \* those with a completed turn, for which a job is scheduled
          Unclear,    \* those recovery does not find clean: never read for memories
          Worker, NoWorker, NoLease, NoTarget,
          Merge,      \* the target of the second stage
          BatchSize,  \* sources of one job (6)
          Retries,    \* attempts of one job (3)
          MaxBatches, \* bound: continuations of a job
          MaxEdits,   \* bound: changes of one source
          MaxFaults   \* bound: crashes, cancellations, lost leases, busy or changed sources

ASSUME JobAssumption ==
  /\ Starter \subseteq Session /\ Unclear \subseteq Session
  /\ Session \subseteq Nat /\ IsFiniteSet(Session)
  /\ NoWorker \notin Worker /\ Merge \notin Session \X (0..MaxEdits)
  /\ {BatchSize, Retries, MaxBatches, MaxEdits, MaxFaults} \subseteq Nat

\* The job of a session, and its continuations.
Job == Starter \X (0..MaxBatches)

Leases == [job : Job, epoch : Nat]

\* What a source held when it was read.
Snapshot == Session \X (0..MaxEdits)

VARIABLES
  jobs,       \* the rows of table jobs
  queue,      \* jobs in the order of their rowid
  content,    \* how often each session has changed
  done,       \* table sources
  extracted,  \* table extractions, first stage
  at,         \* await point of each worker
  work,       \* its locals
  late,       \* transactions whose task was cancelled while they were under way
  faults

rows == <<jobs, queue, done, extracted>>

vars == <<jobs, queue, content, done, extracted, at, work, late, faults>>

JobState == {"missing", "pending", "running", "succeeded", "failed"}

Point == {"idle", "reading", "calling", "checking", "finishing", "failing", "closing",
          "stopped"}

NoJob == [state |-> "missing", owner |-> NoWorker, epoch |-> 0, live |-> FALSE,
          attempts |-> 0, ready |-> TRUE]

NoWork == [lease |-> NoLease, left |-> {}, read |-> {}, deferred |-> FALSE,
           target |-> NoTarget, spared |-> FALSE]

Init ==
  /\ jobs = [j \in Job |-> NoJob]
  /\ queue = <<>>
  /\ content = [s \in Session |-> 0]
  /\ done = {}
  /\ extracted = {}
  /\ at = [w \in Worker |-> "idle"]
  /\ work = [w \in Worker |-> NoWork]
  /\ late = {}
  /\ faults = 0

Fault == faults < MaxFaults /\ faults' = faults + 1

-------------------------------------------------------------------------------
(* Transactions.                                                           *)

Held(j) == jobs[j].state = "running" /\ jobs[j].live

ClaimableOnceMore(j) ==
  /\ jobs[j].attempts <= Retries
  /\ jobs[j].ready
  /\ jobs[j].state = "pending" \/ (jobs[j].state = "running" /\ ~jobs[j].live)

Claimable(j) ==
  /\ jobs[j].attempts < Retries
  /\ jobs[j].ready
  /\ jobs[j].state = "pending" \/ (jobs[j].state = "running" /\ ~jobs[j].live)

Oldest(j) ==
  \E i \in DOMAIN queue :
    /\ queue[i] = j
    /\ Claimable(j)
    /\ \A k \in 1..(i - 1) : ~Claimable(queue[k])

\* One job of the workspace is worked on at a time.
NextJob(j) == Oldest(j) /\ \A k \in Job : ~Held(k)

ClaimRow(w, j) ==
  jobs' = [jobs EXCEPT ![j] =
    [state |-> "running", owner |-> w, epoch |-> jobs[j].epoch + 1, live |-> TRUE,
     attempts |-> jobs[j].attempts + 1, ready |-> jobs[j].ready]]

CheckOwner(w, lease) == Held(lease.job) /\ jobs[lease.job].owner = w

CheckEpoch(w, lease) == jobs[lease.job].epoch = lease.epoch

\* _check_lease
CheckLease(w, lease) ==
  /\ Held(lease.job)
  /\ jobs[lease.job].owner = w
  /\ jobs[lease.job].epoch = lease.epoch

\* The owner of a row is looked at only while it is running.
Ended(j, state, attempts, ready) ==
  [state |-> state, owner |-> NoWorker, epoch |-> jobs[j].epoch, live |-> FALSE,
   attempts |-> attempts, ready |-> ready]

PublishAll(lease, read, deferred) ==
  /\ done' = done \cup read
  /\ jobs' = [jobs EXCEPT ![lease.job] = Ended(lease.job, "succeeded", @.attempts, TRUE)]
  /\ UNCHANGED queue

\* finish without an error.  A job that leaves sources behind is continued by
\* another one; if it could read none, it waits for its own next turn.
Publish(lease, read, deferred) ==
  LET j == lease.job
      next == <<j[1], j[2] + 1>>
      partly == deferred /\ read # {}
      continued == partly /\ jobs[next].state = "missing"
      succeeded == [jobs EXCEPT ![j] = Ended(j, "succeeded", @.attempts, TRUE)]
  IN /\ partly => j[2] < MaxBatches
     /\ done' = done \cup read
     /\ queue' = IF continued THEN Append(queue, next) ELSE queue
     /\ jobs' = IF continued THEN [succeeded EXCEPT ![next].state = "pending"]
                ELSE IF deferred /\ ~partly
                THEN [jobs EXCEPT ![j] = Ended(j, "pending", 0, FALSE)]
                ELSE succeeded

\* finish with an error.  A spared attempt is given back, and not delayed.
GiveUp(j, spared) ==
  LET attempts == jobs[j].attempts
      state == IF attempts >= Retries /\ ~spared THEN "failed" ELSE "pending"
      left == IF spared /\ attempts > 0 THEN attempts - 1 ELSE attempts
  IN jobs' = [jobs EXCEPT ![j] = Ended(j, state, left, spared)]

-------------------------------------------------------------------------------
(* The worker: run_pending and _run.                                       *)

Go(w, point) == at' = [at EXCEPT ![w] = point]

\* The locals of _run end with it; run_pending keeps the lease.
Unwind(w, point, spared) ==
  /\ Go(w, point)
  /\ work' = [work EXCEPT ![w] = [NoWork EXCEPT !.lease = work[w].lease, !.spared = spared]]

Abort(w, spared) == Unwind(w, "failing", spared)

\* Transactions still under way when their task is cancelled, or never begun.
GoesOn(transaction) == late' \in {late, late \cup {transaction}}

\* start and the loop of run_pending; without a job to claim the task ends.
ClaimJob(w) ==
  /\ at[w] = "idle"
  /\ \E j \in Job :
       /\ NextJob(j)
       /\ ClaimRow(w, j)
       /\ work' = [work EXCEPT ![w] =
            [NoWork EXCEPT !.lease = [job |-> j, epoch |-> jobs[j].epoch + 1],
                           !.left = Session \ {j[1]}]]
  /\ Go(w, "reading")
  /\ UNCHANGED <<queue, done, extracted, content, late, faults>>

\* The claim is outside the try of run_pending.
CancelClaim(w) ==
  /\ at[w] = "idle"
  /\ Go(w, "stopped")
  /\ GoesOn([worker |-> w, kind |-> "claim"])
  /\ Fault
  /\ UNCHANGED <<rows, content, work>>

\* The request is paid for from the budget of the job; StepFails if that is used up.
Request(w, target) ==
  /\ Go(w, "calling")
  /\ work' = [work EXCEPT ![w].target = target]

Pass(w, s) ==
  /\ work' = [work EXCEPT ![w].left = @ \ {s}]
  /\ UNCHANGED at

Defer(w, s) ==
  /\ work' = [work EXCEPT ![w].left = @ \ {s}, ![w].deferred = TRUE]
  /\ UNCHANGED at

Take(w, snapshot) ==
  /\ work' = [work EXCEPT ![w].left = @ \ {snapshot[1]}, ![w].read = @ \cup {snapshot}]
  /\ UNCHANGED at

NextSource(w, s) == s \in work[w].left /\ \A t \in work[w].left : s <= t

ReadSource(w) ==
  /\ at[w] = "reading"
  /\ \E s \in work[w].left :
       /\ NextSource(w, s)
       /\ LET snapshot == <<s, content[s]>>
              seen == s \in Unclear \/ snapshot \in done
              room == Cardinality(work[w].read) < BatchSize
          IN \/ seen /\ Pass(w, s)
             \/ ~seen /\ ~room /\ Defer(w, s)
             \/ ~seen /\ room /\ snapshot \in extracted /\ Take(w, snapshot)
             \/ ~seen /\ room /\ snapshot \notin extracted /\ Request(w, snapshot)
  /\ UNCHANGED <<jobs, queue, done, extracted, content, late, faults>>

\* Another process has it, the foreground uses it, or it cannot be read.
SourceUnavailable(w) ==
  /\ at[w] = "reading"
  /\ \E s \in work[w].left : NextSource(w, s) /\ Defer(w, s)
  /\ Fault
  /\ UNCHANGED <<jobs, queue, done, extracted, content, late>>

\* No candidates, or a merge that was paid for before, needs no model.
MergeCandidates(w) ==
  /\ at[w] = "reading"
  /\ work[w].left = {}
  /\ \/ Go(w, "checking") /\ UNCHANGED work
     \/ work[w].read # {} /\ Request(w, Merge)
  /\ UNCHANGED <<jobs, queue, done, extracted, content, late, faults>>

\* save_extraction, fenced by the lease.
SaveAnswer(w) ==
  LET target == work[w].target IN
  /\ at[w] = "calling"
  /\ CheckLease(w, work[w].lease)
  /\ IF target = Merge
     THEN /\ Go(w, "checking")
          /\ work' = [work EXCEPT ![w].target = NoTarget]
          /\ UNCHANGED extracted
     ELSE /\ Go(w, "reading")
          /\ extracted' = extracted \cup {target}
          /\ work' = [work EXCEPT ![w].left = @ \ {target[1]}, ![w].read = @ \cup {target},
                                  ![w].target = NoTarget]
  /\ UNCHANGED <<jobs, queue, done, content, late, faults>>

\* Model, timeout, evidence, a lost lease, or writing disabled.
StepFails(w) ==
  /\ at[w] \in {"reading", "calling", "checking"}
  /\ Abort(w, FALSE)
  /\ UNCHANGED <<rows, content, late, faults>>

\* SourceDeferred, also for maintenance being switched off; or SessionError.BUSY.
Postpone(w) ==
  /\ at[w] \in {"reading", "checking"}
  /\ Abort(w, TRUE)
  /\ Fault
  /\ UNCHANGED <<rows, content, late>>

Current(w) == \A snapshot \in work[w].read : content[snapshot[1]] = snapshot[2]

CheckSources(w) ==
  /\ at[w] = "checking"
  /\ IF Current(w) THEN Go(w, "finishing") /\ UNCHANGED work ELSE Abort(w, TRUE)
  /\ UNCHANGED <<rows, content, late, faults>>

FinishJob(w) ==
  LET task == work[w] IN
  /\ at[w] = "finishing"
  /\ CheckLease(w, task.lease)
  /\ Publish(task.lease, task.read, task.deferred)
  /\ Go(w, "idle")
  /\ work' = [work EXCEPT ![w] = NoWork]
  /\ UNCHANGED <<extracted, content, late, faults>>

FinishRefused(w) ==
  /\ at[w] = "finishing"
  /\ ~CheckLease(w, work[w].lease)
  /\ Abort(w, FALSE)
  /\ UNCHANGED <<rows, content, late, faults>>

LatePublication(w) ==
  [worker |-> w, kind |-> "finish", lease |-> work[w].lease,
   read |-> work[w].read, deferred |-> work[w].deferred]

\* The 15 minutes are over while the job is being published.
FinishTimesOut(w) ==
  /\ at[w] = "finishing"
  /\ Abort(w, FALSE)
  /\ GoesOn(LatePublication(w))
  /\ Fault
  /\ UNCHANGED <<rows, content>>

\* close: the task is cancelled and no other one started.
CancelWork(w) ==
  /\ at[w] \in {"reading", "calling", "checking", "finishing"}
  /\ Unwind(w, "closing", TRUE)
  /\ IF at[w] = "finishing" THEN GoesOn(LatePublication(w)) ELSE UNCHANGED late
  /\ Fault
  /\ UNCHANGED <<rows, content>>

\* _fail; a worker that lost its lease leaves the job alone.
GiveBack(w) ==
  /\ IF CheckLease(w, work[w].lease)
     THEN GiveUp(work[w].lease.job, work[w].spared)
     ELSE UNCHANGED jobs
  /\ work' = [work EXCEPT ![w] = NoWork]
  /\ UNCHANGED <<queue, done, extracted, content, late, faults>>

Fail(w) ==
  /\ at[w] = "failing"
  /\ GiveBack(w)
  /\ Go(w, "idle")

Close(w) ==
  /\ at[w] = "closing"
  /\ GiveBack(w)
  /\ Go(w, "stopped")

\* The process ends, waiting for its threads, and another one is started.
Restart(w) ==
  /\ at[w] = "stopped"
  /\ \A t \in late : t.worker # w
  /\ Go(w, "idle")
  /\ UNCHANGED <<rows, content, work, late, faults>>

-------------------------------------------------------------------------------
(* Late transactions, time, and the sessions themselves.                   *)

LateClaim ==
  \E t \in late :
    /\ t.kind = "claim"
    /\ late' = late \ {t}
    /\ \/ \E j \in Job :
            /\ NextJob(j)
            /\ ClaimRow(t.worker, j)
       \/ (\A j \in Job : ~NextJob(j)) /\ UNCHANGED jobs
    /\ UNCHANGED <<queue, done, extracted, content, at, work, faults>>

LateFinish ==
  \E t \in late :
    /\ t.kind = "finish"
    /\ late' = late \ {t}
    /\ IF CheckLease(t.worker, t.lease)
       THEN Publish(t.lease, t.read, t.deferred)
       ELSE UNCHANGED <<jobs, queue, done>>
    /\ UNCHANGED <<extracted, content, at, work, faults>>

HasHolder(j) ==
  \/ \E w \in Worker : work[w].lease # NoLease /\ work[w].lease.job = j
                       /\ CheckLease(w, work[w].lease)
  \/ \E t \in late : t.kind = "finish" /\ t.lease.job = j /\ CheckLease(t.worker, t.lease)

\* A lease expires when nobody renews it; with a holder alive that takes a
\* heartbeat that is late by 90 seconds.
Expire(j) ==
  /\ Held(j)
  /\ jobs' = [jobs EXCEPT ![j].live = FALSE]
  /\ IF HasHolder(j) THEN Fault ELSE UNCHANGED faults
  /\ UNCHANGED <<queue, done, extracted, content, at, work, late>>

DelayPasses(j) ==
  /\ ~jobs[j].ready
  /\ jobs' = [jobs EXCEPT ![j].ready = TRUE]
  /\ UNCHANGED <<queue, done, extracted, content, at, work, late, faults>>

Crash(w) ==
  /\ at[w] # "idle" \/ \E t \in late : t.worker = w
  /\ Fault
  /\ Go(w, "idle")
  /\ work' = [work EXCEPT ![w] = NoWork]
  /\ late' = {t \in late : t.worker # w}
  /\ UNCHANGED <<rows, content>>

\* After the first completed turn of a session, or by reconcile.
Schedule(s) ==
  /\ jobs[<<s, 0>>].state = "missing"
  /\ jobs' = [jobs EXCEPT ![<<s, 0>>].state = "pending"]
  /\ queue' = Append(queue, <<s, 0>>)
  /\ UNCHANGED <<done, extracted, content, at, work, late, faults>>

\* A foreground turn adds to a session.
Change(s) ==
  /\ content[s] < MaxEdits
  /\ content' = [content EXCEPT ![s] = @ + 1]
  /\ Fault
  /\ UNCHANGED <<rows, at, work, late>>

Works(w) ==
  \/ ClaimJob(w) \/ ReadSource(w) \/ MergeCandidates(w) \/ SaveAnswer(w) \/ StepFails(w)
  \/ CheckSources(w) \/ FinishJob(w) \/ FinishRefused(w)
  \/ Fail(w) \/ Close(w) \/ Restart(w)

Disturbed(w) ==
  \/ CancelClaim(w) \/ SourceUnavailable(w) \/ Postpone(w)
  \/ FinishTimesOut(w) \/ CancelWork(w) \/ Crash(w)

Settles ==
  \/ LateClaim \/ LateFinish
  \/ \E j \in Job : Expire(j) \/ DelayPasses(j)

Next ==
  \/ \E w \in Worker : Works(w) \/ Disturbed(w)
  \/ Settles
  \/ \E s \in Starter : Schedule(s)
  \/ \E s \in Session : Change(s)

Spec == Init /\ [][Next]_vars

-------------------------------------------------------------------------------
(* Properties.                                                             *)

\* Every variable keeps its type; a row counts at most Retries attempts.
TypeOK ==
  /\ jobs \in [Job -> [state : JobState, owner : Worker \cup {NoWorker}, epoch : Nat,
                       live : BOOLEAN, attempts : 0..Retries, ready : BOOLEAN]]
  /\ queue \in Seq(Job)
  /\ content \in [Session -> 0..MaxEdits]
  /\ done \subseteq Snapshot
  /\ extracted \subseteq Snapshot
  /\ at \in [Worker -> Point]
  /\ work \in [Worker -> [lease : Leases \cup {NoLease}, left : SUBSET Session,
                          read : SUBSET Snapshot, deferred : BOOLEAN,
                          target : Snapshot \cup {Merge, NoTarget}, spared : BOOLEAN]]
  /\ \A t \in late :
       \/ t \in [worker : Worker, kind : {"claim"}]
       \/ t \in [worker : Worker, kind : {"finish"}, lease : Leases,
                 read : SUBSET Snapshot, deferred : BOOLEAN]
  /\ faults \in Nat

AtWork == {"reading", "calling", "checking", "finishing"}

Holding(w) == at[w] \in AtWork /\ CheckLease(w, work[w].lease)

\* One worker at a time is entitled to write for the workspace, whichever job it
\* claimed and whoever else believes to hold one (claim, _check_lease).
OneHolder ==
  /\ \A j, k \in Job : Held(j) /\ Held(k) => j = k
  /\ \A v, w \in Worker : Holding(v) /\ Holding(w) => v = w

Settled(j) == jobs[j].state \in {"succeeded", "failed"}

\* What a worker, a stale worker or a late thread does, a settled job stays so.
SettledIsFinal ==
  [][\A j \in Job : Settled(j) => jobs'[j].state = jobs[j].state]_vars

\* A claim that is still valid is ended by the worker that holds it, or expires:
\* no thread left over from an earlier claim, of its own process even, ends it.
ClaimEndsWithHolder ==
  [][\A w \in Worker :
       LET j == work[w].lease.job IN
       Holding(w) /\ at'[w] = at[w] =>
         jobs'[j] \in {jobs[j], [jobs[j] EXCEPT !.live = FALSE]}]_vars

\* No source is lost on the way: as long as a readable session has never been
\* extracted, the job that should have read it is not yet over, has a continuation
\* that is not, or one of them failed (finish, deferred sources).
NoSourceForgotten ==
  \A s \in Starter : \A t \in Session \ (Unclear \cup {s}) :
    jobs[<<s, 0>>].state = "succeeded" =>
      \/ \E n \in 0..MaxEdits : <<t, n>> \in done
      \/ \E n \in 0..MaxBatches : jobs[<<s, n>>].state \in {"pending", "running", "failed"}

===============================================================================
