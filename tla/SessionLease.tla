----------------------------- MODULE SessionLease ------------------------------
(***************************************************************************)
(* The OS lock on the log of one session, and who uses it: the foreground  *)
(* of each process (send, compact, resume) and whoever reads the session   *)
(* there as the source of a memory: maintenance jobs, searches of other    *)
(* sessions, and a compaction, which is not in active_sessions and so may  *)
(* read, and release, its own session.                                     *)
(*                                                                         *)
(* JsonlSession keeps at most one lease per session and process, and holds *)
(* the lock exactly while it keeps the lease; so "lock = p" stands for     *)
(* "the session is in _leases of p".  The lease is not counted: whoever    *)
(* releases it, drops it.  Locks are taken and dropped in threads, and a   *)
(* thread outlives the cancellation of the task that waits for it.         *)
(*                                                                         *)
(* Late appends are left to TurnExecution, torn lines to physical recovery.*)
(***************************************************************************)
EXTENDS Integers, Sequences

CONSTANTS Process,   \* processes that may use the session
          NoProcess,
          MaxTurns,  \* bound: operations that open a journal
          MaxLines,  \* bound: lines of the file
          MaxFaults  \* bound: cancellations and crashes

ASSUME LeaseAssumption ==
  /\ NoProcess \notin Process
  /\ MaxTurns \in Nat
  /\ MaxLines \in Nat
  /\ MaxFaults \in Nat

VARIABLES
  file,     \* of each line of the log, the turn that wrote it
  lock,     \* the process whose lease holds the OS lock
  fg,       \* await point of the foreground operation of each process
  op,       \* which operation that is
  already,  \* already_owned, as a resume found it
  journal,  \* lines in the journal of that operation
  turn,     \* the turn it writes
  active,   \* is the session in memory.active_sessions?
  bg,       \* await point of the reader of sources in each process
  late,     \* processes with a cancelled acquire still in a thread
  robbed,   \* history: operations whose lease a reader of their process has released
  turns,    \* turns so far
  faults    \* cancellations and crashes so far

vars == <<file, lock, fg, op, already, journal, turn, active, bg, late, robbed, turns, faults>>

Operation == {"none", "send", "compact", "resume"}

ForegroundPoint == {"idle", "acquiring", "acquired", "opening", "turn"}

\* Where an operation relies on the lease it has taken.
OwningPoint == {"acquired", "opening", "turn"}

ReaderPoint == {"idle", "checked", "reading"}

Init ==
  /\ file = <<>>
  /\ lock = NoProcess
  /\ fg = [p \in Process |-> "idle"]
  /\ op = [p \in Process |-> "none"]
  /\ already = [p \in Process |-> FALSE]
  /\ journal = [p \in Process |-> 0]
  /\ turn = [p \in Process |-> 0]
  /\ active = [p \in Process |-> FALSE]
  /\ bg = [p \in Process |-> "idle"]
  /\ late = {}
  /\ robbed = {}
  /\ turns = 0
  /\ faults = 0

Fault == faults < MaxFaults /\ faults' = faults + 1

\* Taking the lease again is no error; another process holding it is (session_busy).
MayAcquire(p) == lock \in {NoProcess, p}

\* Refused while another process holds the lock, if only for one append.
MayBeBusy(p) ==
  \/ ~MayAcquire(p)
  \/ lock = NoProcess /\ \E q \in Process \ {p} : fg[q] = "turn"

Released(p) == IF lock = p THEN NoProcess ELSE lock

-------------------------------------------------------------------------------
(* The foreground.                                                         *)

\* send and compact refuse a session on which an operation is running; resume
\* notes whether the session was owned before it takes the lease.
Start(p, operation) ==
  /\ fg[p] = "idle"
  /\ fg' = [fg EXCEPT ![p] = "acquiring"]
  /\ op' = [op EXCEPT ![p] = operation]
  /\ already' = [already EXCEPT ![p] = (operation = "resume" /\ lock = p)]
  /\ UNCHANGED <<file, lock, journal, turn, active, bg, late, robbed, turns, faults>>

\* The thread takes the lock; the task goes on later.
Acquire(p) ==
  /\ fg[p] = "acquiring"
  /\ MayAcquire(p)
  /\ lock' = p
  /\ fg' = [fg EXCEPT ![p] = "acquired"]
  /\ UNCHANGED <<file, op, already, journal, turn, active, bg, late, robbed, turns, faults>>

\* The locals of an operation end with it.
Forget(p) ==
  /\ already' = [already EXCEPT ![p] = FALSE]
  /\ journal' = [journal EXCEPT ![p] = 0]
  /\ turn' = [turn EXCEPT ![p] = 0]

\* Ends the operation of p; a resume gives back a lease it was the first to take.
Finish(p) ==
  /\ fg' = [fg EXCEPT ![p] = "idle"]
  /\ op' = [op EXCEPT ![p] = "none"]
  /\ lock' = IF op[p] = "resume" /\ ~already[p] THEN Released(p) ELSE lock
  /\ robbed' = robbed \ {p}
  /\ Forget(p)
  /\ UNCHANGED <<file, active, bg, turns>>

Busy(p) ==
  /\ fg[p] = "acquiring"
  /\ MayBeBusy(p)
  /\ Finish(p)
  /\ UNCHANGED <<late, faults>>

\* A resume shields its acquire; send and compact do not.
CancelAcquire(p) ==
  /\ fg[p] = "acquiring"
  /\ op[p] # "resume"
  /\ Finish(p)
  /\ late' \in {late, late \cup {p}}
  /\ Fault

\* The thread of a cancelled acquire runs after all.
LateAcquire(p) ==
  /\ p \in late
  /\ late' = late \ {p}
  /\ lock' = IF MayAcquire(p) THEN p ELSE lock
  /\ UNCHANGED <<file, fg, op, already, journal, turn, active, bg, robbed, turns, faults>>

\* Only send marks the session active, and only after it has the lease.
Enter(p) ==
  /\ fg[p] = "acquired"
  /\ fg' = [fg EXCEPT ![p] = "opening"]
  /\ active' = [active EXCEPT ![p] = @ \/ op[p] = "send"]
  /\ UNCHANGED <<file, lock, op, already, journal, turn, bg, late, robbed, turns, faults>>

\* EventJournal.open reads the file; no lease is asked for.
Open(p) ==
  /\ fg[p] = "opening"
  /\ turns < MaxTurns
  /\ turns' = turns + 1
  /\ turn' = [turn EXCEPT ![p] = turns + 1]
  /\ journal' = [journal EXCEPT ![p] = Len(file)]
  /\ fg' = [fg EXCEPT ![p] = "turn"]
  /\ UNCHANGED <<file, lock, op, already, active, bg, late, robbed, faults>>

AppendUnchecked(p) ==
  /\ fg[p] = "turn"
  /\ Len(file) < MaxLines
  /\ MayAcquire(p)
  /\ file' = Append(file, turn[p])
  /\ journal' = [journal EXCEPT ![p] = @ + 1]
  /\ UNCHANGED <<lock, fg, op, already, turn, active, bg, late, robbed, turns, faults>>

\* The append holds the file lock and the lease guard throughout.  If the lease
\* is gone it takes one for the append alone.
AppendEvent(p) ==
  /\ fg[p] = "turn"
  /\ Len(file) < MaxLines
  /\ MayAcquire(p)
  /\ journal[p] = Len(file)
  /\ file' = Append(file, turn[p])
  /\ journal' = [journal EXCEPT ![p] = @ + 1]
  /\ UNCHANGED <<lock, fg, op, already, turn, active, bg, late, robbed, turns, faults>>

\* Another process has the lock, or has written since.
AppendFails(p) ==
  /\ fg[p] = "turn"
  /\ MayBeBusy(p) \/ journal[p] # Len(file)
  /\ Finish(p)
  /\ UNCHANGED <<late, faults>>

EndOperation(p) ==
  /\ fg[p] = "turn"
  /\ Finish(p)
  /\ UNCHANGED <<late, faults>>

ReleaseWhileRunning(p) ==
  /\ lock' = Released(p)
  /\ active' = [active EXCEPT ![p] = FALSE]
  /\ UNCHANGED <<file, fg, op, already, journal, turn, bg, late, robbed, turns, faults>>

\* /new, /resume of another session, or closing the coordinator.
ReleaseSession(p) ==
  /\ fg[p] = "idle"
  /\ lock' = Released(p)
  /\ active' = [active EXCEPT ![p] = FALSE]
  /\ UNCHANGED <<file, fg, op, already, journal, turn, bg, late, robbed, turns, faults>>

-------------------------------------------------------------------------------
(* Readers of sources: MemoryService.source, from a job, a tool or the      *)
(* preparation of a request, and the publication of a job.                 *)

CheckActive(p) ==
  /\ bg[p] = "idle"
  /\ ~active[p]
  /\ bg' = [bg EXCEPT ![p] = "checked"]
  /\ UNCHANGED <<file, lock, fg, op, already, journal, turn, active, late, robbed, turns, faults>>

AcquireSource(p) ==
  /\ bg[p] = "checked"
  /\ MayAcquire(p)
  /\ lock' = p
  /\ bg' = [bg EXCEPT ![p] = "reading"]
  /\ UNCHANGED <<file, fg, op, already, journal, turn, active, late, robbed, turns, faults>>

SourceBusy(p) ==
  /\ bg[p] = "checked"
  /\ MayBeBusy(p)
  /\ bg' = [bg EXCEPT ![p] = "idle"]
  /\ UNCHANGED <<file, lock, fg, op, already, journal, turn, active, late, robbed, turns, faults>>

\* The reading task is cancelled while its thread takes the lock.
CancelSource(p) ==
  /\ bg[p] = "checked"
  /\ bg' = [bg EXCEPT ![p] = "idle"]
  /\ late' \in {late, late \cup {p}}
  /\ Fault
  /\ UNCHANGED <<file, lock, fg, op, already, journal, turn, active, robbed, turns>>

\* finally: release, whoever took the lease first.
ReleaseSource(p) ==
  /\ bg[p] = "reading"
  /\ lock' = Released(p)
  /\ bg' = [bg EXCEPT ![p] = "idle"]
  /\ robbed' = IF fg[p] \in OwningPoint /\ lock = p THEN robbed \cup {p} ELSE robbed
  /\ UNCHANGED <<file, fg, op, already, journal, turn, active, late, turns, faults>>

-------------------------------------------------------------------------------

\* The operating system drops the locks of a dead process.
Crash(p) ==
  /\ Fault
  /\ lock' = Released(p)
  /\ fg' = [fg EXCEPT ![p] = "idle"]
  /\ op' = [op EXCEPT ![p] = "none"]
  /\ bg' = [bg EXCEPT ![p] = "idle"]
  /\ active' = [active EXCEPT ![p] = FALSE]
  /\ late' = late \ {p}
  /\ robbed' = robbed \ {p}
  /\ Forget(p)
  /\ UNCHANGED <<file, turns>>

Foreground(p) ==
  \/ \E operation \in Operation \ {"none"} : Start(p, operation)
  \/ Acquire(p)
  \/ Busy(p)
  \/ CancelAcquire(p)
  \/ LateAcquire(p)
  \/ Enter(p)
  \/ Open(p)
  \/ AppendEvent(p)
  \/ AppendFails(p)
  \/ EndOperation(p)
  \/ ReleaseSession(p)

Reading(p) ==
  \/ CheckActive(p)
  \/ AcquireSource(p)
  \/ SourceBusy(p)
  \/ CancelSource(p)
  \/ ReleaseSource(p)

Next == \E p \in Process : Foreground(p) \/ Reading(p) \/ Crash(p)

Spec == Init /\ [][Next]_vars

-------------------------------------------------------------------------------
(* Properties.                                                             *)

\* Every variable keeps its type, and an operation is named exactly while it runs.
TypeOK ==
  /\ file \in Seq(Nat)
  /\ lock \in Process \cup {NoProcess}
  /\ fg \in [Process -> ForegroundPoint]
  /\ op \in [Process -> Operation]
  /\ \A p \in Process : fg[p] = "idle" <=> op[p] = "none"
  /\ already \in [Process -> BOOLEAN]
  /\ journal \in [Process -> Nat]
  /\ turn \in [Process -> Nat]
  /\ active \in [Process -> BOOLEAN]
  /\ bg \in [Process -> ReaderPoint]
  /\ late \subseteq Process
  /\ robbed \subseteq Process
  /\ turns \in Nat
  /\ faults \in Nat

\* The lines of two operations never mix, even when the lease has been lost in
\* between (the sequence check of _append_owned under the file lock).
TurnsDoNotInterleave ==
  \A i, j, k \in 1..Len(file) :
    i < j /\ j < k /\ file[i] = file[k] => file[j] = file[i]

\* From taking the lease to its end, an operation has the session for itself, unless
\* a reader of its own process releases the lease under it: nothing that resumes end
\* with, late acquires or other processes do takes it away.  (sessions.md:47 and
\* v0.5-context-memory.md:306 make no exception.)
OperationOwns ==
  \A p \in Process : fg[p] \in OwningPoint => lock = p \/ p \in robbed

===============================================================================
