-------------------------- MODULE SessionLeaseProofs ---------------------------
(***************************************************************************)
(* What the lease and the sequence check guarantee for any number of       *)
(* processes: lines of two operations never mix, whoever drops the lease;  *)
(* and only a reader of its own process takes the lock of an operation.    *)
(***************************************************************************)
EXTENDS SessionLease, TLAPS

Running(p) == fg[p] = "turn"

\* A turn that has written was the last to write, as far as its journal goes.
WrittenBy(p) ==
  \A i \in 1..Len(file) :
    file[i] = turn[p] => journal[p] \in 1..Len(file) /\ file[journal[p]] = turn[p]

\* Turns are numbered as they come, and lines name turns that came.
NumberInv ==
  /\ \A i \in 1..Len(file) : file[i] <= turns
  /\ \A p \in Process : Running(p) => turn[p] <= turns
  /\ \A p, q \in Process : Running(p) /\ Running(q) /\ p # q => turn[p] # turn[q]

LineInv ==
  /\ NumberInv
  /\ \A p \in Process : Running(p) => WrittenBy(p)
  /\ TurnsDoNotInterleave

-------------------------------------------------------------------------------

\* The initial state has its types.
LEMMA LeaseTypeInit == Init => TypeOK
BY DEF Init, TypeOK, ForegroundPoint, ReaderPoint, Operation

\* Every step keeps the types.
LEMMA LeaseTypeStep ==
  ASSUME TypeOK, [Next]_vars
  PROVE  TypeOK'
<1> USE LeaseAssumption DEF TypeOK, ForegroundPoint, ReaderPoint, Operation
<1>1. ASSUME NEW p \in Process, Foreground(p) PROVE TypeOK'
  <2>1. ASSUME NEW operation \in Operation \ {"none"}, Start(p, operation) PROVE TypeOK'
    BY <2>1 DEF Start
  <2>2. CASE Acquire(p)
    BY <2>2 DEF Acquire
  <2>3. CASE Busy(p)
    BY <2>3 DEF Busy, Finish, Forget, Released
  <2>4. CASE CancelAcquire(p)
    BY <2>4 DEF CancelAcquire, Finish, Forget, Released, Fault
  <2>5. CASE LateAcquire(p)
    BY <2>5 DEF LateAcquire
  <2>6. CASE Enter(p)
    BY <2>6 DEF Enter
  <2>7. CASE Open(p)
    BY <2>7 DEF Open
  <2>8. CASE AppendEvent(p)
    BY <2>8 DEF AppendEvent
  <2>9. CASE AppendFails(p) \/ EndOperation(p)
    <3>1. Finish(p) /\ UNCHANGED <<late, faults>>
      BY <2>9 DEF AppendFails, EndOperation
    <3> QED
      BY <3>1 DEF Finish, Forget, Released
  <2>10. CASE ReleaseSession(p)
    BY <2>10 DEF ReleaseSession, Released
  <2> QED
    BY <1>1, <2>1, <2>2, <2>3, <2>4, <2>5, <2>6, <2>7, <2>8, <2>9, <2>10 DEF Foreground
<1>2. ASSUME NEW p \in Process, Crash(p) PROVE TypeOK'
  BY <1>2 DEF Crash, Forget, Released, Fault
<1>3. ASSUME NEW p \in Process, Reading(p) PROVE TypeOK'
  <2>1. CASE CheckActive(p) \/ SourceBusy(p)
    BY <2>1 DEF CheckActive, SourceBusy
  <2>2. CASE AcquireSource(p)
    BY <2>2 DEF AcquireSource
  <2>3. CASE CancelSource(p)
    BY <2>3 DEF CancelSource, Fault
  <2>4. CASE ReleaseSource(p)
    BY <2>4 DEF ReleaseSource, Released
  <2> QED
    BY <1>3, <2>1, <2>2, <2>3, <2>4 DEF Reading
<1>4. CASE UNCHANGED vars
  BY <1>4 DEF vars
<1> QED
  BY <1>1, <1>2, <1>3, <1>4 DEF Next

-------------------------------------------------------------------------------
(* Lines.                                                                  *)

\* A step that writes nothing and starts no turn.
LEMMA QuietLines ==
  ASSUME TypeOK, LineInv, UNCHANGED <<file, turns>>,
         \A p \in Process :
           fg'[p] = "turn" => Running(p) /\ turn'[p] = turn[p] /\ journal'[p] = journal[p]
  PROVE  LineInv'
BY DEF LineInv, NumberInv, WrittenBy, Running, TurnsDoNotInterleave

\* A new turn is in no line.
LEMMA OpenLines ==
  ASSUME TypeOK, LineInv, NEW p \in Process, Open(p)
  PROVE  LineInv'
<1>1. /\ turns' = turns + 1 /\ file' = file /\ turns \in Nat
      /\ turn'[p] = turns + 1 /\ \A q \in Process \ {p} : turn'[q] = turn[q]
      /\ \A q \in Process \ {p} : fg'[q] = fg[q] /\ journal'[q] = journal[q]
      /\ \A q \in Process : turn[q] \in Nat
      /\ \A i \in 1..Len(file) : file[i] \in Nat
  BY DEF Open, TypeOK
<1>2. \A i \in 1..Len(file) : file[i] <= turns
  BY DEF LineInv, NumberInv
<1>3. \A q \in Process : Running(q) => turn[q] <= turns
  BY DEF LineInv, NumberInv
<1>4. NumberInv'
  <2>1. \A i \in 1..Len(file') : file'[i] <= turns'
    BY <1>1, <1>2
  <2>2. \A q \in Process : Running(q)' => turn'[q] <= turns'
    BY <1>1, <1>3 DEF Running
  <2>3. \A q, r \in Process : Running(q)' /\ Running(r)' /\ q # r => turn'[q] # turn'[r]
    BY <1>1, <1>3 DEF Running, LineInv, NumberInv
  <2> QED
    BY <2>1, <2>2, <2>3 DEF NumberInv
<1>5. \A q \in Process : Running(q)' => WrittenBy(q)'
  <2> SUFFICES ASSUME NEW q \in Process, Running(q)' PROVE WrittenBy(q)'
    OBVIOUS
  <2>1. CASE q = p
    BY <1>1, <1>2, <2>1 DEF WrittenBy
  <2>2. CASE q # p
    BY <1>1, <2>2 DEF WrittenBy, LineInv, Running
  <2> QED
    BY <2>1, <2>2
<1>6. TurnsDoNotInterleave'
  BY <1>1 DEF LineInv, TurnsDoNotInterleave
<1> QED
  BY <1>4, <1>5, <1>6 DEF LineInv

\* A line goes to the end of the file its turn has read, so behind its own last line.
LEMMA AppendLines ==
  ASSUME TypeOK, LineInv, NEW p \in Process, AppendEvent(p)
  PROVE  LineInv'
<1>1. /\ Running(p) /\ journal[p] = Len(file) /\ file \in Seq(Nat) /\ turn[p] \in Nat
      /\ file' = Append(file, turn[p]) /\ UNCHANGED <<fg, turn, turns>>
      /\ journal'[p] = Len(file) + 1
      /\ \A q \in Process \ {p} : journal'[q] = journal[q]
  BY DEF AppendEvent, TypeOK, Running
<1>2. /\ Len(file') = Len(file) + 1 /\ Len(file) \in Nat
      /\ \A i \in 1..Len(file) : file'[i] = file[i]
      /\ file'[Len(file) + 1] = turn[p]
  BY <1>1
<1>3. NumberInv'
  <2>1. \A i \in 1..Len(file') : file'[i] <= turns'
    BY <1>1, <1>2 DEF LineInv, NumberInv
  <2> QED
    BY <1>1, <2>1 DEF LineInv, NumberInv, Running
<1>4. \A q \in Process : Running(q)' => WrittenBy(q)'
  <2> SUFFICES ASSUME NEW q \in Process, Running(q)' PROVE WrittenBy(q)'
    OBVIOUS
  <2>1. CASE q = p
    BY <1>1, <1>2, <2>1 DEF WrittenBy
  <2>2. CASE q # p
    <3>1. turn[q] # turn[p] /\ WrittenBy(q)
      BY <1>1, <2>2 DEF LineInv, NumberInv, Running
    <3> QED
      BY <1>1, <1>2, <2>2, <3>1 DEF WrittenBy
  <2> QED
    BY <2>1, <2>2
<1>5. ASSUME NEW i \in 1..Len(file'), NEW j \in 1..Len(file'), NEW k \in 1..Len(file'),
             i < j, j < k, file'[i] = file'[k]
      PROVE  file'[j] = file'[i]
  <2>1. i \in 1..Len(file) /\ j \in 1..Len(file)
    BY <1>2, <1>5
  <2>2. CASE k \in 1..Len(file)
    BY <1>2, <1>5, <2>1, <2>2 DEF LineInv, TurnsDoNotInterleave
  <2>3. CASE k = Len(file) + 1
    <3>1. file[i] = turn[p]
      BY <1>2, <1>5, <2>1, <2>3
    <3>2. file[Len(file)] = turn[p]
      BY <1>1, <2>1, <3>1 DEF LineInv, WrittenBy
    <3>3. j = Len(file) \/ j < Len(file)
      BY <1>2, <2>1
    <3>4. file[j] = file[i]
      BY <1>2, <1>5, <2>1, <3>1, <3>2, <3>3 DEF LineInv, TurnsDoNotInterleave
    <3> QED
      BY <1>2, <2>1, <3>4
  <2> QED
    BY <1>2, <2>2, <2>3
<1>6. TurnsDoNotInterleave'
  BY <1>5 DEF TurnsDoNotInterleave
<1> QED
  BY <1>3, <1>4, <1>6 DEF LineInv

\* Every step keeps the lines of a turn together.
LEMMA LineStep ==
  ASSUME TypeOK, LineInv, [Next]_vars
  PROVE  LineInv'
<1>1. ASSUME NEW p \in Process, Foreground(p) PROVE LineInv'
  <2>1. ASSUME NEW operation, Start(p, operation) PROVE LineInv'
    BY <2>1, QuietLines DEF Start, Running, TypeOK
  <2>2. CASE Acquire(p) \/ Enter(p)
    BY <2>2, QuietLines DEF Acquire, Enter, Running, TypeOK
  <2>3. CASE Busy(p) \/ CancelAcquire(p) \/ AppendFails(p) \/ EndOperation(p)
    BY <2>3, QuietLines
       DEF Busy, CancelAcquire, AppendFails, EndOperation, Finish, Forget, Running, TypeOK
  <2>4. CASE LateAcquire(p) \/ ReleaseSession(p)
    BY <2>4, QuietLines DEF LateAcquire, ReleaseSession, Running, TypeOK
  <2> QED
    BY <1>1, <2>1, <2>2, <2>3, <2>4, OpenLines, AppendLines DEF Foreground
<1>2. ASSUME NEW p \in Process, Crash(p) PROVE LineInv'
  BY <1>2, QuietLines DEF Crash, Forget, Running, TypeOK
<1>3. ASSUME NEW p \in Process, Reading(p) PROVE LineInv'
  BY <1>3, QuietLines DEF Reading, CheckActive, AcquireSource, SourceBusy, CancelSource,
                          ReleaseSource, Running
<1>4. CASE UNCHANGED vars
  BY <1>4, QuietLines DEF vars, Running
<1> QED
  BY <1>1, <1>2, <1>3, <1>4, LeaseAssumption DEF Next

-------------------------------------------------------------------------------
(* Ownership.                                                              *)

\* A step of p takes the lock only when it is free or its own, and frees no other's.
LEMMA LockMoves ==
  ASSUME TypeOK, NEW p \in Process, Foreground(p) \/ Crash(p) \/ Reading(p)
  PROVE  /\ \A q \in Process \ {p} : lock = q => lock' = q
         /\ \A q \in Process \ {p} : fg'[q] = fg[q] /\ (q \in robbed => q \in robbed')
BY LeaseAssumption
   DEF TypeOK, Foreground, Reading, Start, Acquire, Busy, CancelAcquire, LateAcquire, Enter,
       Open, AppendEvent, AppendFails, EndOperation, ReleaseSession, Crash, CheckActive,
       AcquireSource, SourceBusy, CancelSource, ReleaseSource, Finish, Forget, Released, MayAcquire

\* While an operation of p goes on, p keeps the lock or its reader has released it.
LEMMA OwnerKeeps ==
  ASSUME TypeOK, NEW p \in Process, Foreground(p) \/ Crash(p) \/ Reading(p),
         fg[p] \in OwningPoint => lock = p \/ p \in robbed
  PROVE  fg'[p] \in OwningPoint => lock' = p \/ p \in robbed'
BY LeaseAssumption
   DEF TypeOK, OwningPoint, Foreground, Reading, Start, Acquire, Busy, CancelAcquire, LateAcquire,
       Enter, Open, AppendEvent, AppendFails, EndOperation, ReleaseSession, Crash, CheckActive,
       AcquireSource, SourceBusy, CancelSource, ReleaseSource, Finish, Forget, Released, MayAcquire

\* Every step leaves the lock to the operations that run.
LEMMA OwnerStep ==
  ASSUME TypeOK, OperationOwns, [Next]_vars
  PROVE  OperationOwns'
<1>1. ASSUME NEW p \in Process, Foreground(p) \/ Reading(p) \/ Crash(p) PROVE OperationOwns'
  BY <1>1, LockMoves, OwnerKeeps DEF OperationOwns
<1>2. CASE UNCHANGED vars
  BY <1>2 DEF vars, OperationOwns
<1> QED
  BY <1>1, <1>2 DEF Next

-------------------------------------------------------------------------------

\* Lines of two operations never mix, for any number of processes and whatever
\* background task drops the lease of a running turn.
THEOREM LinesStayTogether == Spec => []TurnsDoNotInterleave
<1>1. Init => TypeOK /\ LineInv
  BY LeaseTypeInit DEF Init, LineInv, NumberInv, WrittenBy, Running, TurnsDoNotInterleave
<1>2. TypeOK /\ LineInv /\ [Next]_vars => (TypeOK /\ LineInv)'
  BY LeaseTypeStep, LineStep
<1>3. LineInv => TurnsDoNotInterleave
  BY DEF LineInv
<1> QED
  BY <1>1, <1>2, <1>3, PTL DEF Spec

\* Every variable keeps its type, for any number of processes.
THEOREM LeaseTypes == Spec => []TypeOK
<1>1. Init => TypeOK
  BY LeaseTypeInit
<1>2. TypeOK /\ [Next]_vars => TypeOK'
  BY LeaseTypeStep
<1> QED
  BY <1>1, <1>2, PTL DEF Spec

\* An operation has the session for itself from taking the lease to its end, unless
\* a reader of its own process releases the lease.
THEOREM OwnersAreExclusive == Spec => []OperationOwns
<1>1. Init => TypeOK /\ OperationOwns
  BY LeaseTypeInit DEF Init, OperationOwns, OwningPoint
<1>2. TypeOK /\ OperationOwns /\ [Next]_vars => (TypeOK /\ OperationOwns)'
  BY LeaseTypeStep, OwnerStep
<1> QED
  BY <1>1, <1>2, PTL DEF Spec

===============================================================================
