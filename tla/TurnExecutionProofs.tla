------------------------- MODULE TurnExecutionProofs --------------------------
(***************************************************************************)
(* What holds of TurnExecution for every number of sessions, calls, ids,   *)
(* crashes and resumes, each invariant relative to the ones before:        *)
(*                                                                         *)
(* Journal: types, the journal of the running operation against its file,  *)
(* and the write-ahead rule, whatever ids the provider chooses.            *)
(* Effects: a call that acted is on record as applied or keeps its session *)
(* uncertain.  The danger is a result that says "none" for a call that     *)
(* acted, recorded for it or by the closing of a batch.  Closing reads     *)
(* only the running turn, so the argument needs that all that is recorded  *)
(* of a call is recorded in one turn, which is where a provider that       *)
(* repeats its ids breaks it, hence the hypothesis on ReusesIds.           *)
(* Ends: a turn ends once and last, but for a resume that read too early.  *)
(* Results: a turn that has ended has one result for each call.            *)
(* Recovery: a recovery session is told what its parent left unknown.      *)
(***************************************************************************)
EXTENDS TurnExecution, WellFoundedInduction, FiniteSetTheorems, TLAPS

-------------------------------------------------------------------------------
(* Operators on logs.                                                      *)

\* A nonempty set of bounded naturals has a maximum, so Max is one of its elements.
LEMMA MaxIsElement ==
  ASSUME NEW n \in Nat, NEW S, S \subseteq 0..n, S # {}
  PROVE  Max(S) \in S /\ \A x \in S : Max(S) >= x
<1> DEFINE below == {n - x : x \in S}
<1>0. \A x \in S : x \in Int /\ 0 <= x /\ x <= n
  OBVIOUS
<1>1. below \subseteq Nat /\ below # {}
  <2>2. \A x \in S : n - x \in Nat
    BY <1>0
  <2>3. PICK x \in S : TRUE
    OBVIOUS
  <2>4. n - x \in below
    OBVIOUS
  <2> QED
    BY <2>2, <2>4
<1>2. \E d \in below : \A e \in below : ~ (<<e, d>> \in OpToRel(<, Nat))
  BY <1>1, NatLessThanWellFounded, WFMin
<1>3. PICK d \in below : \A e \in below : ~ (e < d)
  BY <1>1, <1>2 DEF OpToRel
<1>4. \E m \in S : \A x \in S : m >= x
  <2>1. PICK m \in S : d = n - m
    OBVIOUS
  <2>2. \A x \in S : n - x \in below
    OBVIOUS
  <2>3. ASSUME NEW x \in S PROVE m >= x
    <3>1. ~ (n - x < n - m)
      BY <1>3, <2>1, <2>2
    <3> QED
      BY <1>0, <3>1
  <2> QED
    BY <2>3
<1> QED
  BY <1>4 DEF Max

\* The entries of a log are events.
LEMMA EntryType ==
  ASSUME NEW log \in Seq(Event), NEW i \in DOMAIN log
  PROVE  log[i].turn \in Nat /\ log[i].calls \subseteq Call /\ log[i] \in Event
<1>1. log[i] \in Event
  OBVIOUS
<1> QED
  BY <1>1 DEF Event

\* Calls read from a log are calls.
LEMMA CallsType ==
  ASSUME NEW log \in Seq(Event), NEW type, NEW turn
  PROVE  CallsOf(log, type) \subseteq Call /\ CallsOfTurn(log, type, turn) \subseteq Call
BY EntryType DEF CallsOf, CallsOfTurn

\* The calls left to close, and those a snapshot lists, are calls.
LEMMA PendingType ==
  ASSUME NEW log \in Seq(Event), NEW turn
  PROVE  PendingCalls(log, turn) \subseteq Call /\ UnknownOperations(log) \subseteq Call
BY CallsType DEF PendingCalls, DeclaredIn, UnknownOperations, Started

\* An event made of a type, turn, calls and effect is an event.
LEMMA NewEventType ==
  ASSUME NEW type \in EventType, NEW turn \in Nat, NEW calls \in SUBSET Call,
         NEW effect \in Effect
  PROVE  NewEvent(type, turn, calls, effect) \in Event
BY DEF NewEvent, Event

\* The last terminal event, if any, is inside the log, and the others are before it.
LEMMA LastTerminalType ==
  ASSUME NEW log \in Seq(Event)
  PROVE  /\ TerminalIndexes(log) \subseteq 1..Len(log) /\ LastTerminal(log) \in 0..Len(log)
         /\ LastTerminal(log) \in {0} \cup TerminalIndexes(log)
         /\ \A i \in TerminalIndexes(log) : i <= LastTerminal(log)
<1>1. TerminalIndexes(log) \subseteq 1..Len(log)
  BY DEF TerminalIndexes
<1>2. {0} \cup TerminalIndexes(log) \subseteq 0..Len(log) /\ Len(log) \in Nat
  BY <1>1
<1>3. /\ Max({0} \cup TerminalIndexes(log)) \in {0} \cup TerminalIndexes(log)
      /\ \A i \in TerminalIndexes(log) : Max({0} \cup TerminalIndexes(log)) >= i
  BY <1>2, MaxIsElement
<1> QED
  BY <1>1, <1>2, <1>3 DEF LastTerminal

\* Open turns are turn numbers.
LEMMA OpenTurnsType ==
  ASSUME NEW log \in Seq(Event)
  PROVE  OpenTurns(log) \subseteq Nat
<1>1. OpenTail(log) \in Seq(Event)
  BY LastTerminalType DEF OpenTail
<1> QED
  BY <1>1, EntryType DEF OpenTurns

\* A recovery snapshot is an event of its type: its safe prefix exists.
LEMMA SnapshotType ==
  ASSUME NEW log \in Seq(Event), NEW parent \in Nat
  PROVE  /\ RecoverySnapshot(parent, log) \in Event
         /\ RecoverySnapshot(parent, log).type = "recovery_snapshot"
<1> DEFINE safe == {1} \cup {i \in TerminalIndexes(log) : ~IsUncertain(SubSeq(log, 1, i))}
<1>1. safe \subseteq 0..(Len(log) + 1) /\ Len(log) + 1 \in Nat
  BY LastTerminalType
<1>2. Max(safe) \in safe
  BY <1>1, MaxIsElement
<1>3. SafeIndex(log) \in Nat
  BY <1>1, <1>2 DEF SafeIndex
<1>4. NewEvent("recovery_snapshot", NoTurn, UnknownOperations(log), "none") \in Event
  BY PendingType, NewEventType DEF EventType, NoTurn, Effect
<1> QED
  BY <1>3, <1>4 DEF RecoverySnapshot, NewEvent, Event

-------------------------------------------------------------------------------
(* Types.                                                                  *)

Closing == {"rec_replan_closed", "rec_closed", "rec_stream_closed", "rec_resume_closed"}

\* Where a failing turn goes.
FailPoints == {"rec_closed", "rec_turn_failed", "rec_stream_closed", "rec_stream_failed"}

\* TypeOK is not inductive alone: a closing record names a call that is pending.
TypeInv ==
  /\ TypeOK
  /\ pc \in Closing => PendingCalls(mem, run.turn) # {}
  /\ snapshot.type = "recovery_snapshot"

\* What a record point appends is an event.
LEMMA PendingEventType ==
  ASSUME TypeInv, pc \in RecordPoints
  PROVE  PendingEvent \in Event
<1> USE DEF TypeInv, TypeOK
<1>1. run \in Run /\ run.turn \in Nat /\ run.call \subseteq Call /\ run.batch \subseteq Call
      /\ run.effect \in Effect /\ snapshot \in Event /\ snapshot.ref \in Nat /\ mem \in Seq(Event)
  BY DEF Run, Event
<1>2. pc \in Closing => NextPending \in Call
  BY PendingType, <1>1 DEF NextPending
<1>3. pc \in Closing => ClosingEffect(mem, run.turn, NextPending) \in Effect
  BY DEF ClosingEffect, Effect
<1>4. \A type \in EventType, turn \in Nat, calls \in SUBSET Call, effect \in Effect :
        /\ NewEvent(type, turn, calls, effect) \in Event
        /\ [NewEvent(type, turn, calls, effect) EXCEPT !.ref = snapshot.ref] \in Event
  BY <1>1 DEF NewEvent, Event
<1>5. CASE pc \in Closing
  BY <1>1, <1>2, <1>3, <1>4, <1>5 DEF PendingEvent, EventType, Closing
<1>6. CASE pc \notin Closing
  BY <1>1, <1>4, <1>6 DEF PendingEvent, EventType, Closing, Effect, NoTurn
<1> QED
  BY <1>5, <1>6

\* The initial state has its types.
LEMMA TypeInit == Init => TypeInv
BY DEF Init, TypeInv, TypeOK, Point, OtherPoints, Closing, NoRun, NoSnapshot, NewEvent,
       Run, Event, EventType, Effect, Verdict, NoTurn

\* Where a record leads; a closing point is reached only while a call is pending.
LEMMA AfterRecordPoint ==
  ASSUME TypeInv, pc \in RecordPoints, NEW log
  PROVE  /\ AfterRecord(log) \in Point \ {"down"}
         /\ AfterRecord(log) \in Closing => PendingCalls(log, run.turn) # {}
BY DEF AfterRecord, AfterPermission, ClosingPoint, RecordPoints, Closing, Point, OtherPoints

\* An ended operation leaves typed, empty locals.
LEMMA EndType ==
  ASSUME TypeInv, End
  PROVE  /\ pc' = "idle" /\ mem' \in Seq(Event) /\ run' \in Run /\ snapshot' \in Event
         /\ snapshot'.type = "recovery_snapshot"
BY DEF End, NoRun, NoSnapshot, NewEvent, Run, Event, EventType, Effect, Verdict, NoTurn

\* A failing turn goes to its closing records, or straight to turn_failed.
LEMMA FailType ==
  ASSUME TypeInv, Fail \/ FailInStream
  PROVE  /\ pc' \in FailPoints
         /\ pc' \in Closing => PendingCalls(mem', run'.turn) # {}
         /\ mem' = mem /\ run' = run /\ snapshot' = snapshot
BY DEF Fail, FailInStream, ClosingPoint, Closing, FailPoints

\* Records, conflicts, cancelled and late appends keep the types.
LEMMA JournalType ==
  ASSUME TypeInv, Journal
  PROVE  TypeInv'
<1> USE DEF TypeInv, TypeOK
<1>1. CASE RecordStep
  <2>1. pc \in RecordPoints /\ PendingEvent \in Event /\ cur \in Session
    BY <1>1, PendingEventType DEF RecordStep, RecordPoints
  <2>2. disk' \in [Session -> Seq(Event)] /\ Append(mem, PendingEvent) \in Seq(Event)
    BY <1>1, <2>1 DEF RecordStep
  <2>3. UNCHANGED <<orphans, cur, turns, faults, happened>>
    BY <1>1 DEF RecordStep
  <2>4. CASE AfterRecord(Append(mem, PendingEvent)) = "idle"
    <3>1. End
      BY <1>1, <2>4 DEF RecordStep
    <3> QED
      BY <2>2, <2>3, <3>1, EndType DEF Point, OtherPoints, Closing
  <2>5. CASE AfterRecord(Append(mem, PendingEvent)) # "idle"
    <3>1. /\ pc' = AfterRecord(Append(mem, PendingEvent))
          /\ mem' = Append(mem, PendingEvent) /\ run' = run /\ snapshot' = snapshot
      BY <1>1, <2>5 DEF RecordStep
    <3>2. pc' \in Point /\ (pc' \in Closing => PendingCalls(mem', run'.turn) # {})
      BY <2>1, <3>1, AfterRecordPoint
    <3> QED
      BY <2>1, <2>2, <2>3, <3>1, <3>2
  <2> QED
    BY <2>4, <2>5
<1>2. CASE RecordConflict
  <2>1. cur \in Session /\ run.previous \in Session \cup {0}
    BY <1>2 DEF RecordConflict, RecordPoints, Run
  <2>2. UNCHANGED <<disk, orphans, turns, faults, happened>>
    BY <1>2 DEF RecordConflict
  <2>3. CASE pc \in InStream
    <3>1. Fail /\ cur' = cur
      BY <1>2, <2>3 DEF RecordConflict, InStream, InResume
    <3> QED
      BY <2>1, <2>2, <3>1, FailType DEF Point, RecordPoints, FailPoints
  <2>4. CASE pc \notin InStream
    <3>1. End /\ cur' \in Session \cup {0}
      BY <1>2, <2>1, <2>4 DEF RecordConflict
    <3> QED
      BY <2>2, <3>1, EndType DEF Point, OtherPoints, Closing
  <2> QED
    BY <2>3, <2>4
<1>3. ASSUME NEW threadRuns \in BOOLEAN, CancelRecord(threadRuns) PROVE TypeInv'
  <2>1. pc \in RecordPoints /\ PendingEvent \in Event /\ cur \in Session
    BY <1>3, PendingEventType DEF CancelRecord, RecordPoints
  <2>2. UNCHANGED <<disk, cur, turns, happened>> /\ faults' \in Nat
    BY <1>3 DEF CancelRecord, Fault
  <2>3. orphans' \subseteq [session : Session, sequence : Nat, event : Event]
    <3>1. Len(mem) + 1 \in Nat
      OBVIOUS
    <3>2. orphans' \subseteq orphans \cup
            {[session |-> cur, sequence |-> Len(mem) + 1, event |-> PendingEvent]}
      BY <1>3 DEF CancelRecord
    <3> QED
      BY <2>1, <3>1, <3>2
  <2>4. Fail \/ End
    BY <1>3 DEF CancelRecord
  <2>5. CASE Fail
    BY <2>1, <2>2, <2>3, <2>5, FailType DEF Point, RecordPoints, FailPoints
  <2>6. CASE End
    BY <2>1, <2>2, <2>3, <2>6, EndType DEF Point, OtherPoints, Closing
  <2> QED
    BY <2>4, <2>5, <2>6
<1>4. ASSUME NEW o \in orphans, OrphanLands(o) \/ OrphanDies(o) PROVE TypeInv'
  <2>1. o.session \in Session /\ o.event \in Event
    OBVIOUS
  <2>2. disk' = disk \/ disk' = [disk EXCEPT ![o.session] = Append(@, o.event)]
    BY <1>4 DEF OrphanLands, OrphanDies
  <2>3. disk' \in [Session -> Seq(Event)]
    <3>1. Append(disk[o.session], o.event) \in Seq(Event)
      BY <2>1
    <3> QED
      BY <2>1, <2>2, <3>1
  <2>4. orphans' \subseteq orphans
    BY <1>4 DEF OrphanLands, OrphanDies
  <2>5. UNCHANGED <<cur, pc, mem, run, snapshot, turns, faults, happened>>
    BY <1>4 DEF OrphanLands, OrphanDies
  <2> QED
    BY <2>3, <2>4, <2>5
<1> QED
  BY <1>1, <1>2, <1>3, <1>4 DEF Journal

\* So do the steps of TurnCoordinator.send.
LEMMA CoordinatorType ==
  ASSUME TypeInv, Coordinator
  PROVE  TypeInv'
<1> USE DEF TypeInv, TypeOK, Point, RecordPoints, OtherPoints, Closing, FailPoints
<1>1. CASE NewSession
  BY <1>1 DEF NewSession
<1>2. CASE Send
  <2>1. run' \in Run
    <3>1. turns + 1 \in Nat /\ NoRun \in Run
      BY DEF NoRun, Run, Effect, Verdict, NoTurn
    <3>2. run' = [NoRun EXCEPT !.turn = turns + 1]
      BY <1>2 DEF Send
    <3> QED
      BY <3>1, <3>2 DEF Run
  <2> QED
    BY <1>2, <2>1 DEF Send
<1>3. CASE RejectInput
  BY <1>3 DEF RejectInput
<1>4. CASE ResolveOperation
  <2>1. PICK e \in SnapshotsIn(mem) :
          \E c \in e.calls : run' = [run EXCEPT !.call = {c}] /\ snapshot' = e
    BY <1>4 DEF ResolveOperation
  <2>2. e \in Event /\ e.type = "recovery_snapshot" /\ e.calls \subseteq Call
    BY EntryType DEF SnapshotsIn
  <2>3. run' \in Run
    <3>1. PICK c \in Call : run' = [run EXCEPT !.call = {c}]
      BY <2>1, <2>2
    <3> QED
      BY <3>1 DEF Run
  <2> QED
    BY <1>4, <2>1, <2>2, <2>3 DEF ResolveOperation
<1>5. CASE PrepareKnowledge
  BY <1>5 DEF PrepareKnowledge
<1>6. CASE EnterLoop
  <2>1. run' \in Run
    BY <1>6, CallsType DEF EnterLoop, Declared, Run
  <2>2. snapshot' \in Event /\ snapshot'.type = "recovery_snapshot"
    BY <1>6 DEF EnterLoop, NoSnapshot, NewEvent, Event, EventType, Effect, NoTurn
  <2> QED
    BY <1>6, <2>1, <2>2 DEF EnterLoop
<1> QED
  BY <1>1, <1>2, <1>3, <1>4, <1>5, <1>6 DEF Coordinator

\* So do the steps of AgentLoop.run up to the tool batch.
LEMMA LoopType ==
  ASSUME TypeInv, Loop
  PROVE  TypeInv'
<1> USE DEF TypeInv, TypeOK, Point, RecordPoints, OtherPoints, Closing, FailPoints
<1>1. CASE StopAtTop
  BY <1>1, FailType DEF StopAtTop
<1>2. CASE PrepareRequest
  <2>1. run' = [run EXCEPT !.modelCalls = @ + 1]
    BY <1>2 DEF PrepareRequest
  <2>2. run.modelCalls + 1 \in Nat
    BY DEF Run
  <2>3. run' \in Run
    BY <2>1, <2>2 DEF Run
  <2> QED
    BY <1>2, <2>3 DEF PrepareRequest
<1>3. CASE ReportUsage
  BY <1>3 DEF ReportUsage
<1>4. CASE StreamFails
  BY <1>4, FailType DEF StreamFails
<1>5. CASE RetryContext
  BY <1>5 DEF RetryContext, Run
<1>6. CASE RepairCitations
  BY <1>6 DEF RepairCitations, Run
<1>7. CASE Answer
  BY <1>7 DEF Answer, Run
<1>8. ASSUME NEW calls \in SUBSET Call, RequestTools(calls) PROVE TypeInv'
  BY <1>8 DEF RequestTools, Run
<1> QED
  BY <1>1, <1>2, <1>3, <1>4, <1>5, <1>6, <1>7, <1>8 DEF Loop

\* So do the tool batch and ToolRuntime.execute.
LEMMA ToolsType ==
  ASSUME TypeInv, Tools
  PROVE  TypeInv'
<1> USE DEF TypeInv, TypeOK, Point, RecordPoints, OtherPoints, Closing, FailPoints
<1>1. CASE BatchDone
  BY <1>1 DEF BatchDone, Run, Verdict, Effect
<1>2. CASE StopBatch
  BY <1>2, FailType DEF StopBatch
<1>3. ASSUME NEW c \in Call, NextCall(c) PROVE TypeInv'
  BY <1>3 DEF NextCall, Run, Verdict, Effect
<1>4. CASE RefuseCall
  BY <1>4 DEF RefuseCall, Run, Verdict
<1>5. CASE ReplanCall
  BY <1>5 DEF ReplanCall, Run, Verdict
<1>6. ASSUME NEW verdict \in {"allow", "deny"}, Decide(verdict) PROVE TypeInv'
  BY <1>6 DEF Decide, Run, Verdict
<1>7. CASE HandlerActs
  <2>1. happened' \in [Session -> [Call -> Nat]]
    BY <1>7 DEF HandlerActs
  <2> QED
    BY <1>7, <2>1 DEF HandlerActs
<1>8. ASSUME NEW stop \in BOOLEAN, NEW failed \in BOOLEAN, HandlerReturns(stop, failed)
      PROVE TypeInv'
  BY <1>8 DEF HandlerReturns, Run, Effect
<1>9. ASSUME NEW stop \in BOOLEAN, HandlerLost(stop) PROVE TypeInv'
  BY <1>9 DEF HandlerLost, Run, Effect
<1>10. CASE ReportResult
  <2>1. Cardinality(run.batch) \in Nat
    BY CallAssumption, FS_Subset, FS_CardinalityType DEF Run
  <2>2. /\ run.toolCalls + 1 + (IF run.verdict = "replan" THEN Cardinality(run.batch) ELSE 0) \in Nat
        /\ (IF run.failed THEN run.failures + 1 ELSE run.failures) \in Nat
        /\ (IF run.verdict = "replan" THEN {} ELSE run.batch) \in SUBSET Call
    BY <2>1 DEF Run
  <2>3. run' \in Run
    BY <1>10, <2>2 DEF ReportResult, Run
  <2> QED
    BY <1>10, <2>3 DEF ReportResult
<1> QED
  BY <1>1, <1>2, <1>3, <1>4, <1>5, <1>6, <1>7, <1>8, <1>9, <1>10 DEF Tools

\* So do cancellation, crash, restart and resume.
LEMMA RecoveryType ==
  ASSUME TypeInv, Recovery
  PROVE  TypeInv'
<1> USE DEF TypeInv, TypeOK, Point, RecordPoints, OtherPoints, Closing, FailPoints
<1>1. CASE CancelTask
  <2>1. Fail \/ End
    BY <1>1 DEF CancelTask
  <2> QED
    BY <1>1, <2>1, FailType, EndType DEF CancelTask, Fault
<1>2. CASE Crash
  <2>1. run' \in Run /\ snapshot' \in Event /\ snapshot'.type = "recovery_snapshot"
    BY <1>2 DEF Crash, NoRun, NoSnapshot, NewEvent, Run, Event, EventType, Effect, Verdict, NoTurn
  <2> QED
    BY <1>2, <2>1 DEF Crash, Fault
<1>3. CASE Restart
  BY <1>3 DEF Restart
<1>4. ASSUME NEW s \in Session, ResumeClean(s) PROVE TypeInv'
  BY <1>4 DEF ResumeClean
<1>5. ASSUME NEW s \in Session, ResumeInterrupted(s) PROVE TypeInv'
  <2>1. PICK t \in OpenTurns(disk[s]) : run' = [NoRun EXCEPT !.turn = t, !.previous = cur]
    BY <1>5 DEF ResumeInterrupted
  <2>2. run' \in Run
    <3>1. t \in Nat
      BY <2>1, OpenTurnsType
    <3> QED
      BY <2>1, <3>1 DEF NoRun, Run, Effect, Verdict
  <2> QED
    BY <1>5, <2>2 DEF ResumeInterrupted
<1>6. ASSUME NEW s \in Session, ResumeUncertain(s) PROVE TypeInv'
  <2>1. snapshot' \in Event /\ snapshot'.type = "recovery_snapshot"
    BY <1>6, SnapshotType, BoundsAssumption DEF ResumeUncertain, Session
  <2>2. run' \in Run
    BY <1>6 DEF ResumeUncertain, NoRun, Run, Effect, Verdict, NoTurn
  <2> QED
    BY <1>6, <2>1, <2>2 DEF ResumeUncertain
<1>7. CASE ResumeReopens
  <2>1. pc' \in Closing => PendingCalls(mem', run'.turn) # {}
    BY <1>7 DEF ResumeReopens, ClosingPoint
  <2>2. pc' \in {"rec_resume_closed", "rec_resume_failed"} /\ cur \in Session
    BY <1>7 DEF ResumeReopens, ClosingPoint
  <2> QED
    BY <1>7, <2>1, <2>2 DEF ResumeReopens
<1> QED
  BY <1>1, <1>2, <1>3, <1>4, <1>5, <1>6, <1>7 DEF Recovery

\* Every step keeps the types.
LEMMA TypeStep ==
  ASSUME TypeInv, [Next]_vars
  PROVE  TypeInv'
<1>1. CASE UNCHANGED vars
  BY <1>1 DEF vars, TypeInv, TypeOK
<1> QED
  BY <1>1, JournalType, CoordinatorType, LoopType, ToolsType, RecoveryType DEF Next

\* Every variable keeps its type, whatever cancellations and crashes occur.
THEOREM TypeCorrect == Spec => []TypeOK
<1>1. TypeInv /\ [Next]_vars => TypeInv'
  BY TypeStep
<1>2. TypeInv => TypeOK
  BY DEF TypeInv
<1> QED
  BY <1>1, <1>2, TypeInit, PTL DEF Spec

-------------------------------------------------------------------------------
(***************************************************************************)
(* The journal of the running operation against the file it writes.  A     *)
(* cancelled append may still land, so the file may be ahead, but never by *)
(* more than that one line, and the next record then finds it out.         *)
(***************************************************************************)

InOperation == pc \notin {"idle", "down"}

\* The journal is a prefix of its file, which no append can overtake by more
\* than one line; while a handler runs, no line can come in between.
JournalInv ==
  /\ ~InOperation => mem = <<>>
  /\ InOperation =>
       /\ Len(mem) <= Len(disk[cur])
       /\ Len(disk[cur]) <= Len(mem) + 1
       /\ \A i \in 1..Len(mem) : mem[i] = disk[cur][i]
       /\ \A o \in orphans : o.session = cur => o.sequence <= Len(mem) + 1
  /\ \A o \in orphans : o.sequence <= Len(disk[o.session]) + 1
  /\ pc \in {"handler", "acted"} =>
       /\ Len(disk[cur]) = Len(mem)
       /\ \A o \in orphans : o.session = cur => o.sequence <= Len(mem)

-------------------------------------------------------------------------------
(* The journal and its file.                                               *)

\* A running operation has a session.
LEMMA InOperationSession ==
  ASSUME TypeInv, InOperation
  PROVE  cur \in Session /\ disk[cur] \in Seq(Event) /\ mem \in Seq(Event)
BY DEF TypeInv, TypeOK, InOperation

\* Steps that touch neither the logs nor the journal, inside an operation.
LEMMA QuietJournal ==
  ASSUME JournalInv, InOperation, InOperation', UNCHANGED <<disk, orphans, cur, mem>>,
         pc' \in {"handler", "acted"} => pc \in {"handler", "acted"}
  PROVE  JournalInv'
BY DEF JournalInv, InOperation

\* A failing turn keeps its journal.
LEMMA FailJournal ==
  ASSUME TypeInv, JournalInv, InOperation, Fail \/ FailInStream, UNCHANGED <<disk, orphans, cur>>
  PROVE  JournalInv'
BY FailType, QuietJournal DEF InOperation, FailPoints

\* An ended operation has none.
LEMMA EndJournal ==
  ASSUME End, \A o \in orphans' : o.sequence <= Len(disk'[o.session]) + 1
  PROVE  JournalInv'
BY DEF End, JournalInv, InOperation

\* A record leads to an await point, never into the middle of a handler.
LEMMA AfterRecordIsNotActed ==
  ASSUME NEW log, pc \in RecordPoints
  PROVE  AfterRecord(log) \notin {"acted", "down", "resume_read"}
BY DEF AfterRecord, AfterPermission, ClosingPoint, RecordPoints

\* A record that finds the file where it expects it makes both one longer.
LEMMA RecordJournal ==
  ASSUME TypeInv, JournalInv, RecordStep
  PROVE  JournalInv'
<1>1. pc \in RecordPoints /\ InOperation /\ cur \in Session /\ PendingEvent \in Event
  BY PendingEventType DEF RecordStep, RecordPoints, InOperation, TypeInv, TypeOK
<1>2. disk[cur] \in Seq(Event) /\ mem \in Seq(Event) /\ Len(mem) = Len(disk[cur])
  BY <1>1, InOperationSession DEF RecordStep, NextInFile
<1>3. /\ disk'[cur] = Append(disk[cur], PendingEvent)
      /\ \A s \in Session \ {cur} : disk'[s] = disk[s]
      /\ UNCHANGED <<orphans, cur>>
  BY <1>1 DEF RecordStep, TypeInv, TypeOK
<1>4. /\ Len(disk'[cur]) = Len(mem) + 1
      /\ \A i \in 1..Len(mem) : disk'[cur][i] = disk[cur][i]
      /\ disk'[cur][Len(mem) + 1] = PendingEvent
  BY <1>1, <1>2, <1>3
<1>5. \A o \in orphans : /\ o.sequence \in Nat /\ o.session \in Session
                         /\ o.session = cur => o.sequence <= Len(mem) + 1
                         /\ o.sequence <= Len(disk'[o.session]) + 1
  BY <1>1, <1>2, <1>3, <1>4 DEF JournalInv, TypeInv, TypeOK
<1>6. CASE AfterRecord(Append(mem, PendingEvent)) = "idle"
  <2>1. End
    BY <1>6 DEF RecordStep
  <2>2. \A o \in orphans' : o.sequence <= Len(disk'[o.session]) + 1
    BY <1>3, <1>5
  <2> QED
    BY <2>1, <2>2, EndJournal
<1>7. CASE AfterRecord(Append(mem, PendingEvent)) # "idle"
  <2>1. mem' = Append(mem, PendingEvent) /\ pc' = AfterRecord(Append(mem, PendingEvent))
    BY <1>7 DEF RecordStep
  <2>2. InOperation'
    BY <1>1, <1>7, <2>1, AfterRecordIsNotActed DEF InOperation
  <2>3. /\ Len(mem') = Len(mem) + 1
        /\ \A i \in 1..Len(mem) : mem'[i] = mem[i]
        /\ mem'[Len(mem) + 1] = PendingEvent
    BY <1>1, <1>2, <2>1
  <2>4. \A i \in 1..Len(mem') : mem'[i] = disk'[cur][i]
    BY <1>1, <1>2, <1>4, <2>3 DEF JournalInv
  <2>5. \A o \in orphans' : /\ o.sequence <= Len(disk'[o.session]) + 1
                            /\ o.session = cur' => o.sequence <= Len(mem')
    BY <1>3, <1>5, <2>3
  <2>6. Len(disk'[cur']) = Len(mem') /\ Len(mem') \in Nat
    BY <1>2, <1>3, <1>4, <2>3
  <2>7. \A o \in orphans' : o.session = cur' => o.sequence <= Len(mem') + 1
    BY <1>3, <1>5, <2>5, <2>6
  <2> QED
    BY <1>3, <2>2, <2>4, <2>5, <2>6, <2>7 DEF JournalInv
<1> QED
  BY <1>6, <1>7

\* A cancelled record may leave an append behind that is one line ahead at most.
LEMMA CancelJournal ==
  ASSUME TypeInv, JournalInv, NEW threadRuns \in BOOLEAN, CancelRecord(threadRuns)
  PROVE  JournalInv'
<1>1. pc \in RecordPoints /\ InOperation /\ UNCHANGED <<disk, cur>>
  BY DEF CancelRecord, RecordPoints, InOperation
<1>2. cur \in Session /\ disk[cur] \in Seq(Event) /\ mem \in Seq(Event)
      /\ Len(mem) <= Len(disk[cur])
  BY <1>1, InOperationSession DEF JournalInv
<1>3. orphans' \subseteq orphans \cup
        {[session |-> cur, sequence |-> Len(mem) + 1, event |-> PendingEvent]}
  BY DEF CancelRecord
<1>4. \A o \in orphans' : /\ o.sequence <= Len(disk[o.session]) + 1
                          /\ o.session = cur => o.sequence <= Len(mem) + 1
  <2>1. Len(mem) + 1 <= Len(disk[cur]) + 1 /\ Len(mem) + 1 <= Len(mem) + 1
    BY <1>2
  <2> QED
    BY <1>1, <1>3, <2>1 DEF JournalInv
<1>5. CASE Fail
  <2>1. mem' = mem /\ InOperation' /\ pc' \notin {"handler", "acted"}
    BY <1>5, FailType DEF InOperation, FailPoints
  <2>2. /\ Len(mem) <= Len(disk[cur]) /\ Len(disk[cur]) <= Len(mem) + 1
        /\ \A i \in 1..Len(mem) : mem[i] = disk[cur][i]
    BY <1>1 DEF JournalInv
  <2> QED
    BY <1>1, <1>4, <2>1, <2>2 DEF JournalInv
<1>6. CASE End
  <2>1. \A o \in orphans' : o.sequence <= Len(disk'[o.session]) + 1
    BY <1>1, <1>4
  <2> QED
    BY <1>6, <2>1, EndJournal
<1> QED
  BY <1>5, <1>6 DEF CancelRecord

\* A late append lands at the end of the file, or nowhere.
LEMMA OrphanJournal ==
  ASSUME TypeInv, JournalInv, NEW o \in orphans, OrphanLands(o) \/ OrphanDies(o)
  PROVE  JournalInv'
<1>1. UNCHANGED <<cur, pc, mem>> /\ orphans' \subseteq orphans
  BY DEF OrphanLands, OrphanDies
<1>2. CASE OrphanDies(o)
  BY <1>1, <1>2 DEF OrphanDies, JournalInv, InOperation
<1>3. CASE OrphanLands(o)
  <2>1. /\ o.session \in Session /\ o.sequence \in Nat /\ o.event \in Event
        /\ disk[o.session] \in Seq(Event)
    BY DEF TypeInv, TypeOK
  <2>2. /\ disk'[o.session] = Append(disk[o.session], o.event)
        /\ \A s \in Session \ {o.session} : disk'[s] = disk[s]
        /\ o.sequence = Len(disk[o.session]) + 1
    BY <1>3, <2>1 DEF OrphanLands, TypeInv, TypeOK
  <2>3. /\ Len(disk'[o.session]) = Len(disk[o.session]) + 1
        /\ \A i \in 1..Len(disk[o.session]) : disk'[o.session][i] = disk[o.session][i]
    BY <2>1, <2>2
  <2>4. \A q \in orphans' : q.sequence <= Len(disk'[q.session]) + 1
    <3> SUFFICES ASSUME NEW q \in orphans' PROVE q.sequence <= Len(disk'[q.session]) + 1
      OBVIOUS
    <3>1. q \in orphans /\ q.session \in Session /\ q.sequence \in Nat
      BY <1>1 DEF TypeInv, TypeOK
    <3>2. q.sequence <= Len(disk[q.session]) + 1
      BY <3>1 DEF JournalInv
    <3>3. CASE q.session = o.session
      BY <2>1, <2>3, <3>1, <3>2, <3>3
    <3>4. CASE q.session # o.session
      BY <2>2, <3>1, <3>2, <3>4
    <3> QED
      BY <3>3, <3>4
  <2>5. CASE InOperation /\ o.session = cur
    <3>1. mem \in Seq(Event) /\ Len(disk[cur]) = Len(mem)
      BY <2>1, <2>2, <2>5, InOperationSession DEF JournalInv
    <3>2. pc \notin {"handler", "acted"}
      BY <2>1, <2>2, <2>5, <3>1 DEF JournalInv
    <3> QED
      BY <1>1, <2>1, <2>3, <2>4, <2>5, <3>1, <3>2 DEF JournalInv, InOperation
  <2>6. CASE InOperation /\ o.session # cur
    <3>1. disk'[cur] = disk[cur]
      BY <2>2, <2>6, InOperationSession
    <3> QED
      BY <1>1, <2>4, <2>6, <3>1 DEF JournalInv, InOperation
  <2>7. CASE ~InOperation
    BY <1>1, <2>4, <2>7 DEF JournalInv, InOperation
  <2> QED
    BY <2>5, <2>6, <2>7
<1> QED
  BY <1>2, <1>3

\* A new operation opens its journal on the file as it is.
LEMMA OpenJournal ==
  ASSUME TypeInv, JournalInv, InOperation', pc' \notin {"handler", "acted"},
         cur' \in Session, mem' = disk[cur'], UNCHANGED <<disk, orphans>>
  PROVE  JournalInv'
<1>1. mem' \in Seq(Event)
  BY DEF TypeInv, TypeOK
<1> QED
  BY <1>1 DEF JournalInv

\* Every step keeps journal and file together.
LEMMA JournalStep ==
  ASSUME TypeInv, JournalInv, [Next]_vars
  PROVE  JournalInv'
<1> USE DEF InOperation
<1>1. CASE Journal
  <2>1. CASE RecordConflict
    <3>1. InOperation /\ UNCHANGED <<disk, orphans>>
      BY <2>1 DEF RecordConflict, RecordPoints
    <3>2. CASE pc \in InStream
      <4>1. Fail /\ cur' = cur
        BY <2>1, <3>2 DEF RecordConflict, InStream, InResume
      <4> QED
        BY <3>1, <4>1, FailJournal
    <3>3. CASE pc \notin InStream
      <4>1. End
        BY <2>1, <3>3 DEF RecordConflict
      <4> QED
        BY <3>1, <4>1, EndJournal DEF JournalInv
    <3> QED
      BY <3>2, <3>3
  <2> QED
    BY <1>1, <2>1, RecordJournal, CancelJournal, OrphanJournal DEF Journal
<1>2. CASE Coordinator
  <2>1. CASE NewSession
    BY <2>1 DEF NewSession, JournalInv
  <2>2. CASE Send
    BY <2>2, OpenJournal DEF Send, TypeInv, TypeOK
  <2>3. CASE RejectInput \/ ResolveOperation \/ PrepareKnowledge \/ EnterLoop
    BY <2>3, QuietJournal DEF RejectInput, ResolveOperation, PrepareKnowledge, EnterLoop
  <2> QED
    BY <1>2, <2>1, <2>2, <2>3 DEF Coordinator
<1>3. CASE Loop
  <2>1. CASE StopAtTop \/ StreamFails
    BY <2>1, FailJournal DEF StopAtTop, StreamFails
  <2>2. CASE PrepareRequest \/ ReportUsage \/ RetryContext \/ RepairCitations \/ Answer
    BY <2>2, QuietJournal DEF PrepareRequest, ReportUsage, RetryContext, RepairCitations, Answer
  <2>3. ASSUME NEW calls, RequestTools(calls) PROVE JournalInv'
    BY <2>3, QuietJournal DEF RequestTools
  <2> QED
    BY <1>3, <2>1, <2>2, <2>3 DEF Loop
<1>4. CASE Tools
  <2>1. CASE StopBatch
    BY <2>1, FailJournal DEF StopBatch
  <2>2. CASE BatchDone \/ RefuseCall \/ ReplanCall \/ HandlerActs \/ ReportResult
    BY <2>2, QuietJournal DEF BatchDone, RefuseCall, ReplanCall, HandlerActs, ReportResult
  <2>3. ASSUME NEW c, NextCall(c) PROVE JournalInv'
    BY <2>3, QuietJournal DEF NextCall
  <2>4. ASSUME NEW verdict, Decide(verdict) PROVE JournalInv'
    BY <2>4, QuietJournal DEF Decide
  <2>5. ASSUME NEW stop, NEW failed, HandlerReturns(stop, failed) PROVE JournalInv'
    BY <2>5, QuietJournal DEF HandlerReturns
  <2>6. ASSUME NEW stop, HandlerLost(stop) PROVE JournalInv'
    BY <2>6, QuietJournal DEF HandlerLost
  <2> QED
    BY <1>4, <2>1, <2>2, <2>3, <2>4, <2>5, <2>6 DEF Tools
<1>5. CASE Recovery
  <2>1. CASE CancelTask
    <3>1. InOperation /\ UNCHANGED <<disk, orphans, cur>> /\ (Fail \/ End)
      BY <2>1 DEF CancelTask
    <3> QED
      BY <3>1, FailJournal, EndJournal DEF JournalInv
  <2>2. CASE Crash \/ Restart
    BY <2>2 DEF Crash, Restart, JournalInv
  <2>3. ASSUME NEW s \in Session, ResumeClean(s) PROVE JournalInv'
    BY <2>3 DEF ResumeClean, JournalInv
  <2>4. ASSUME NEW s \in Session, ResumeInterrupted(s) PROVE JournalInv'
    BY <2>4, OpenJournal DEF ResumeInterrupted
  <2>5. ASSUME NEW s \in Session, ResumeUncertain(s) PROVE JournalInv'
    <3>1. cur' \in Session /\ disk[cur'] = <<>>
      BY <2>5 DEF ResumeUncertain, Fresh, Used
    <3>2. mem' = <<>>
      BY <2>5 DEF ResumeUncertain, JournalInv
    <3> QED
      BY <2>5, <3>1, <3>2, OpenJournal DEF ResumeUncertain
  <2>6. CASE ResumeReopens
    BY <2>6, OpenJournal DEF ResumeReopens, ClosingPoint, TypeInv, TypeOK
  <2> QED
    BY <1>5, <2>1, <2>2, <2>3, <2>4, <2>5, <2>6 DEF Recovery
<1>6. CASE UNCHANGED vars
  BY <1>6 DEF vars, JournalInv
<1> QED
  BY <1>1, <1>2, <1>3, <1>4, <1>5, <1>6 DEF Next

\* The journal in memory stays a prefix of the file and is at most one line behind it.
THEOREM JournalIsPrefix == Spec => []JournalPrefix
<1>1. Init => TypeInv /\ JournalInv
  BY TypeInit DEF Init, JournalInv, InOperation
<1>2. TypeInv /\ JournalInv /\ [Next]_vars => (TypeInv /\ JournalInv)'
  BY JournalStep, TypeStep
<1>3. TypeInv /\ JournalInv => JournalPrefix
  <2> SUFFICES ASSUME TypeInv, JournalInv, InOperation
               PROVE  mem = SubSeq(disk[cur], 1, Len(mem))
    BY DEF JournalPrefix, JournalInv, InOperation
  <2>1. disk[cur] \in Seq(Event) /\ mem \in Seq(Event) /\ Len(mem) <= Len(disk[cur])
    BY InOperationSession DEF JournalInv
  <2>2. SubSeq(disk[cur], 1, Len(mem)) \in Seq(Event)
        /\ Len(SubSeq(disk[cur], 1, Len(mem))) = Len(mem)
    BY <2>1
  <2>3. \A i \in 1..Len(mem) : SubSeq(disk[cur], 1, Len(mem))[i] = mem[i]
    BY <2>1 DEF JournalInv
  <2> QED
    BY <2>1, <2>2, <2>3
<1> QED
  BY <1>1, <1>2, <1>3, PTL DEF Spec

-------------------------------------------------------------------------------
(***************************************************************************)
(* The write-ahead rule: a handler acts on a call only once its            *)
(* execution_started is durable, and a call that was started is never      *)
(* chosen again, whatever was cancelled, crashed or resumed before.  Both  *)
(* rest on the ids the loop has seen: everything started in the journal is *)
(* among them, because starts answer declarations and the loop enters with *)
(* every declared id.                                                      *)
(***************************************************************************)

BeforeStart == {"rec_requested", "checks", "rec_permission", "rec_started"}

ToolPoints ==
  BeforeStart \cup {"next_call", "handler", "acted", "result", "rec_completed"}

LoopPoints ==
  ToolPoints \cup {"top", "rec_request", "stream", "rec_usage", "streamed",
                   "rec_assistant", "rec_replan_closed"}

\* Calls are declared before they are started or answered.
Grounded(log) == Started(log) \cup Completed(log) \subseteq Declared(log)

\* An event that answers or starts calls finds them declared in its turn.
EventFits(log, e) ==
  e.type \in {"execution_started", "execution_completed"} =>
    e.calls \subseteq DeclaredIn(log, e.turn)

\* An orphan can still land.
Live(o) == o.sequence = Len(disk[o.session]) + 1

LogInv ==
  /\ \A s \in Session : Grounded(disk[s])
  /\ InOperation => Grounded(mem)
  /\ \A o \in orphans : Live(o) => EventFits(disk[o.session], o.event)

\* The world against the logs.
ActedInv ==
  /\ WriteAhead
  /\ AtMostOnce
  /\ InOperation => \A c \in Call : happened[cur][c] > 0 => c \in Started(mem)

\* The calls of the running batch against the journal.
BatchInv ==
  /\ pc \in LoopPoints => Started(mem) \subseteq run.seen
  /\ pc \in ToolPoints \cup {"rec_assistant"} => run.batch \cap run.seen = {}
  /\ pc \in ToolPoints => run.batch \subseteq DeclaredIn(mem, run.turn)
  /\ pc \in ToolPoints \ {"next_call"} =>
       /\ run.call \subseteq run.seen
       /\ \E c \in DeclaredIn(mem, run.turn) : run.call = {c}
  /\ pc \in BeforeStart => run.call \cap Started(mem) = {}
  /\ pc \in {"handler", "acted"} => run.call \subseteq Started(mem)
  /\ pc = "handler" => \A c \in run.call : happened[cur][c] = 0

StartInv == LogInv /\ ActedInv /\ BatchInv

-------------------------------------------------------------------------------
(* Logs and appended events.                                               *)

\* A call is in what a log says of a type when some entry of it says so.
LEMMA InCalls ==
  ASSUME NEW log \in Seq(Event), NEW type, NEW c
  PROVE  c \in CallsOf(log, type) <=>
           \E i \in 1..Len(log) : log[i].type = type /\ c \in log[i].calls
BY DEF CallsOf

\* The same for one turn.
LEMMA InTurn ==
  ASSUME NEW log \in Seq(Event), NEW type, NEW turn, NEW c
  PROVE  c \in CallsOfTurn(log, type, turn) <=>
           \E i \in 1..Len(log) : /\ log[i].type = type
                                  /\ log[i].turn = turn
                                  /\ c \in log[i].calls
BY DEF CallsOfTurn

\* An appended event adds its own calls and nothing else.
LEMMA AppendCalls ==
  ASSUME NEW log \in Seq(Event), NEW e \in Event, NEW type, NEW turn
  PROVE  /\ CallsOf(Append(log, e), type) =
              CallsOf(log, type) \cup (IF e.type = type THEN e.calls ELSE {})
         /\ CallsOfTurn(Append(log, e), type, turn) =
              CallsOfTurn(log, type, turn) \cup
                (IF e.type = type /\ e.turn = turn THEN e.calls ELSE {})
<1> DEFINE new == Append(log, e)
<1>1. /\ new \in Seq(Event) /\ Len(new) = Len(log) + 1 /\ Len(log) \in Nat
      /\ \A i \in 1..Len(log) : new[i] = log[i]
      /\ new[Len(log) + 1] = e
  OBVIOUS
<1> HIDE DEF new
<1>2. \A c : c \in CallsOf(new, type) <=>
               c \in CallsOf(log, type) \/ (e.type = type /\ c \in e.calls)
  <2> TAKE c
  <2>1. (\E i \in 1..Len(new) : new[i].type = type /\ c \in new[i].calls) <=>
          \/ \E i \in 1..Len(log) : log[i].type = type /\ c \in log[i].calls
          \/ e.type = type /\ c \in e.calls
    BY <1>1
  <2>2. c \in CallsOf(new, type) <=>
          \E i \in 1..Len(new) : new[i].type = type /\ c \in new[i].calls
    BY <1>1, InCalls
  <2>3. c \in CallsOf(log, type) <=>
          \E i \in 1..Len(log) : log[i].type = type /\ c \in log[i].calls
    BY InCalls
  <2> QED
    BY <2>1, <2>2, <2>3
<1>3. \A c : c \in CallsOfTurn(new, type, turn) <=>
               \/ c \in CallsOfTurn(log, type, turn)
               \/ e.type = type /\ e.turn = turn /\ c \in e.calls
  <2> TAKE c
  <2>1. (\E i \in 1..Len(new) : /\ new[i].type = type
                                /\ new[i].turn = turn
                                /\ c \in new[i].calls) <=>
          \/ \E i \in 1..Len(log) : /\ log[i].type = type
                                    /\ log[i].turn = turn
                                    /\ c \in log[i].calls
          \/ e.type = type /\ e.turn = turn /\ c \in e.calls
    BY <1>1
  <2> QED
    BY <1>1, <2>1, InTurn
<1> QED
  BY <1>2, <1>3 DEF new

\* What a turn says of its calls, the log says of them.
LEMMA TurnCalls ==
  ASSUME NEW log \in Seq(Event), NEW type, NEW turn
  PROVE  CallsOfTurn(log, type, turn) \subseteq CallsOf(log, type)
BY InCalls, InTurn

\* An event that fits a grounded log leaves it grounded, and takes nothing back.
LEMMA AppendGrounded ==
  ASSUME NEW log \in Seq(Event), NEW e \in Event, Grounded(log), EventFits(log, e)
  PROVE  /\ Grounded(Append(log, e))
         /\ Started(log) \subseteq Started(Append(log, e))
         /\ Declared(log) \subseteq Declared(Append(log, e))
<1>1. DeclaredIn(log, e.turn) \subseteq Declared(log)
  BY TurnCalls DEF DeclaredIn, Declared
<1>2. /\ Declared(Append(log, e)) = Declared(log) \cup
           (IF e.type = "assistant_message" THEN e.calls ELSE {})
      /\ Started(Append(log, e)) = Started(log) \cup
           (IF e.type = "execution_started" THEN e.calls ELSE {})
      /\ Completed(Append(log, e)) = Completed(log) \cup
           (IF e.type = "execution_completed" THEN e.calls ELSE {})
  BY AppendCalls DEF Declared, Started, Completed
<1> QED
  BY <1>1, <1>2 DEF Grounded, EventFits

\* At a record that finds the file where it expects it, journal and file are equal.
LEMMA SameLog ==
  ASSUME TypeInv, JournalInv, InOperation, Len(mem) = Len(disk[cur])
  PROVE  mem = disk[cur]
<1>1. mem \in Seq(Event) /\ disk[cur] \in Seq(Event)
  BY InOperationSession
<1>2. \A i \in 1..Len(mem) : mem[i] = disk[cur][i]
  BY DEF JournalInv
<1> QED
  BY <1>1, <1>2

-------------------------------------------------------------------------------
(* The record in progress.                                                 *)

\* What the record points write about calls.
LEMMA PendingEventIs ==
  ASSUME TypeInv, pc \in RecordPoints
  PROVE  /\ PendingEvent.type = "execution_started" <=> pc = "rec_started"
         /\ PendingEvent.type = "assistant_message" <=> pc = "rec_assistant"
         /\ PendingEvent.type = "execution_completed" <=>
              pc \in Closing \cup {"rec_completed"}
         /\ pc \in Closing \cup {"rec_completed", "rec_started", "rec_assistant"} =>
              PendingEvent.turn = run.turn
         /\ pc \in {"rec_started", "rec_completed"} => PendingEvent.calls = run.call
         /\ pc = "rec_assistant" => PendingEvent.calls = run.batch
         /\ pc \in Closing => /\ PendingEvent.calls = {NextPending}
                              /\ PendingEvent.effect =
                                   ClosingEffect(mem, run.turn, NextPending)
         /\ pc = "rec_completed" => PendingEvent.effect = run.effect
<1>1. CASE pc \in Closing
  BY <1>1 DEF PendingEvent, NewEvent, Closing
<1>2. CASE pc = "rec_snapshot"
  BY <1>2 DEF PendingEvent, NewEvent, Closing, TypeInv
<1>3. CASE pc \in {"rec_started", "rec_assistant", "rec_completed"}
  BY <1>3 DEF PendingEvent, NewEvent, Closing
<1>4. CASE pc \notin Closing \cup {"rec_snapshot", "rec_started", "rec_assistant", "rec_completed"}
  BY <1>4 DEF PendingEvent, NewEvent, Closing, RecordPoints
<1> QED
  BY <1>1, <1>2, <1>3, <1>4

\* The call chosen for closing is pending.
LEMMA NextPendingIs ==
  ASSUME TypeInv, pc \in Closing
  PROVE  NextPending \in DeclaredIn(mem, run.turn)
<1>1. PendingCalls(mem, run.turn) # {}
  BY DEF TypeInv
<1>2. NextPending \in PendingCalls(mem, run.turn)
  BY <1>1 DEF NextPending
<1> QED
  BY <1>2 DEF PendingCalls

\* What a record point appends finds its calls declared.
LEMMA PendingFits ==
  ASSUME TypeInv, BatchInv, pc \in RecordPoints
  PROVE  EventFits(mem, PendingEvent)
<1>1. CASE pc \in Closing
  BY <1>1, PendingEventIs, NextPendingIs DEF EventFits
<1>2. CASE pc \in {"rec_started", "rec_completed"}
  BY <1>2, PendingEventIs DEF EventFits, BatchInv, ToolPoints, BeforeStart
<1>3. CASE pc \notin Closing \cup {"rec_started", "rec_completed"}
  BY <1>3, PendingEventIs DEF EventFits
<1> QED
  BY <1>1, <1>2, <1>3

\* Where a record leads inside the loop, and from where.
LEMMA AfterRecordIs ==
  ASSUME pc \in RecordPoints, NEW log, NEW next, next = AfterRecord(log)
  PROVE  /\ next \in LoopPoints => pc \in LoopPoints
         /\ next = "next_call" => pc \in {"rec_assistant", "rec_completed"}
         /\ next = "handler" => pc = "rec_started"
         /\ next = "checks" => pc = "rec_requested"
         /\ next \in {"rec_started", "result"} => pc = "rec_permission"
         /\ next \notin {"rec_requested", "rec_permission", "acted", "rec_completed",
                         "rec_assistant", "down"}
BY DEF AfterRecord, AfterPermission, ClosingPoint, RecordPoints, LoopPoints, ToolPoints,
       BeforeStart

-------------------------------------------------------------------------------
(* Preservation of the logs and of the world.                              *)

\* A step that writes no log, and at most opens a journal on a file.
LEMMA QuietLogs ==
  ASSUME TypeInv, LogInv, ActedInv, UNCHANGED <<disk, happened>>, orphans' \subseteq orphans,
         InOperation' => \/ InOperation /\ UNCHANGED <<cur, mem>>
                         \/ cur' \in Session /\ mem' = disk[cur']
  PROVE  LogInv' /\ ActedInv'
<1>1. \A s \in Session : Grounded(disk'[s])
  BY DEF LogInv
<1>2. InOperation' => Grounded(mem')
  BY DEF LogInv
<1>3. \A o \in orphans' : Live(o)' => EventFits(disk'[o.session], o.event)
  BY DEF LogInv, Live
<1>4. InOperation' => \A c \in Call : happened'[cur'][c] > 0 => c \in Started(mem')
  BY DEF ActedInv, WriteAhead
<1>5. WriteAhead' /\ AtMostOnce'
  BY DEF ActedInv, WriteAhead, AtMostOnce
<1> QED
  BY <1>1, <1>2, <1>3, <1>4, <1>5 DEF LogInv, ActedInv

\* Outside the loop there is no batch to speak of.
LEMMA NoBatch ==
  ASSUME pc' \notin LoopPoints
  PROVE  BatchInv'
BY DEF BatchInv, LoopPoints, ToolPoints, BeforeStart

\* A failing turn leaves the loop with its journal.
LEMMA FailStart ==
  ASSUME TypeInv, StartInv, InOperation, Fail \/ FailInStream,
         UNCHANGED <<disk, orphans, cur, happened>>
  PROVE  StartInv'
<1>1. pc' \notin LoopPoints /\ UNCHANGED mem
  BY FailType DEF LoopPoints, ToolPoints, BeforeStart, FailPoints
<1> QED
  BY <1>1, QuietLogs, NoBatch DEF StartInv

\* An operation that ends leaves nothing behind in memory.
LEMMA EndStart ==
  ASSUME TypeInv, StartInv, End, UNCHANGED <<disk, orphans, happened>>
  PROVE  StartInv'
<1>1. pc' \notin LoopPoints /\ ~InOperation'
  BY DEF End, LoopPoints, ToolPoints, BeforeStart, InOperation
<1> QED
  BY <1>1, QuietLogs, NoBatch DEF StartInv

\* An event that fits, appended to one file.
LEMMA AppendLogs ==
  ASSUME TypeInv, JournalInv, LogInv, ActedInv, NEW s \in Session, NEW e \in Event,
         EventFits(disk[s], e), disk' = [disk EXCEPT ![s] = Append(@, e)],
         orphans' \subseteq orphans, UNCHANGED happened
  PROVE  /\ \A r \in Session : Grounded(disk'[r])
         /\ \A o \in orphans' : Live(o)' => EventFits(disk'[o.session], o.event)
         /\ WriteAhead' /\ AtMostOnce'
<1>1. /\ disk'[s] = Append(disk[s], e) /\ disk[s] \in Seq(Event)
      /\ \A r \in Session \ {s} : disk'[r] = disk[r]
  BY DEF TypeInv, TypeOK
<1>2. Grounded(disk'[s]) /\ Started(disk[s]) \subseteq Started(disk'[s])
  BY <1>1, AppendGrounded DEF LogInv
<1>3. \A o \in orphans' : Live(o)' => EventFits(disk'[o.session], o.event)
  <2> SUFFICES ASSUME NEW o \in orphans', Live(o)'
               PROVE  EventFits(disk'[o.session], o.event)
    OBVIOUS
  <2>1. o \in orphans /\ o.session \in Session /\ o.sequence \in Nat
    BY DEF TypeInv, TypeOK
  <2>2. o.sequence <= Len(disk[o.session]) + 1 /\ o.sequence = Len(disk'[o.session]) + 1
    BY <2>1 DEF JournalInv, Live
  <2>3. o.session # s
    BY <1>1, <2>1, <2>2
  <2> QED
    BY <1>1, <2>1, <2>2, <2>3 DEF LogInv, Live
<1> QED
  BY <1>1, <1>2, <1>3 DEF LogInv, ActedInv, WriteAhead, AtMostOnce

-------------------------------------------------------------------------------
(* The steps.                                                              *)

\* A record.
LEMMA RecordStart ==
  ASSUME TypeInv, JournalInv, StartInv, RecordStep
  PROVE  StartInv'
<1> DEFINE e == PendingEvent
           log == Append(mem, e)
<1>1. /\ pc \in RecordPoints /\ InOperation /\ cur \in Session /\ e \in Event
      /\ mem \in Seq(Event)
  BY PendingEventType DEF RecordStep, RecordPoints, InOperation, TypeInv, TypeOK
<1>2. mem = disk[cur]
  BY <1>1, SameLog DEF RecordStep, NextInFile
<1>3. EventFits(mem, e)
  BY <1>1, PendingFits DEF StartInv
<1>4. UNCHANGED <<orphans, cur, happened>> /\ disk' = [disk EXCEPT ![cur] = Append(@, e)]
  BY DEF RecordStep
<1>5. /\ \A r \in Session : Grounded(disk'[r])
      /\ \A o \in orphans' : Live(o)' => EventFits(disk'[o.session], o.event)
      /\ WriteAhead' /\ AtMostOnce'
  BY <1>1, <1>2, <1>3, <1>4, AppendLogs DEF StartInv
<1>6. CASE AfterRecord(log) = "idle"
  <2>1. ~InOperation' /\ pc' \notin LoopPoints
    BY <1>6 DEF RecordStep, End, InOperation, LoopPoints, ToolPoints, BeforeStart
  <2> QED
    BY <1>5, <2>1, NoBatch DEF StartInv, LogInv, ActedInv
<1>7. CASE AfterRecord(log) # "idle"
  <2>1. pc' = AfterRecord(log) /\ mem' = log /\ UNCHANGED run
    BY <1>7 DEF RecordStep
  <2>2. Grounded(mem') /\ Started(mem) \subseteq Started(mem')
    BY <1>1, <1>3, <2>1, AppendGrounded DEF StartInv, LogInv
  <2>3. LogInv' /\ ActedInv'
    BY <1>1, <1>4, <1>5, <2>2 DEF StartInv, LogInv, ActedInv
  <2>4. /\ DeclaredIn(mem', run.turn) = DeclaredIn(mem, run.turn) \cup
             (IF pc = "rec_assistant" THEN run.batch ELSE {})
        /\ Started(mem') = Started(mem) \cup (IF pc = "rec_started" THEN run.call ELSE {})
    BY <1>1, <2>1, AppendCalls, PendingEventIs DEF DeclaredIn, Started
  <2>5. /\ pc' \in LoopPoints => pc \in LoopPoints
        /\ pc' = "next_call" => pc \in {"rec_assistant", "rec_completed"}
        /\ pc' = "handler" => pc = "rec_started"
        /\ pc' = "checks" => pc = "rec_requested"
        /\ pc' \in {"rec_started", "result"} => pc = "rec_permission"
        /\ pc' \notin {"rec_requested", "rec_permission", "acted", "rec_completed",
                       "rec_assistant", "down"}
    BY <1>1, <2>1, AfterRecordIs
  <2> USE DEF ToolPoints, LoopPoints, BeforeStart
  <2>6. BatchInv
    BY DEF StartInv
  <2>7. pc = "rec_started" => /\ run.call \subseteq run.seen
                              /\ \A c \in run.call : c \in Call /\ happened[cur][c] = 0
    <3> SUFFICES ASSUME pc = "rec_started"
                 PROVE  /\ run.call \subseteq run.seen
                        /\ \A c \in run.call : c \in Call /\ happened[cur][c] = 0
      OBVIOUS
    <3>1. run.call \subseteq run.seen /\ run.call \cap Started(mem) = {} /\ run.call \subseteq Call
      BY <2>6 DEF BatchInv, TypeInv, TypeOK, Run
    <3>2. \A c \in Call : happened[cur][c] \in Nat /\ (happened[cur][c] > 0 => c \in Started(mem))
      BY <1>1 DEF StartInv, ActedInv, TypeInv, TypeOK
    <3> QED
      BY <3>1, <3>2
  <2>8. /\ pc' \in LoopPoints => Started(mem') \subseteq run'.seen
        /\ pc' \in ToolPoints \cup {"rec_assistant"} => run'.batch \cap run'.seen = {}
    BY <2>1, <2>4, <2>5, <2>6, <2>7 DEF BatchInv
  <2>9. pc' \in ToolPoints => run'.batch \subseteq DeclaredIn(mem', run'.turn)
    BY <2>1, <2>4, <2>5, <2>6 DEF BatchInv
  <2>10. pc' \in ToolPoints \ {"next_call"} =>
           /\ run'.call \subseteq run'.seen
           /\ \E c \in DeclaredIn(mem', run'.turn) : run'.call = {c}
    BY <2>1, <2>4, <2>5, <2>6 DEF BatchInv
  <2>11. /\ pc' \in BeforeStart => run'.call \cap Started(mem') = {}
         /\ pc' \in {"handler", "acted"} => run'.call \subseteq Started(mem')
         /\ pc' = "handler" => \A c \in run'.call : happened'[cur'][c] = 0
    BY <1>4, <2>1, <2>4, <2>5, <2>6, <2>7 DEF BatchInv
  <2>12. BatchInv'
    BY <2>8, <2>9, <2>10, <2>11 DEF BatchInv
  <2> QED
    BY <2>3, <2>12 DEF StartInv
<1> QED
  BY <1>6, <1>7

\* The cancellation of a record.
LEMMA CancelStart ==
  ASSUME TypeInv, JournalInv, StartInv, NEW threadRuns \in BOOLEAN, CancelRecord(threadRuns)
  PROVE  StartInv'
<1>1. /\ pc \in RecordPoints /\ InOperation /\ cur \in Session
      /\ mem \in Seq(Event) /\ UNCHANGED <<disk, cur, happened>>
  BY DEF CancelRecord, RecordPoints, InOperation, TypeInv, TypeOK
<1> DEFINE new == [session |-> cur, sequence |-> Len(mem) + 1, event |-> PendingEvent]
<1>2. orphans' \subseteq orphans \cup {new}
  BY DEF CancelRecord
<1>3. ASSUME Live(new) PROVE EventFits(disk[cur], PendingEvent)
  <2>1. Len(mem) = Len(disk[cur])
    BY <1>1, <1>3, InOperationSession DEF Live
  <2> QED
    BY <1>1, <2>1, SameLog, PendingFits DEF StartInv
<1>4. \A o \in orphans' : Live(o)' => EventFits(disk'[o.session], o.event)
  BY <1>1, <1>2, <1>3 DEF StartInv, LogInv, Live
<1>5. pc' \notin LoopPoints /\ (InOperation' => UNCHANGED mem)
  BY FailType DEF CancelRecord, End, InOperation, LoopPoints, ToolPoints, BeforeStart,
                  FailPoints
<1>6. LogInv' /\ ActedInv'
  BY <1>1, <1>4, <1>5 DEF StartInv, LogInv, ActedInv, WriteAhead, AtMostOnce
<1> QED
  BY <1>5, <1>6, NoBatch DEF StartInv

\* A cancelled append that lands after all.
LEMMA LandStart ==
  ASSUME TypeInv, JournalInv, StartInv, NEW o \in orphans, OrphanLands(o)
  PROVE  StartInv'
<1>1. /\ o.session \in Session /\ o.event \in Event /\ Live(o)
      /\ disk' = [disk EXCEPT ![o.session] = Append(@, o.event)]
      /\ orphans' \subseteq orphans /\ UNCHANGED <<cur, pc, mem, run, happened>>
  BY DEF OrphanLands, TypeInv, TypeOK, Live
<1>2. EventFits(disk[o.session], o.event)
  BY <1>1 DEF StartInv, LogInv
<1>3. /\ \A r \in Session : Grounded(disk'[r])
      /\ \A q \in orphans' : Live(q)' => EventFits(disk'[q.session], q.event)
      /\ WriteAhead' /\ AtMostOnce'
  BY <1>1, <1>2, AppendLogs DEF StartInv
<1>4. LogInv' /\ ActedInv'
  BY <1>1, <1>3 DEF StartInv, LogInv, ActedInv, InOperation
<1> QED
  BY <1>1, <1>4 DEF StartInv, BatchInv

\* The one step that changes the world.
LEMMA ActStart ==
  ASSUME TypeInv, JournalInv, StartInv, HandlerActs
  PROVE  StartInv'
<1>1. /\ pc = "handler" /\ pc' = "acted" /\ UNCHANGED <<disk, orphans, cur, mem, run>>
      /\ cur \in Session /\ InOperation /\ InOperation'
  BY DEF HandlerActs, InOperation, TypeInv, TypeOK
<1>2. /\ \A s \in Session, c \in Call : happened[s][c] \in Nat
      /\ \A c \in Call : happened'[cur][c] = IF c \in run.call THEN happened[cur][c] + 1
                                                          ELSE happened[cur][c]
      /\ \A s \in Session \ {cur} : happened'[s] = happened[s]
  BY <1>1 DEF HandlerActs, TypeInv, TypeOK
<1>3. mem = disk[cur]
  BY <1>1, SameLog DEF JournalInv
<1>4. run.call \subseteq Started(mem) /\ \A c \in run.call : happened[cur][c] = 0
  BY <1>1 DEF StartInv, BatchInv
<1>5. \A c \in Call : happened'[cur][c] > 0 => c \in Started(mem)
  BY <1>1, <1>2, <1>4 DEF StartInv, ActedInv
<1>6. WriteAhead'
  BY <1>1, <1>2, <1>3, <1>5 DEF StartInv, ActedInv, WriteAhead
<1>7. AtMostOnce'
  BY <1>1, <1>2, <1>4 DEF StartInv, ActedInv, AtMostOnce
<1>8. LogInv' /\ ActedInv'
  BY <1>1, <1>5, <1>6, <1>7 DEF StartInv, LogInv, ActedInv, Live
<1> QED
  BY <1>1, <1>8 DEF StartInv, BatchInv, ToolPoints, LoopPoints, BeforeStart

\* A step of the loop that leaves logs and world alone only has its batch to keep.
LEMMA QuietStart ==
  ASSUME TypeInv, StartInv, InOperation, UNCHANGED <<disk, orphans, cur, mem, happened>>,
         BatchInv'
  PROVE  StartInv'
BY QuietLogs DEF StartInv

\* The model's requests: a batch has no id the loop has seen.
LEMMA LoopStart ==
  ASSUME TypeInv, JournalInv, StartInv, Loop
  PROVE  StartInv'
<1> USE DEF InOperation
<1>1. CASE StopAtTop \/ StreamFails
  BY <1>1, FailStart DEF StopAtTop, StreamFails
<1>2. CASE PrepareRequest \/ ReportUsage \/ RetryContext \/ RepairCitations \/ Answer
  <2>1. /\ pc \in LoopPoints /\ pc' \in LoopPoints \ ToolPoints
        /\ run'.seen = run.seen /\ (pc' = "rec_assistant" => run'.batch = {})
        /\ UNCHANGED <<disk, orphans, cur, mem, happened>> /\ InOperation
    BY <1>2 DEF PrepareRequest, ReportUsage, RetryContext, RepairCitations, Answer,
                LoopPoints, ToolPoints, BeforeStart, TypeInv, TypeOK, Run
  <2>2. BatchInv'
    BY <2>1 DEF StartInv, BatchInv, ToolPoints, BeforeStart
  <2> QED
    BY <2>1, <2>2, QuietStart
<1>3. ASSUME NEW calls \in SUBSET Call, RequestTools(calls) PROVE StartInv'
  <2>1. /\ pc \in LoopPoints /\ pc' = "rec_assistant"
        /\ run'.seen = run.seen /\ run'.batch = calls /\ calls \cap run.seen = {}
        /\ UNCHANGED <<disk, orphans, cur, mem, happened>> /\ InOperation
    BY <1>3 DEF RequestTools, LoopPoints, TypeInv, TypeOK, Run
  <2>2. BatchInv'
    BY <2>1 DEF StartInv, BatchInv, ToolPoints, BeforeStart
  <2> QED
    BY <2>1, <2>2, QuietStart
<1> QED
  BY <1>1, <1>2, <1>3 DEF Loop

\* The tool batch: the call chosen was not started before.
LEMMA ToolsStart ==
  ASSUME TypeInv, JournalInv, StartInv, Tools
  PROVE  StartInv'
<1> USE DEF InOperation
<1>1. CASE BatchDone
  <2>1. BatchInv'
    BY <1>1 DEF BatchDone, StartInv, BatchInv, ToolPoints, LoopPoints, BeforeStart,
                TypeInv, TypeOK, Run
  <2> QED
    BY <1>1, <2>1, QuietStart DEF BatchDone
<1>2. CASE StopBatch
  BY <1>2, FailStart DEF StopBatch
<1>3. ASSUME NEW c \in Call, NextCall(c) PROVE StartInv'
  <2>1. /\ pc = "next_call" /\ pc' = "rec_requested" /\ c \in run.batch
        /\ run'.call = {c} /\ run'.batch = run.batch \ {c} /\ run'.seen = run.seen \cup {c}
        /\ run'.turn = run.turn
        /\ UNCHANGED <<disk, orphans, cur, mem, happened>>
    BY <1>3 DEF NextCall, TypeInv, TypeOK, Run
  <2>2. c \in DeclaredIn(mem, run.turn) /\ c \notin Started(mem)
    BY <2>1 DEF StartInv, BatchInv, ToolPoints, LoopPoints
  <2>3. BatchInv'
    BY <2>1, <2>2 DEF StartInv, BatchInv, ToolPoints, LoopPoints, BeforeStart
  <2> QED
    BY <2>1, <2>3, QuietStart
<1>4. ASSUME NEW verdict, RefuseCall \/ ReplanCall \/ Decide(verdict) PROVE StartInv'
  <2>1. /\ pc = "checks" /\ pc' \in {"result", "rec_permission"}
        /\ run'.call = run.call /\ run'.batch = run.batch /\ run'.seen = run.seen
        /\ run'.turn = run.turn
        /\ UNCHANGED <<disk, orphans, cur, mem, happened>>
    BY <1>4 DEF RefuseCall, ReplanCall, Decide, TypeInv, TypeOK, Run
  <2>2. BatchInv'
    BY <2>1 DEF StartInv, BatchInv, ToolPoints, LoopPoints, BeforeStart
  <2> QED
    BY <2>1, <2>2, QuietStart
<1>5. CASE HandlerActs
  BY <1>5, ActStart
<1>6. ASSUME NEW stop, NEW failed, HandlerReturns(stop, failed) \/ HandlerLost(stop)
      PROVE  StartInv'
  <2>1. /\ pc \in {"handler", "acted"} /\ pc' = "result"
        /\ run'.call = run.call /\ run'.batch = run.batch /\ run'.seen = run.seen
        /\ run'.turn = run.turn
        /\ UNCHANGED <<disk, orphans, cur, mem, happened>>
    BY <1>6 DEF HandlerReturns, HandlerLost, TypeInv, TypeOK, Run
  <2>2. BatchInv'
    BY <2>1 DEF StartInv, BatchInv, ToolPoints, LoopPoints, BeforeStart
  <2> QED
    BY <2>1, <2>2, QuietStart
<1>7. CASE ReportResult
  <2>1. /\ pc = "result" /\ pc' = "rec_completed"
        /\ run'.call = run.call /\ run'.batch \in {run.batch, {}} /\ run'.seen = run.seen
        /\ run'.turn = run.turn
        /\ UNCHANGED <<disk, orphans, cur, mem, happened>>
    BY <1>7 DEF ReportResult, TypeInv, TypeOK, Run
  <2>2. BatchInv'
    BY <2>1 DEF StartInv, BatchInv, ToolPoints, LoopPoints, BeforeStart
  <2> QED
    BY <2>1, <2>2, QuietStart
<1> QED
  BY <1>1, <1>2, <1>3, <1>4, <1>5, <1>6, <1>7 DEF Tools

\* The coordinator; the loop is entered with every declared id seen.
LEMMA CoordinatorStart ==
  ASSUME TypeInv, JournalInv, StartInv, Coordinator
  PROVE  StartInv'
<1> USE DEF InOperation, LoopPoints, ToolPoints, BeforeStart
<1>1. CASE NewSession \/ Send
  <2>1. /\ pc' \notin LoopPoints /\ UNCHANGED <<disk, orphans, happened>>
        /\ InOperation' => cur' \in Session /\ mem' = disk[cur']
    BY <1>1 DEF NewSession, Send, TypeInv, TypeOK
  <2> QED
    BY <2>1, QuietLogs, NoBatch DEF StartInv
<1>2. CASE RejectInput \/ ResolveOperation \/ PrepareKnowledge
  <2>1. /\ pc' \notin LoopPoints /\ UNCHANGED <<disk, orphans, cur, mem, happened>>
        /\ InOperation
    BY <1>2 DEF RejectInput, ResolveOperation, PrepareKnowledge
  <2> QED
    BY <2>1, QuietLogs, NoBatch DEF StartInv
<1>3. CASE EnterLoop
  <2>1. /\ pc' = "top" /\ run'.seen = Declared(mem) /\ InOperation
        /\ UNCHANGED <<disk, orphans, cur, mem, happened>>
    BY <1>3 DEF EnterLoop, TypeInv, TypeOK, Run
  <2>2. BatchInv'
    BY <2>1 DEF StartInv, LogInv, BatchInv, Grounded
  <2> QED
    BY <2>1, <2>2, QuietStart
<1> QED
  BY <1>1, <1>2, <1>3 DEF Coordinator

\* Cancellation between records, crash, restart and resume.
LEMMA RecoveryStart ==
  ASSUME TypeInv, JournalInv, StartInv, Recovery
  PROVE  StartInv'
<1> USE DEF InOperation, LoopPoints, ToolPoints, BeforeStart
<1>1. CASE CancelTask
  <2>1. InOperation /\ UNCHANGED <<disk, orphans, cur, happened>> /\ (Fail \/ End)
    BY <1>1 DEF CancelTask
  <2> QED
    BY <2>1, FailStart, EndStart
<1>2. CASE Crash \/ Restart
  <2>1. /\ pc' \notin LoopPoints /\ ~InOperation' /\ UNCHANGED <<disk, happened>>
        /\ orphans' \subseteq orphans
    BY <1>2 DEF Crash, Restart
  <2> QED
    BY <2>1, QuietLogs, NoBatch DEF StartInv
<1>3. ASSUME NEW s \in Session, ResumeClean(s) \/ ResumeInterrupted(s) \/ ResumeUncertain(s)
      PROVE  StartInv'
  <2>1. pc' \notin LoopPoints /\ UNCHANGED <<disk, orphans, happened>>
    BY <1>3 DEF ResumeClean, ResumeInterrupted, ResumeUncertain, ClosingPoint
  <2>2. InOperation' => cur' \in Session /\ mem' = disk[cur']
    BY <1>3 DEF ResumeClean, ResumeInterrupted, ResumeUncertain, Fresh, Used, JournalInv
  <2> QED
    BY <2>1, <2>2, QuietLogs, NoBatch DEF StartInv
<1>4. CASE ResumeReopens
  <2>1. pc' \notin LoopPoints /\ UNCHANGED <<disk, orphans, happened>>
    BY <1>4 DEF ResumeReopens, ClosingPoint
  <2>2. cur' \in Session /\ mem' = disk[cur']
    BY <1>4 DEF ResumeReopens, TypeInv, TypeOK
  <2> QED
    BY <2>1, <2>2, QuietLogs, NoBatch DEF StartInv
<1> QED
  BY <1>1, <1>2, <1>3, <1>4 DEF Recovery

\* Every step keeps the write-ahead rule.
LEMMA StartStep ==
  ASSUME TypeInv, JournalInv, StartInv, [Next]_vars
  PROVE  StartInv'
<1>1. CASE Journal
  <2>1. CASE RecordConflict
    <3>1. UNCHANGED <<disk, orphans, happened>> /\ InOperation
      BY <2>1 DEF RecordConflict, RecordPoints, InOperation
    <3>2. CASE pc \in InStream
      BY <2>1, <3>1, <3>2, FailStart DEF RecordConflict, InStream, InResume
    <3>3. CASE pc \notin InStream
      BY <2>1, <3>1, <3>3, EndStart DEF RecordConflict
    <3> QED
      BY <3>2, <3>3
  <2>2. ASSUME NEW o \in orphans, OrphanDies(o) PROVE StartInv'
    <3>1. UNCHANGED <<disk, happened, cur, pc, mem, run>> /\ orphans' \subseteq orphans
      BY <2>2 DEF OrphanDies
    <3>2. LogInv' /\ ActedInv'
      BY <3>1 DEF StartInv, LogInv, ActedInv, WriteAhead, AtMostOnce, InOperation, Live
    <3> QED
      BY <3>1, <3>2 DEF StartInv, BatchInv
  <2> QED
    BY <1>1, <2>1, <2>2, RecordStart, CancelStart, LandStart DEF Journal
<1>2. CASE UNCHANGED vars
  BY <1>2 DEF vars, StartInv, LogInv, ActedInv, BatchInv, WriteAhead, AtMostOnce,
              InOperation, Live
<1> QED
  BY <1>1, <1>2, CoordinatorStart, LoopStart, ToolsStart, RecoveryStart DEF Next

\* Nothing is started at first.
LEMMA StartInit == Init => StartInv
<1> SUFFICES ASSUME Init PROVE StartInv
  OBVIOUS
<1>1. \A s \in Session : disk[s] = <<>> /\ \A c \in Call : happened[s][c] = 0
  BY DEF Init
<1>2. Grounded(<<>>)
  BY DEF Grounded, Started, Completed, CallsOf
<1>3. orphans = {} /\ pc = "idle"
  BY DEF Init
<1> QED
  BY <1>1, <1>2, <1>3 DEF StartInv, LogInv, ActedInv, BatchInv, WriteAhead, AtMostOnce,
       InOperation, LoopPoints, ToolPoints, BeforeStart

\* The three layers together are inductive.
LEMMA StartInvariant == Spec => [](TypeInv /\ JournalInv /\ StartInv)
<1>1. Init => TypeInv /\ JournalInv /\ StartInv
  BY TypeInit, StartInit DEF Init, JournalInv, InOperation
<1>2. TypeInv /\ JournalInv /\ StartInv /\ [Next]_vars => (TypeInv /\ JournalInv /\ StartInv)'
  BY TypeStep, JournalStep, StartStep
<1> QED
  BY <1>1, <1>2, PTL DEF Spec

\* A handler acts only after the start of its call is in the file.
THEOREM StartsAreDurable == Spec => []WriteAhead
<1>1. StartInv => WriteAhead
  BY DEF StartInv, ActedInv
<1> QED
  BY <1>1, StartInvariant, PTL

\* No call acts twice, even if the provider gives the same id again.
THEOREM CallsActOnce == Spec => []AtMostOnce
<1>1. StartInv => AtMostOnce
  BY DEF StartInv, ActedInv
<1> QED
  BY <1>1, StartInvariant, PTL

-------------------------------------------------------------------------------
(* Effects.                                                                *)

CallTypes == {"assistant_message", "execution_started", "execution_completed"}

\* All that is recorded of a call is recorded in one turn.
TurnsAgree(log) ==
  \A i, j \in 1..Len(log) :
    log[i].type \in CallTypes /\ log[j].type \in CallTypes
      /\ log[i].calls \cap log[j].calls # {} => log[i].turn = log[j].turn

\* A result that denies an effect.
Denies(e) == e.type = "execution_completed" /\ e.effect = "none"

\* An event that neither declares a call again nor denies an effect.
EffectFits(s, log, e) ==
  /\ e.type = "assistant_message" => e.calls \cap Declared(log) = {}
  /\ Denies(e) => \A c \in e.calls : happened[s][c] = 0

\* No result denies an effect, now or when a cancelled append lands.
DenialInv ==
  /\ \A s \in Session : TurnsAgree(disk[s])
  /\ InOperation => TurnsAgree(mem)
  /\ \A s \in Session, c \in Call : happened[s][c] > 0 => c \in Risky
  /\ \A s \in Session : \A i \in 1..Len(disk[s]) :
       Denies(disk[s][i]) => \A c \in disk[s][i].calls : happened[s][c] = 0
  /\ \A o \in orphans : Live(o) => EffectFits(o.session, disk[o.session], o.event)

\* What the running batch must keep for that.
AnswerInv ==
  /\ pc = "rec_assistant" => run.batch \cap Declared(mem) = {}
  /\ pc \in ToolPoints => run.batch \cap Completed(mem) = {}
  /\ pc \in ToolPoints \ {"next_call"} => run.call \cap Completed(mem) = {} /\ run.call \cap run.batch = {}
  /\ pc = "acted" => run.call \subseteq Risky
  /\ pc \in ToolPoints \ {"next_call", "handler", "acted"} /\ run.effect = "none" =>
       \A c \in run.call : happened[cur][c] = 0

EffectInv == DenialInv /\ AnswerInv

-------------------------------------------------------------------------------
(* Logs and appended events.                                               *)

\* An event that fits, and declares no call a second time, keeps the turns agreed.
LEMMA AppendAgrees ==
  ASSUME NEW log \in Seq(Event), NEW e \in Event, Grounded(log), TurnsAgree(log),
         EventFits(log, e),
         e.type = "assistant_message" => e.calls \cap Declared(log) = {}
  PROVE  TurnsAgree(Append(log, e))
<1> DEFINE new == Append(log, e)
<1>1. /\ Len(new) = Len(log) + 1 /\ Len(log) \in Nat
      /\ \A i \in 1..Len(log) : new[i] = log[i]
      /\ new[Len(log) + 1] = e
  OBVIOUS
<1> HIDE DEF new
<1>2. ASSUME NEW i \in 1..Len(log), log[i].type \in CallTypes, e.type \in CallTypes,
             NEW c, c \in log[i].calls, c \in e.calls
      PROVE  log[i].turn = e.turn
  <2>1. c \in Declared(log)
    BY <1>2, InCalls DEF CallTypes, Grounded, Declared, Started, Completed
  <2>2. e.type \in {"execution_started", "execution_completed"}
    BY <1>2, <2>1 DEF CallTypes
  <2>3. c \in DeclaredIn(log, e.turn)
    BY <1>2, <2>2 DEF EventFits
  <2>4. PICK d \in 1..Len(log) : /\ log[d].type = "assistant_message"
                                 /\ log[d].turn = e.turn
                                 /\ c \in log[d].calls
    BY <2>3, InTurn DEF DeclaredIn
  <2> QED
    BY <1>2, <2>4 DEF TurnsAgree, CallTypes
<1>3. ASSUME NEW i \in 1..Len(new), NEW j \in 1..Len(new),
             new[i].type \in CallTypes, new[j].type \in CallTypes,
             new[i].calls \cap new[j].calls # {}
      PROVE  new[i].turn = new[j].turn
  <2>1. PICK c : c \in new[i].calls /\ c \in new[j].calls
    BY <1>3
  <2>2. CASE i \in 1..Len(log) /\ j \in 1..Len(log)
    BY <1>1, <1>3, <2>2 DEF TurnsAgree
  <2>3. CASE i = Len(log) + 1 \/ j = Len(log) + 1
    BY <1>1, <1>2, <1>3, <2>1, <2>3
  <2> QED
    BY <1>1, <2>2, <2>3
<1>4. TurnsAgree(new)
  BY <1>3 DEF TurnsAgree
<1> QED
  BY <1>4 DEF new

\* Such an event, appended to one file.
LEMMA AppendDenials ==
  ASSUME TypeInv, JournalInv, LogInv, DenialInv, NEW s \in Session, NEW e \in Event,
         EventFits(disk[s], e), EffectFits(s, disk[s], e),
         disk' = [disk EXCEPT ![s] = Append(@, e)],
         orphans' \subseteq orphans, UNCHANGED happened
  PROVE  /\ \A r \in Session : TurnsAgree(disk'[r])
         /\ \A r \in Session, c \in Call : happened'[r][c] > 0 => c \in Risky
         /\ \A r \in Session : \A i \in 1..Len(disk'[r]) :
              Denies(disk'[r][i]) => \A c \in disk'[r][i].calls : happened'[r][c] = 0
         /\ \A o \in orphans' :
              Live(o)' => EffectFits(o.session, disk[o.session], o.event)'
<1>1. /\ disk'[s] = Append(disk[s], e) /\ disk[s] \in Seq(Event)
      /\ \A r \in Session \ {s} : disk'[r] = disk[r]
  BY DEF TypeInv, TypeOK
<1>2. TurnsAgree(disk'[s])
  BY <1>1, AppendAgrees DEF LogInv, DenialInv, EffectFits
<1>3. \A r \in Session : TurnsAgree(disk'[r])
  BY <1>1, <1>2 DEF DenialInv
<1>4. ASSUME NEW r \in Session, NEW i \in 1..Len(disk'[r]), Denies(disk'[r][i]),
             NEW c \in disk'[r][i].calls
      PROVE  happened'[r][c] = 0
  <2>1. CASE r = s /\ i = Len(disk[s]) + 1
    BY <1>1, <1>4, <2>1 DEF EffectFits
  <2>2. CASE r = s /\ i \in 1..Len(disk[s])
    <3>1. disk'[s][i] = disk[s][i]
      BY <1>1, <2>2
    <3> QED
      BY <1>4, <2>2, <3>1 DEF DenialInv
  <2>3. CASE r # s
    BY <1>1, <1>4, <2>3 DEF DenialInv
  <2> QED
    BY <1>1, <2>1, <2>2, <2>3
<1>5. ASSUME NEW o \in orphans', Live(o)'
      PROVE  EffectFits(o.session, disk[o.session], o.event)'
  <2>1. o \in orphans /\ o.session \in Session /\ o.sequence \in Nat
    BY DEF TypeInv, TypeOK
  <2>2. o.sequence <= Len(disk[o.session]) + 1 /\ o.sequence = Len(disk'[o.session]) + 1
    BY <1>5, <2>1 DEF JournalInv, Live
  <2>3. o.session # s
    BY <1>1, <2>1, <2>2
  <2>4. disk'[o.session] = disk[o.session] /\ Live(o)
    BY <1>1, <2>1, <2>2, <2>3 DEF Live
  <2> QED
    BY <2>1, <2>4 DEF DenialInv, EffectFits
<1> QED
  BY <1>3, <1>4, <1>5 DEF DenialInv

\* The record in progress denies no effect.
LEMMA PendingEffectFits ==
  ASSUME TypeInv, StartInv, EffectInv, pc \in RecordPoints
  PROVE  EffectFits(cur, mem, PendingEvent)
<1>1. InOperation /\ mem \in Seq(Event) /\ cur \in Session
  BY DEF RecordPoints, InOperation, TypeInv, TypeOK
<1>2. PendingEvent.type = "assistant_message" => PendingEvent.calls \cap Declared(mem) = {}
  BY PendingEventIs DEF EffectInv, AnswerInv
<1>3. CASE pc = "rec_completed"
  BY <1>2, <1>3, PendingEventIs
     DEF EffectFits, Denies, EffectInv, AnswerInv, ToolPoints, BeforeStart
<1>4. CASE pc \in Closing
  <2> DEFINE c == NextPending
  <2>1. c \in DeclaredIn(mem, run.turn) /\ c \in Call
    BY <1>1, <1>4, NextPendingIs, CallsType DEF DeclaredIn
  <2>2. ASSUME happened[cur][c] # 0 PROVE c \in Risky /\ c \in StartedIn(mem, run.turn)
    <3>1. happened[cur][c] > 0
      BY <1>1, <2>1, <2>2 DEF TypeInv, TypeOK
    <3>2. c \in Started(mem) /\ c \in Risky
      BY <1>1, <2>1, <3>1 DEF StartInv, ActedInv, EffectInv, DenialInv
    <3>3. PICK d \in 1..Len(mem) : /\ mem[d].type = "assistant_message"
                                   /\ mem[d].turn = run.turn
                                   /\ c \in mem[d].calls
      BY <1>1, <2>1, InTurn DEF DeclaredIn
    <3>4. PICK i \in 1..Len(mem) : mem[i].type = "execution_started" /\ c \in mem[i].calls
      BY <1>1, <3>2, InCalls DEF Started
    <3>5. mem[i].turn = run.turn
      BY <1>1, <3>3, <3>4 DEF EffectInv, DenialInv, TurnsAgree, CallTypes
    <3> QED
      BY <1>1, <3>2, <3>4, <3>5, InTurn DEF StartedIn
  <2>3. ClosingEffect(mem, run.turn, c) = "none" => happened[cur][c] = 0
    BY <2>2 DEF ClosingEffect
  <2> QED
    BY <1>2, <1>4, <2>3, PendingEventIs DEF EffectFits, Denies
<1>5. CASE pc \notin Closing \cup {"rec_completed"}
  BY <1>2, <1>5, PendingEventIs DEF EffectFits, Denies
<1> QED
  BY <1>3, <1>4, <1>5

-------------------------------------------------------------------------------
(* Steps that leave the logs and the world alone.                          *)

\* A step that writes no log, and at most opens a journal on a file.
LEMMA QuietDenials ==
  ASSUME TypeInv, DenialInv, UNCHANGED <<disk, happened>>, orphans' \subseteq orphans,
         InOperation' => \/ InOperation /\ UNCHANGED <<cur, mem>>
                         \/ cur' \in Session /\ mem' = disk[cur']
  PROVE  DenialInv'
<1>1. InOperation' => TurnsAgree(mem')
  BY DEF DenialInv
<1>2. \A o \in orphans' : Live(o)' => EffectFits(o.session, disk[o.session], o.event)'
  BY DEF DenialInv, Live, EffectFits
<1> QED
  BY <1>1, <1>2 DEF DenialInv

\* Outside the loop there is no batch to speak of.
LEMMA NoAnswer ==
  ASSUME pc' \notin LoopPoints
  PROVE  AnswerInv'
BY DEF AnswerInv, LoopPoints, ToolPoints, BeforeStart

\* A failed turn leaves the loop with its journal.
LEMMA FailEffect ==
  ASSUME TypeInv, EffectInv, InOperation, Fail \/ FailInStream,
         UNCHANGED <<disk, orphans, cur, happened>>
  PROVE  EffectInv'
<1>1. pc' \notin LoopPoints /\ UNCHANGED mem
  BY FailType DEF LoopPoints, ToolPoints, BeforeStart, FailPoints
<1> QED
  BY <1>1, QuietDenials, NoAnswer DEF EffectInv

\* An operation that ends leaves nothing behind in memory.
LEMMA EndEffect ==
  ASSUME TypeInv, EffectInv, End, UNCHANGED <<disk, orphans, happened>>
  PROVE  EffectInv'
<1>1. pc' \notin LoopPoints /\ ~InOperation'
  BY DEF End, LoopPoints, ToolPoints, BeforeStart, InOperation
<1> QED
  BY <1>1, QuietDenials, NoAnswer DEF EffectInv

\* A step of the loop only has its batch to keep.
LEMMA QuietEffect ==
  ASSUME TypeInv, EffectInv, InOperation, UNCHANGED <<disk, orphans, cur, mem, happened>>,
         AnswerInv'
  PROVE  EffectInv'
BY QuietDenials DEF EffectInv

-------------------------------------------------------------------------------
(* The steps.                                                              *)

\* A record.
LEMMA RecordEffect ==
  ASSUME TypeInv, JournalInv, StartInv, EffectInv, RecordStep
  PROVE  EffectInv'
<1> DEFINE e == PendingEvent
           log == Append(mem, e)
<1>1. /\ pc \in RecordPoints /\ InOperation /\ cur \in Session /\ e \in Event
      /\ mem \in Seq(Event)
  BY PendingEventType DEF RecordStep, RecordPoints, InOperation, TypeInv, TypeOK
<1>2. mem = disk[cur]
  BY <1>1, SameLog DEF RecordStep, NextInFile
<1>3. EventFits(mem, e) /\ EffectFits(cur, mem, e)
  BY <1>1, PendingFits, PendingEffectFits DEF StartInv
<1>4. UNCHANGED <<orphans, cur, happened>> /\ disk' = [disk EXCEPT ![cur] = Append(@, e)]
  BY DEF RecordStep
<1>5. /\ \A r \in Session : TurnsAgree(disk'[r])
      /\ \A r \in Session, c \in Call : happened'[r][c] > 0 => c \in Risky
      /\ \A r \in Session : \A i \in 1..Len(disk'[r]) :
           Denies(disk'[r][i]) => \A c \in disk'[r][i].calls : happened'[r][c] = 0
      /\ \A o \in orphans' :
           Live(o)' => EffectFits(o.session, disk[o.session], o.event)'
  BY <1>1, <1>2, <1>3, <1>4, AppendDenials DEF StartInv, EffectInv
<1>6. CASE AfterRecord(log) = "idle"
  <2>1. ~InOperation' /\ pc' \notin LoopPoints
    BY <1>6 DEF RecordStep, End, InOperation, LoopPoints, ToolPoints, BeforeStart
  <2> QED
    BY <1>5, <2>1, NoAnswer DEF EffectInv, DenialInv
<1>7. CASE AfterRecord(log) # "idle"
  <2>1. pc' = AfterRecord(log) /\ mem' = log /\ UNCHANGED run
    BY <1>7 DEF RecordStep
  <2>2. TurnsAgree(mem')
    BY <1>1, <1>3, <2>1, AppendAgrees DEF StartInv, LogInv, EffectInv, DenialInv, EffectFits
  <2>3. DenialInv'
    BY <1>5, <2>2 DEF DenialInv
  <2>4. /\ pc' \in LoopPoints => pc \in LoopPoints
        /\ pc' = "next_call" => pc \in {"rec_assistant", "rec_completed"}
        /\ pc' = "handler" => pc = "rec_started"
        /\ pc' = "checks" => pc = "rec_requested"
        /\ pc' \in {"rec_started", "result"} => pc = "rec_permission"
        /\ pc' \notin {"rec_requested", "rec_permission", "acted", "rec_completed",
                       "rec_assistant", "down"}
    BY <1>1, <2>1, AfterRecordIs
  <2>5. /\ Completed(mem') = Completed(mem) \cup
             (IF pc \in Closing \cup {"rec_completed"} THEN e.calls ELSE {})
        /\ pc = "rec_completed" => e.calls = run.call
    BY <1>1, <2>1, AppendCalls, PendingEventIs DEF Completed
  <2>6. pc = "rec_assistant" => run.batch \cap Completed(mem) = {}
    BY <1>1 DEF StartInv, LogInv, Grounded, EffectInv, AnswerInv
  <2> USE DEF ToolPoints, BeforeStart, Closing
  <2>7. pc' \in ToolPoints => run'.batch \cap Completed(mem') = {}
    BY <2>1, <2>4, <2>5, <2>6 DEF EffectInv, AnswerInv
  <2>8. pc' \in ToolPoints \ {"next_call"} =>
          run'.call \cap Completed(mem') = {} /\ run'.call \cap run'.batch = {}
    BY <2>1, <2>4, <2>5 DEF EffectInv, AnswerInv
  <2>9. pc' \in ToolPoints \ {"next_call", "handler", "acted"} /\ run'.effect = "none" =>
          \A c \in run'.call : happened'[cur'][c] = 0
    BY <1>4, <2>1, <2>4 DEF EffectInv, AnswerInv
  <2>10. AnswerInv'
    BY <2>4, <2>7, <2>8, <2>9 DEF AnswerInv
  <2> QED
    BY <2>3, <2>10 DEF EffectInv
<1> QED
  BY <1>6, <1>7

\* The cancellation of a record.
LEMMA CancelEffect ==
  ASSUME TypeInv, JournalInv, StartInv, EffectInv,
         NEW threadRuns \in BOOLEAN, CancelRecord(threadRuns)
  PROVE  EffectInv'
<1>1. /\ pc \in RecordPoints /\ InOperation /\ cur \in Session
      /\ mem \in Seq(Event) /\ UNCHANGED <<disk, cur, happened>>
  BY DEF CancelRecord, RecordPoints, InOperation, TypeInv, TypeOK
<1> DEFINE new == [session |-> cur, sequence |-> Len(mem) + 1, event |-> PendingEvent]
<1>2. orphans' \subseteq orphans \cup {new}
  BY DEF CancelRecord
<1>3. ASSUME Live(new) PROVE EffectFits(cur, disk[cur], PendingEvent)
  <2>1. Len(mem) = Len(disk[cur])
    BY <1>1, <1>3, InOperationSession DEF Live
  <2> QED
    BY <1>1, <2>1, SameLog, PendingEffectFits
<1>4. \A o \in orphans' : Live(o)' => EffectFits(o.session, disk[o.session], o.event)'
  BY <1>1, <1>2, <1>3 DEF EffectInv, DenialInv, Live, EffectFits
<1>5. pc' \notin LoopPoints /\ (InOperation' => UNCHANGED mem)
  BY FailType DEF CancelRecord, End, InOperation, LoopPoints, ToolPoints, BeforeStart,
                  FailPoints
<1>6. DenialInv'
  BY <1>1, <1>4, <1>5 DEF EffectInv, DenialInv
<1> QED
  BY <1>5, <1>6, NoAnswer DEF EffectInv

\* A cancelled append that lands after all.
LEMMA LandEffect ==
  ASSUME TypeInv, JournalInv, StartInv, EffectInv, NEW o \in orphans, OrphanLands(o)
  PROVE  EffectInv'
<1>1. /\ o.session \in Session /\ o.event \in Event /\ Live(o)
      /\ disk' = [disk EXCEPT ![o.session] = Append(@, o.event)]
      /\ orphans' \subseteq orphans /\ UNCHANGED <<cur, pc, mem, run, happened>>
  BY DEF OrphanLands, TypeInv, TypeOK, Live
<1>2. /\ EventFits(disk[o.session], o.event)
      /\ EffectFits(o.session, disk[o.session], o.event)
  BY <1>1 DEF StartInv, LogInv, EffectInv, DenialInv
<1>3. /\ \A r \in Session : TurnsAgree(disk'[r])
      /\ \A r \in Session, c \in Call : happened'[r][c] > 0 => c \in Risky
      /\ \A r \in Session : \A i \in 1..Len(disk'[r]) :
           Denies(disk'[r][i]) => \A c \in disk'[r][i].calls : happened'[r][c] = 0
      /\ \A q \in orphans' :
           Live(q)' => EffectFits(q.session, disk[q.session], q.event)'
  BY <1>1, <1>2, AppendDenials DEF StartInv, EffectInv
<1>4. DenialInv'
  BY <1>1, <1>3 DEF EffectInv, DenialInv, InOperation
<1> QED
  BY <1>1, <1>4 DEF EffectInv, AnswerInv

\* The handler acts: no result of its call is in any log yet, or can land.
LEMMA ActEffect ==
  ASSUME TypeInv, JournalInv, StartInv, EffectInv, HandlerActs
  PROVE  EffectInv'
<1>1. /\ pc = "handler" /\ pc' = "acted" /\ UNCHANGED <<disk, orphans, cur, mem, run>>
      /\ cur \in Session /\ InOperation /\ InOperation' /\ run.call \subseteq Risky
  BY DEF HandlerActs, InOperation, TypeInv, TypeOK
<1>2. /\ \A c \in Call : happened'[cur][c] = IF c \in run.call THEN happened[cur][c] + 1
                                                          ELSE happened[cur][c]
      /\ \A s \in Session \ {cur} : happened'[s] = happened[s]
  BY <1>1 DEF HandlerActs, TypeInv, TypeOK
<1>3. mem = disk[cur] /\ disk[cur] \in Seq(Event) /\ Len(disk[cur]) \in Nat
  BY <1>1, SameLog, InOperationSession DEF JournalInv
<1>4. run.call \cap Completed(mem) = {}
  BY <1>1 DEF EffectInv, AnswerInv, ToolPoints
<1>5. \A s \in Session, c \in Call : happened'[s][c] > 0 => c \in Risky
  BY <1>1, <1>2 DEF EffectInv, DenialInv
<1>6. ASSUME NEW s \in Session, NEW i \in 1..Len(disk[s]), Denies(disk[s][i]),
             NEW c \in disk[s][i].calls
      PROVE  happened'[s][c] = 0
  <2>1. happened[s][c] = 0
    BY <1>6 DEF EffectInv, DenialInv
  <2>2. c \in Call /\ (s = cur => c \notin run.call)
    BY <1>3, <1>4, <1>6, InCalls, EntryType DEF Denies, Completed, TypeInv, TypeOK
  <2> QED
    BY <1>2, <2>1, <2>2
<1>7. ASSUME NEW o \in orphans', Live(o)'
      PROVE  EffectFits(o.session, disk[o.session], o.event)'
  <2>1. o \in orphans /\ Live(o) /\ o.sequence \in Nat /\ o.session \in Session
    BY <1>1, <1>7 DEF Live, TypeInv, TypeOK
  <2>2. o.session # cur
    BY <1>1, <1>3, <2>1 DEF JournalInv, Live
  <2> QED
    BY <1>1, <1>2, <2>1, <2>2 DEF EffectInv, DenialInv, EffectFits
<1>8. DenialInv'
  BY <1>1, <1>5, <1>6, <1>7 DEF EffectInv, DenialInv
<1>9. AnswerInv'
  BY <1>1 DEF EffectInv, AnswerInv, ToolPoints, BeforeStart
<1> QED
  BY <1>8, <1>9 DEF EffectInv

\* The model's requests; here the provider must not repeat an id of an earlier request.
LEMMA LoopEffect ==
  ASSUME ReusesIds = FALSE, TypeInv, StartInv, EffectInv, Loop
  PROVE  EffectInv'
<1> USE DEF InOperation
<1>1. CASE StopAtTop \/ StreamFails
  BY <1>1, FailEffect DEF StopAtTop, StreamFails
<1>2. CASE PrepareRequest \/ ReportUsage \/ RetryContext \/ RepairCitations \/ Answer
  <2>1. /\ pc' \in LoopPoints \ ToolPoints /\ (pc' = "rec_assistant" => run'.batch = {})
        /\ UNCHANGED <<disk, orphans, cur, mem, happened>> /\ InOperation
    BY <1>2 DEF PrepareRequest, ReportUsage, RetryContext, RepairCitations, Answer,
                LoopPoints, ToolPoints, BeforeStart, TypeInv, TypeOK, Run
  <2>2. AnswerInv'
    BY <2>1 DEF AnswerInv, ToolPoints, BeforeStart
  <2> QED
    BY <2>1, <2>2, QuietEffect
<1>3. ASSUME NEW calls \in SUBSET Call, RequestTools(calls) PROVE EffectInv'
  <2>1. /\ pc' = "rec_assistant" /\ run'.batch = calls /\ calls \cap Declared(mem) = {}
        /\ UNCHANGED <<disk, orphans, cur, mem, happened>> /\ InOperation
    BY <1>3 DEF RequestTools, TypeInv, TypeOK, Run
  <2>2. AnswerInv'
    BY <2>1 DEF AnswerInv, ToolPoints, BeforeStart
  <2> QED
    BY <2>1, <2>2, QuietEffect
<1> QED
  BY <1>1, <1>2, <1>3 DEF Loop

\* The tool batch.
LEMMA ToolsEffect ==
  ASSUME TypeInv, JournalInv, StartInv, EffectInv, Tools
  PROVE  EffectInv'
<1> USE DEF InOperation
<1>0. InOperation => /\ \A c \in Call : happened[cur][c] \in Nat
                     /\ run.call \subseteq Call /\ run.batch \subseteq Call
  BY DEF TypeInv, TypeOK, Run
<1>1. CASE BatchDone
  <2>1. AnswerInv'
    BY <1>1 DEF BatchDone, AnswerInv, ToolPoints, BeforeStart
  <2> QED
    BY <1>1, <2>1, QuietEffect DEF BatchDone
<1>2. CASE StopBatch
  BY <1>2, FailEffect DEF StopBatch
<1>3. ASSUME NEW c \in Call, NextCall(c) PROVE EffectInv'
  <2>1. /\ pc = "next_call" /\ pc' = "rec_requested" /\ c \in run.batch
        /\ run'.call = {c} /\ run'.batch = run.batch \ {c}
        /\ UNCHANGED <<disk, orphans, cur, mem, happened>> /\ InOperation
    BY <1>3 DEF NextCall, TypeInv, TypeOK, Run
  <2>2. c \notin Started(mem)
    BY <2>1 DEF StartInv, BatchInv, ToolPoints, LoopPoints
  <2>3. happened[cur][c] = 0
    BY <1>0, <2>1, <2>2 DEF StartInv, ActedInv
  <2>4. AnswerInv'
    BY <2>1, <2>3 DEF EffectInv, AnswerInv, ToolPoints, BeforeStart
  <2> QED
    BY <2>1, <2>4, QuietEffect
<1>4. ASSUME NEW verdict, RefuseCall \/ ReplanCall \/ Decide(verdict) PROVE EffectInv'
  <2>1. /\ pc = "checks" /\ pc' \in {"result", "rec_permission"}
        /\ run'.call = run.call /\ run'.batch = run.batch /\ run'.effect = run.effect
        /\ UNCHANGED <<disk, orphans, cur, mem, happened>> /\ InOperation
    BY <1>4 DEF RefuseCall, ReplanCall, Decide, TypeInv, TypeOK, Run
  <2>2. AnswerInv'
    BY <2>1 DEF EffectInv, AnswerInv, ToolPoints, BeforeStart
  <2> QED
    BY <2>1, <2>2, QuietEffect
<1>5. CASE HandlerActs
  BY <1>5, ActEffect
<1>6. ASSUME NEW stop, NEW failed, HandlerReturns(stop, failed) \/ HandlerLost(stop)
      PROVE  EffectInv'
  <2>1. /\ pc \in {"handler", "acted"} /\ pc' = "result"
        /\ run'.call = run.call /\ run'.batch = run.batch
        /\ UNCHANGED <<disk, orphans, cur, mem, happened>> /\ InOperation
    BY <1>6 DEF HandlerReturns, HandlerLost, TypeInv, TypeOK, Run
  <2>2. run'.effect = "none" => pc = "handler" \/ ~(run.call \subseteq Risky)
    BY <1>6 DEF HandlerReturns, HandlerLost, TypeInv, TypeOK, Run
  <2>3. run'.effect = "none" => pc = "handler"
    BY <2>1, <2>2 DEF EffectInv, AnswerInv
  <2>4. run'.effect = "none" => \A c \in run.call : happened[cur][c] = 0
    BY <2>3 DEF StartInv, BatchInv
  <2>5. AnswerInv'
    BY <2>1, <2>4 DEF EffectInv, AnswerInv, ToolPoints, BeforeStart
  <2> QED
    BY <2>1, <2>5, QuietEffect
<1>7. CASE ReportResult
  <2>1. /\ pc = "result" /\ pc' = "rec_completed"
        /\ run'.call = run.call /\ run'.batch \in {run.batch, {}} /\ run'.effect = run.effect
        /\ UNCHANGED <<disk, orphans, cur, mem, happened>> /\ InOperation
    BY <1>7 DEF ReportResult, TypeInv, TypeOK, Run
  <2>2. AnswerInv'
    BY <2>1 DEF EffectInv, AnswerInv, ToolPoints, BeforeStart
  <2> QED
    BY <2>1, <2>2, QuietEffect
<1> QED
  BY <1>1, <1>2, <1>3, <1>4, <1>5, <1>6, <1>7 DEF Tools

\* The coordinator opens its journal on the file as it is.
LEMMA CoordinatorEffect ==
  ASSUME TypeInv, EffectInv, Coordinator
  PROVE  EffectInv'
<1> USE DEF InOperation, LoopPoints, ToolPoints, BeforeStart
<1>1. CASE NewSession \/ Send
  <2>1. /\ pc' \notin LoopPoints /\ UNCHANGED <<disk, orphans, happened>>
        /\ InOperation' => cur' \in Session /\ mem' = disk[cur']
    BY <1>1 DEF NewSession, Send, TypeInv, TypeOK
  <2> QED
    BY <2>1, QuietDenials, NoAnswer DEF EffectInv
<1>2. CASE RejectInput \/ ResolveOperation \/ PrepareKnowledge \/ EnterLoop
  <2>1. /\ pc' \notin ToolPoints \cup {"rec_assistant"} /\ InOperation
        /\ UNCHANGED <<disk, orphans, cur, mem, happened>>
    BY <1>2 DEF RejectInput, ResolveOperation, PrepareKnowledge, EnterLoop
  <2>2. AnswerInv'
    BY <2>1 DEF AnswerInv
  <2> QED
    BY <2>1, <2>2, QuietEffect
<1> QED
  BY <1>1, <1>2 DEF Coordinator

\* Cancellation between records, crash, restart and resume.
LEMMA RecoveryEffect ==
  ASSUME TypeInv, JournalInv, EffectInv, Recovery
  PROVE  EffectInv'
<1> USE DEF InOperation, LoopPoints, ToolPoints, BeforeStart
<1>1. CASE CancelTask
  <2>1. InOperation /\ UNCHANGED <<disk, orphans, cur, happened>> /\ (Fail \/ End)
    BY <1>1 DEF CancelTask
  <2> QED
    BY <2>1, FailEffect, EndEffect
<1>2. CASE Crash \/ Restart
  <2>1. /\ pc' \notin LoopPoints /\ ~InOperation' /\ UNCHANGED <<disk, happened>>
        /\ orphans' \subseteq orphans
    BY <1>2 DEF Crash, Restart
  <2> QED
    BY <2>1, QuietDenials, NoAnswer DEF EffectInv
<1>3. ASSUME NEW s \in Session, ResumeClean(s) \/ ResumeInterrupted(s) \/ ResumeUncertain(s)
      PROVE  EffectInv'
  <2>1. pc' \notin LoopPoints /\ UNCHANGED <<disk, orphans, happened>>
    BY <1>3 DEF ResumeClean, ResumeInterrupted, ResumeUncertain, ClosingPoint
  <2>2. InOperation' => cur' \in Session /\ mem' = disk[cur']
    BY <1>3 DEF ResumeClean, ResumeInterrupted, ResumeUncertain, Fresh, Used, JournalInv
  <2> QED
    BY <2>1, <2>2, QuietDenials, NoAnswer DEF EffectInv
<1>4. CASE ResumeReopens
  <2>1. pc' \notin LoopPoints /\ UNCHANGED <<disk, orphans, happened>>
    BY <1>4 DEF ResumeReopens, ClosingPoint
  <2>2. cur' \in Session /\ mem' = disk[cur']
    BY <1>4 DEF ResumeReopens, TypeInv, TypeOK
  <2> QED
    BY <2>1, <2>2, QuietDenials, NoAnswer DEF EffectInv
<1> QED
  BY <1>1, <1>2, <1>3, <1>4 DEF Recovery

\* Every step keeps the effects on record.
LEMMA EffectStep ==
  ASSUME ReusesIds = FALSE, TypeInv, JournalInv, StartInv, EffectInv, [Next]_vars
  PROVE  EffectInv'
<1>1. CASE Journal
  <2>1. CASE RecordConflict
    <3>1. UNCHANGED <<disk, orphans, happened>> /\ InOperation
      BY <2>1 DEF RecordConflict, RecordPoints, InOperation
    <3>2. CASE pc \in InStream
      BY <2>1, <3>1, <3>2, FailEffect DEF RecordConflict, InStream, InResume
    <3>3. CASE pc \notin InStream
      BY <2>1, <3>1, <3>3, EndEffect DEF RecordConflict
    <3> QED
      BY <3>2, <3>3
  <2>2. ASSUME NEW o \in orphans, OrphanDies(o) PROVE EffectInv'
    <3>1. UNCHANGED <<disk, happened, cur, pc, mem, run>> /\ orphans' \subseteq orphans
      BY <2>2 DEF OrphanDies
    <3>2. DenialInv'
      BY <3>1 DEF EffectInv, DenialInv, InOperation, Live, EffectFits
    <3> QED
      BY <3>1, <3>2 DEF EffectInv, AnswerInv
  <2> QED
    BY <1>1, <2>1, <2>2, RecordEffect, CancelEffect, LandEffect DEF Journal
<1>2. CASE UNCHANGED vars
  BY <1>2 DEF vars, EffectInv, DenialInv, AnswerInv, InOperation, Live, EffectFits
<1> QED
  BY <1>1, <1>2, CoordinatorEffect, LoopEffect, ToolsEffect, RecoveryEffect DEF Next

\* Nothing has happened at first.
LEMMA EffectInit == Init => EffectInv
<1> SUFFICES ASSUME Init PROVE EffectInv
  OBVIOUS
<1>1. \A s \in Session : disk[s] = <<>> /\ \A c \in Call : happened[s][c] = 0
  BY DEF Init
<1>2. orphans = {} /\ pc = "idle"
  BY DEF Init
<1> QED
  BY <1>1, <1>2 DEF EffectInv, DenialInv, AnswerInv, TurnsAgree, InOperation, ToolPoints,
                    BeforeStart

\* What acted was started, so either it has no result, and is uncertain, or its
\* last result does not deny it.
LEMMA NoDenialAccounts ==
  ASSUME TypeInv, StartInv, EffectInv
  PROVE  EffectAccounted
<1> SUFFICES ASSUME NEW s \in Session, NEW c \in Call, happened[s][c] > 0
             PROVE  c \in Uncertain(disk[s]) \/ LastResult(disk[s], c, "applied")
  BY DEF EffectAccounted
<1> DEFINE log == disk[s]
           results == {i \in 1..Len(log) : IsResultOf(log[i], c)}
<1>1. c \in Started(log) /\ c \in Risky /\ log \in Seq(Event)
  BY DEF StartInv, ActedInv, WriteAhead, EffectInv, DenialInv, TypeInv, TypeOK
<1>2. CASE results = {}
  <2>1. c \notin Completed(log)
    BY <1>1, <1>2, InCalls DEF Completed, IsResultOf
  <2> QED
    BY <1>1, <2>1 DEF Uncertain
<1>3. CASE results # {}
  <2>1. PICK m \in results : \A j \in results : m >= j
    <3>1. results \subseteq 0..Len(log) /\ Len(log) \in Nat
      BY <1>1
    <3> QED
      BY <1>3, <3>1, MaxIsElement
  <2>2. m \in 1..Len(log) /\ IsResultOf(log[m], c)
    BY <2>1
  <2>3. \A j \in DOMAIN log : j > m => ~IsResultOf(log[j], c)
    <3>1. ASSUME NEW j \in DOMAIN log, j > m, IsResultOf(log[j], c) PROVE FALSE
      <4>1. j \in results
        BY <1>1, <3>1
      <4> QED
        BY <1>1, <2>1, <2>2, <3>1, <4>1
    <3> QED
      BY <3>1
  <2>4. log[m].effect \in {"applied", "unknown"}
    <3>1. log[m].effect \in Effect
      <4>1. log[m] \in Event
        BY <1>1, <2>2
      <4> QED
        BY <4>1 DEF Event
    <3>2. log[m].effect # "none"
      BY <2>2 DEF EffectInv, DenialInv, Denies, IsResultOf
    <3> QED
      BY <3>1, <3>2 DEF Effect
  <2>5. LastResult(log, c, log[m].effect)
    BY <1>1, <2>2, <2>3 DEF LastResult
  <2> QED
    BY <2>4, <2>5 DEF Uncertain
<1> QED
  BY <1>2, <1>3

\* With a provider that does not repeat ids across requests, an effect that
\* happened is on record as applied or keeps its session uncertain.
THEOREM EffectsAreAccounted ==
  ASSUME ReusesIds = FALSE
  PROVE  Spec => []EffectAccounted
<1>1. Init => EffectInv
  BY EffectInit
<1>2. TypeInv /\ JournalInv /\ StartInv /\ EffectInv /\ [Next]_vars => EffectInv'
  BY EffectStep
<1>3. TypeInv /\ StartInv /\ EffectInv => EffectAccounted
  BY NoDenialAccounts
<1> QED
  BY <1>1, <1>2, <1>3, StartInvariant, PTL DEF Spec

-------------------------------------------------------------------------------
(***************************************************************************)
(* The end of a turn.  An operation records only for a turn that has not   *)
(* ended and ends it once its calls are answered; an append that lands     *)
(* late fits the file it lands on in the same sense.  Only a resume may    *)
(* still write an end: what landed after its first read was not its own    *)
(* kind of end, and is the last line of the file.                          *)
(***************************************************************************)

Ended(log) == {log[i].turn : i \in {j \in 1..Len(log) : log[j].type \in TerminalType}}

\* A turn has one end, or that of a resume directly after another.
EndsOnce(log) ==
  \A i, j \in 1..Len(log) :
    log[i].type \in TerminalType /\ i < j /\ log[j].turn = log[i].turn =>
      /\ j = i + 1 /\ log[j].type = "turn_interrupted"
      /\ log[i].type # "turn_interrupted"

\* Turns end so, after all that is recorded of them, with their calls answered.
EndsWell(log, last) ==
  /\ \A i \in 1..Len(log) : log[i].turn <= last
  /\ NoTurn \notin Ended(log)
  /\ EndsOnce(log)
  /\ \A t \in Ended(log) : PendingCalls(log, t) = {}

\* The log closes with the end of the turn, and not with that of a resume.
JustEnded(log, turn) ==
  /\ log # <<>>
  /\ log[Len(log)].turn = turn
  /\ log[Len(log)].type \in TerminalType \ {"turn_interrupted"}

\* An event of a turn that has not ended, or its late end by a resume; if it is an
\* end, nothing is left open.
EndFits(log, e, last) ==
  /\ e.turn <= last
  /\ e.turn \in Ended(log) => e.type = "turn_interrupted" /\ JustEnded(log, e.turn)
  /\ e.type \in TerminalType => e.turn # NoTurn /\ PendingCalls(log, e.turn) = {}

EndLogInv ==
  /\ \A s \in Session : EndsWell(disk[s], turns)
  /\ InOperation => EndsWell(mem, turns)
  /\ \A o \in orphans : Live(o) => EndFits(disk[o.session], o.event, turns)
  /\ \A o \in orphans : o.event.type # "turn_interrupted"

\* Where an operation has a turn, and where all calls of that turn are answered.
Recovering == {"rec_recovery_session", "rec_snapshot"}

TurnPoints == Point \ ({"idle", "down"} \cup Recovering)

Ending == {"rec_turn_completed", "rec_turn_failed", "rec_stream_failed", "rec_rejected",
           "rec_resume_failed"}

Answered ==
  Ending \cup {"rec_session", "rec_user", "accepted", "rec_resolved", "rec_retrieval",
               "retrieved", "top", "rec_request", "stream", "rec_usage", "streamed",
               "rec_assistant"}

\* The open calls of the running turn are those of its batch.
OpenInv ==
  /\ pc \in TurnPoints => run.turn \in 1..turns
  /\ pc \in TurnPoints /\ run.turn \in Ended(mem) =>
       pc = "rec_resume_failed" /\ JustEnded(mem, run.turn)
  /\ pc = "resume_read" =>
       \A i \in (Len(mem) + 1)..Len(disk[cur]) : disk[cur][i].type # "turn_interrupted"
  /\ pc \in Recovering => snapshot.turn = NoTurn
  /\ pc \in Answered => PendingCalls(mem, run.turn) = {}
  /\ pc = "next_call" => PendingCalls(mem, run.turn) \subseteq run.batch
  /\ pc \in ToolPoints \ {"next_call"} =>
       \/ PendingCalls(mem, run.turn) \subseteq run.batch \cup run.call
       \/ pc = "rec_completed" /\ run.verdict = "replan"

EndInv == EndLogInv /\ OpenInv

\* An appended event adds itself to what the log says of ends and open calls.
LEMMA AppendEnded ==
  ASSUME NEW log \in Seq(Event), NEW e \in Event
  PROVE  /\ Ended(Append(log, e)) =
              Ended(log) \cup (IF e.type \in TerminalType THEN {e.turn} ELSE {})
         /\ \A t : t # e.turn => PendingCalls(Append(log, e), t) = PendingCalls(log, t)
         /\ e.type # "assistant_message" =>
              \A t : PendingCalls(Append(log, e), t) \subseteq PendingCalls(log, t)
         /\ e.type = "assistant_message" =>
              \A t : PendingCalls(Append(log, e), t) \subseteq PendingCalls(log, t) \cup e.calls
         /\ e.type = "execution_completed" =>
              PendingCalls(Append(log, e), e.turn) = PendingCalls(log, e.turn) \ e.calls
<1> DEFINE new == Append(log, e)
<1>1. /\ Len(new) = Len(log) + 1 /\ Len(log) \in Nat
      /\ \A i \in 1..Len(log) : new[i] = log[i]
      /\ new[Len(log) + 1] = e
  OBVIOUS
<1>2. \A t : /\ DeclaredIn(new, t) = DeclaredIn(log, t) \cup
                  (IF e.type = "assistant_message" /\ e.turn = t THEN e.calls ELSE {})
             /\ CompletedIn(new, t) = CompletedIn(log, t) \cup
                  (IF e.type = "execution_completed" /\ e.turn = t THEN e.calls ELSE {})
  BY AppendCalls DEF DeclaredIn, CompletedIn
<1> HIDE DEF new
<1>3. Ended(new) = Ended(log) \cup (IF e.type \in TerminalType THEN {e.turn} ELSE {})
  BY <1>1 DEF Ended
<1> QED
  BY <1>2, <1>3 DEF PendingCalls, new

\* An event that fits leaves the turns of a log well ended.
LEMMA AppendEndsWell ==
  ASSUME NEW log \in Seq(Event), NEW e \in Event, NEW last,
         EndsWell(log, last), EndFits(log, e, last)
  PROVE  EndsWell(Append(log, e), last)
<1> DEFINE new == Append(log, e)
<1>1. /\ Len(new) = Len(log) + 1 /\ Len(log) \in Nat
      /\ \A i \in 1..Len(log) : new[i] = log[i]
      /\ new[Len(log) + 1] = e
  OBVIOUS
<1>2. /\ Ended(new) = Ended(log) \cup (IF e.type \in TerminalType THEN {e.turn} ELSE {})
      /\ \A t : t # e.turn => PendingCalls(new, t) = PendingCalls(log, t)
      /\ e.type # "assistant_message" =>
           \A t : PendingCalls(new, t) \subseteq PendingCalls(log, t)
  BY AppendEnded
<1> HIDE DEF new
<1>3. \A i \in 1..Len(new) : new[i].turn <= last
  BY <1>1 DEF EndsWell, EndFits
<1>4. NoTurn \notin Ended(new)
  BY <1>2 DEF EndsWell, EndFits
<1>5. ASSUME NEW i \in 1..Len(new), NEW j \in 1..Len(new), new[i].type \in TerminalType,
             i < j, new[j].turn = new[i].turn
      PROVE  /\ j = i + 1 /\ new[j].type = "turn_interrupted"
             /\ new[i].type # "turn_interrupted"
  <2>1. i \in 1..Len(log) /\ new[i] = log[i]
    BY <1>1, <1>5
  <2>2. CASE j \in 1..Len(log)
    BY <1>1, <1>5, <2>1, <2>2 DEF EndsWell, EndsOnce
  <2>3. CASE j = Len(log) + 1
    <3>1. e.type = "turn_interrupted" /\ JustEnded(log, e.turn) /\ new[j] = e
      BY <1>1, <1>5, <2>1, <2>3 DEF EndFits, Ended
    <3>2. i = Len(log)
      <4>1. Len(log) \in 1..Len(log)
        BY <1>1, <2>1
      <4>2. i < Len(log) => log[Len(log)].type = "turn_interrupted"
        BY <1>5, <2>1, <3>1, <4>1 DEF EndsWell, EndsOnce, JustEnded
      <4> QED
        BY <1>1, <2>1, <3>1, <4>2 DEF JustEnded
    <3> QED
      BY <1>1, <2>1, <2>3, <3>1, <3>2 DEF JustEnded
  <2> QED
    BY <1>1, <2>2, <2>3
<1>6. \A t \in Ended(new) : PendingCalls(new, t) = {}
  BY <1>2 DEF EndsWell, EndFits, TerminalType
<1> QED
  BY <1>3, <1>4, <1>5, <1>6 DEF EndsWell, EndsOnce, new

\* After an append to one file, a late append that can still land is for another.
LEMMA AppendLive ==
  ASSUME TypeInv, JournalInv, NEW s \in Session, NEW e \in Event,
         disk' = [disk EXCEPT ![s] = Append(@, e)], orphans' \subseteq orphans,
         NEW o \in orphans', Live(o)'
  PROVE  /\ o \in orphans /\ Live(o) /\ o.session \in Session
         /\ disk'[o.session] = disk[o.session]
<1>1. /\ disk'[s] = Append(disk[s], e) /\ disk[s] \in Seq(Event)
      /\ \A r \in Session \ {s} : disk'[r] = disk[r]
  BY DEF TypeInv, TypeOK
<1>2. o \in orphans /\ o.session \in Session /\ o.sequence \in Nat
  BY DEF TypeInv, TypeOK
<1>3. o.sequence <= Len(disk[o.session]) + 1 /\ o.sequence = Len(disk'[o.session]) + 1
  BY <1>2 DEF JournalInv, Live
<1>4. o.session # s
  BY <1>1, <1>2, <1>3
<1> QED
  BY <1>1, <1>2, <1>3, <1>4 DEF Live

\* What is being recorded belongs to the running turn, or to none.
LEMMA PendingEnds ==
  ASSUME TypeInv, pc \in RecordPoints
  PROVE  /\ PendingEvent.type \in TerminalType <=> pc \in Ending
         /\ pc \in Ending => PendingEvent.turn = run.turn
         /\ PendingEvent.turn = run.turn \/ PendingEvent.turn = NoTurn \/ pc = "rec_snapshot"
         /\ pc = "rec_snapshot" => PendingEvent.turn = snapshot.turn
         /\ pc = "rec_resume_failed" => PendingEvent.type = "turn_interrupted"
         /\ pc \notin {"rec_resume_failed", "rec_snapshot"} =>
              PendingEvent.type # "turn_interrupted"
<1> USE DEF TerminalType, Ending
<1>1. CASE pc = "rec_snapshot"
  BY <1>1 DEF PendingEvent, TypeInv
<1>2. CASE pc \in Closing
  BY <1>2 DEF PendingEvent, NewEvent, Closing
<1>3. CASE pc \in {"rec_session", "rec_recovery_session", "rec_user", "rec_resolved",
                   "rec_retrieval", "rec_request", "rec_usage", "rec_assistant"}
  BY <1>3 DEF PendingEvent, NewEvent, NoTurn
<1>4. CASE pc \in {"rec_requested", "rec_permission", "rec_started", "rec_completed"} \cup Ending
  BY <1>4 DEF PendingEvent, NewEvent, NoTurn
<1> QED
  BY <1>1, <1>2, <1>3, <1>4 DEF RecordPoints, Closing

\* It fits the journal, hence the file it finds where it expects it.
LEMMA PendingEndFits ==
  ASSUME TypeInv, JournalInv, EndInv, pc \in RecordPoints
  PROVE  EndFits(mem, PendingEvent, turns)
<1>1. InOperation /\ turns \in Nat /\ run.turn \in Nat
  BY DEF RecordPoints, InOperation, TypeInv, TypeOK, Run
<1>2. EndsWell(mem, turns)
  BY <1>1 DEF EndInv, EndLogInv
<1>3. CASE pc \in Recovering
  <2>1. PendingEvent.turn = NoTurn /\ PendingEvent.type \notin TerminalType
    BY <1>3, PendingEnds DEF EndInv, OpenInv, Recovering, Ending, PendingEvent, NewEvent
  <2> QED
    BY <1>1, <1>2, <2>1 DEF EndFits, EndsWell, NoTurn
<1>4. CASE pc \notin Recovering
  <2>1. pc \in TurnPoints /\ pc # "rec_snapshot"
    BY <1>4 DEF TurnPoints, Recovering, Point, RecordPoints
  <2>2. /\ run.turn \in 1..turns
        /\ run.turn \in Ended(mem) => pc = "rec_resume_failed" /\ JustEnded(mem, run.turn)
    BY <2>1 DEF EndInv, OpenInv
  <2>3. PendingEvent.turn = run.turn \/ PendingEvent.turn = NoTurn
    BY <2>1, PendingEnds
  <2>4. /\ PendingEvent.turn <= turns
        /\ PendingEvent.turn \in Ended(mem) =>
             PendingEvent.type = "turn_interrupted" /\ JustEnded(mem, PendingEvent.turn)
    BY <1>1, <1>2, <2>2, <2>3, PendingEnds DEF EndsWell, NoTurn
  <2>5. PendingEvent.type \in TerminalType =>
          PendingEvent.turn # NoTurn /\ PendingCalls(mem, PendingEvent.turn) = {}
    BY <1>1, <2>2, PendingEnds DEF EndInv, OpenInv, Answered, NoTurn
  <2> QED
    BY <2>4, <2>5 DEF EndFits
<1> QED
  BY <1>3, <1>4

\* Where a record leads, as far as the turn and its open calls go.
LEMMA AfterRecordEnds ==
  ASSUME pc \in RecordPoints, NEW log, NEW next, next = AfterRecord(log), next # "idle"
  PROVE  /\ pc \notin Ending
         /\ next \in TurnPoints => pc \in TurnPoints
         /\ next \in Recovering => pc \in Recovering
         /\ next \in Answered =>
              \/ pc \in Answered \ {"rec_assistant"}
              \/ pc = "rec_assistant" /\ run.batch = {}
              \/ PendingCalls(log, run.turn) = {}
         /\ next = "next_call" =>
              pc = "rec_assistant" \/ (pc = "rec_completed" /\ run.verdict # "replan")
         /\ next \in ToolPoints \ {"next_call"} =>
              pc \in ToolPoints \ {"next_call", "rec_completed"}
<1> USE DEF AfterRecord, AfterPermission, ClosingPoint
<1>1. CASE pc \in {"rec_session", "rec_user", "rec_rejected", "rec_resolved", "rec_retrieval",
                   "rec_request", "rec_usage", "rec_turn_completed", "rec_turn_failed",
                   "rec_stream_failed", "rec_resume_failed", "rec_recovery_session",
                   "rec_snapshot"}
  BY <1>1 DEF Ending, TurnPoints, Point, RecordPoints, OtherPoints, Recovering, Answered,
              ToolPoints, BeforeStart
<1>2. CASE pc \in {"rec_assistant", "rec_requested", "rec_permission", "rec_started"}
  BY <1>2 DEF Ending, TurnPoints, Point, RecordPoints, OtherPoints, Recovering, Answered,
              ToolPoints, BeforeStart
<1>3. CASE pc \in Closing \cup {"rec_completed"}
  BY <1>3 DEF Closing, Ending, TurnPoints, Point, RecordPoints, OtherPoints, Recovering,
              Answered, ToolPoints, BeforeStart
<1> QED
  BY <1>1, <1>2, <1>3 DEF RecordPoints, Closing

\* An event that fits, appended to one file.
LEMMA AppendEndLogs ==
  ASSUME TypeInv, JournalInv, EndLogInv, NEW s \in Session, NEW e \in Event,
         EndFits(disk[s], e, turns), disk' = [disk EXCEPT ![s] = Append(@, e)],
         orphans' \subseteq orphans, UNCHANGED turns
  PROVE  /\ \A r \in Session : EndsWell(disk'[r], turns')
         /\ \A o \in orphans' : Live(o)' => EndFits(disk'[o.session], o.event, turns')
<1>1. /\ disk'[s] = Append(disk[s], e) /\ disk[s] \in Seq(Event)
      /\ \A r \in Session \ {s} : disk'[r] = disk[r]
  BY DEF TypeInv, TypeOK
<1>2. EndsWell(disk'[s], turns) /\ \A r \in Session \ {s} : EndsWell(disk'[r], turns)
  BY <1>1, AppendEndsWell DEF EndLogInv
<1>3. \A r \in Session : EndsWell(disk'[r], turns')
  BY <1>2
<1>4. ASSUME NEW o \in orphans', Live(o)'
      PROVE  EndFits(disk'[o.session], o.event, turns')
  <2>1. /\ o \in orphans /\ Live(o) /\ o.session \in Session
        /\ disk'[o.session] = disk[o.session]
    BY <1>4, AppendLive
  <2> QED
    BY <2>1 DEF EndLogInv
<1> QED
  BY <1>3, <1>4

\* A step that writes no log, and at most opens a journal on a file.
LEMMA QuietEndLogs ==
  ASSUME TypeInv, EndLogInv, UNCHANGED disk, orphans' \subseteq orphans,
         turns' \in Nat, turns' >= turns,
         InOperation' => \/ InOperation /\ UNCHANGED <<cur, mem>>
                         \/ cur' \in Session /\ mem' = disk[cur']
  PROVE  EndLogInv'
<1>1. ASSUME NEW log \in Seq(Event), EndsWell(log, turns) PROVE EndsWell(log, turns')
  <2>1. \A i \in 1..Len(log) : log[i].turn \in Nat /\ log[i].turn <= turns'
    <3>1. \A i \in 1..Len(log) : log[i].turn \in Nat
      <4>1. \A i \in 1..Len(log) : log[i] \in Event
        OBVIOUS
      <4> QED
        BY <4>1 DEF Event
    <3> QED
      BY <1>1, <3>1 DEF EndsWell, TypeInv, TypeOK
  <2> QED
    BY <1>1, <2>1 DEF EndsWell
<1>2. \A s \in Session : EndsWell(disk'[s], turns')
  BY <1>1 DEF EndLogInv, TypeInv, TypeOK
<1>3. InOperation' => EndsWell(mem', turns')
  BY <1>1, <1>2 DEF EndLogInv, TypeInv, TypeOK
<1>4. ASSUME NEW o \in orphans', Live(o)' PROVE EndFits(disk'[o.session], o.event, turns')
  <2>1. o \in orphans /\ Live(o) /\ disk' = disk
    BY <1>4 DEF Live
  <2>2. o.event.turn \in Nat /\ turns \in Nat
    <3>1. o.event \in Event
      BY <2>1 DEF TypeInv, TypeOK
    <3> QED
      BY <3>1 DEF Event, TypeInv, TypeOK
  <2>3. EndFits(disk[o.session], o.event, turns)
    BY <2>1 DEF EndLogInv
  <2> QED
    BY <2>1, <2>2, <2>3 DEF EndFits
<1> QED
  BY <1>2, <1>3, <1>4 DEF EndLogInv

\* Where an operation is over, or only recovers, nothing is asked of its turn.
LEMMA NoOpenTurn ==
  ASSUME pc' \in {"idle", "down"}
  PROVE  OpenInv'
BY DEF OpenInv, TurnPoints, Recovering, Answered, Ending, ToolPoints, BeforeStart

\* A failing turn ends only when its calls are answered.
LEMMA FailEnds ==
  ASSUME TypeInv, EndInv, pc \in TurnPoints \ {"rec_resume_failed"}, Fail \/ FailInStream,
         UNCHANGED <<disk, orphans, cur, turns>>
  PROVE  EndInv'
<1>1. InOperation /\ turns \in Nat
  BY DEF TurnPoints, InOperation, TypeInv, TypeOK
<1>2. /\ pc' \in FailPoints /\ UNCHANGED <<mem, run, snapshot>>
      /\ pc' \in Answered => PendingCalls(mem, run.turn) = {}
  BY FailType DEF Fail, FailInStream, ClosingPoint, FailPoints, Answered, Ending
<1>3. OpenInv'
  BY <1>2 DEF EndInv, OpenInv, Recovering, ToolPoints, BeforeStart, FailPoints
<1>4. EndLogInv'
  BY <1>1, <1>2, QuietEndLogs DEF EndInv
<1> QED
  BY <1>3, <1>4 DEF EndInv

\* An operation that is over leaves its turn as it is.
LEMMA EndEnds ==
  ASSUME TypeInv, EndInv, End, UNCHANGED <<disk, orphans, turns>>
  PROVE  EndInv'
<1>1. pc' = "idle" /\ ~InOperation' /\ turns \in Nat
  BY DEF End, InOperation, TypeInv, TypeOK
<1> QED
  BY <1>1, NoOpenTurn, QuietEndLogs DEF EndInv

\* A step inside an operation that writes no log only has its turn to keep.
LEMMA QuietEnds ==
  ASSUME TypeInv, EndInv, InOperation, UNCHANGED <<disk, orphans, cur, mem, turns>>, OpenInv'
  PROVE  EndInv'
<1>1. turns \in Nat
  BY DEF TypeInv, TypeOK
<1> QED
  BY <1>1, QuietEndLogs DEF EndInv

\* A record.
LEMMA RecordEnds ==
  ASSUME TypeInv, JournalInv, EndInv, RecordStep
  PROVE  EndInv'
<1> DEFINE e == PendingEvent
           log == Append(mem, e)
<1>1. /\ pc \in RecordPoints /\ InOperation /\ cur \in Session /\ e \in Event
      /\ mem \in Seq(Event)
  BY PendingEventType DEF RecordStep, RecordPoints, InOperation, TypeInv, TypeOK
<1>2. mem = disk[cur]
  BY <1>1, SameLog DEF RecordStep, NextInFile
<1>3. EndFits(mem, e, turns) /\ EndsWell(mem, turns)
  BY <1>1, PendingEndFits DEF EndInv, EndLogInv
<1>4. UNCHANGED <<orphans, cur, turns>> /\ disk' = [disk EXCEPT ![cur] = Append(@, e)]
  BY DEF RecordStep
<1>5. /\ \A r \in Session : EndsWell(disk'[r], turns')
      /\ \A o \in orphans' : Live(o)' => EndFits(disk'[o.session], o.event, turns')
  BY <1>1, <1>2, <1>3, <1>4, AppendEndLogs DEF EndInv
<1>6. CASE AfterRecord(log) = "idle"
  <2>1. ~InOperation' /\ pc' = "idle"
    BY <1>6 DEF RecordStep, End, InOperation
  <2> QED
    BY <1>4, <1>5, <2>1, NoOpenTurn DEF EndInv, EndLogInv
<1>7. CASE AfterRecord(log) # "idle"
  <2>1. pc' = AfterRecord(log) /\ mem' = log /\ UNCHANGED <<run, snapshot>>
    BY <1>7 DEF RecordStep
  <2>2. EndLogInv'
    <3>1. EndsWell(mem', turns')
      BY <1>1, <1>3, <1>4, <2>1, AppendEndsWell
    <3> QED
      BY <1>4, <1>5, <3>1 DEF EndInv, EndLogInv
  <2>3. /\ pc \notin Ending
        /\ pc' \in TurnPoints => pc \in TurnPoints
        /\ pc' \in Recovering => pc \in Recovering
        /\ pc' \in Answered =>
              \/ pc \in Answered \ {"rec_assistant"}
              \/ pc = "rec_assistant" /\ run.batch = {}
              \/ PendingCalls(mem', run.turn) = {}
        /\ pc' = "next_call" =>
              pc = "rec_assistant" \/ (pc = "rec_completed" /\ run.verdict # "replan")
        /\ pc' \in ToolPoints \ {"next_call"} =>
              pc \in ToolPoints \ {"next_call", "rec_completed"}
    BY <1>1, <1>7, <2>1, AfterRecordEnds
  <2>4. e.type \notin TerminalType
    BY <1>1, <2>3, PendingEnds
  <2>5. /\ Ended(mem') = Ended(mem)
        /\ pc # "rec_assistant" => PendingCalls(mem', run.turn) \subseteq PendingCalls(mem, run.turn)
        /\ pc = "rec_assistant" =>
             PendingCalls(mem', run.turn) \subseteq PendingCalls(mem, run.turn) \cup run.batch
        /\ pc = "rec_completed" =>
             PendingCalls(mem', run.turn) = PendingCalls(mem, run.turn) \ run.call
    BY <1>1, <2>1, <2>4, AppendEnded, PendingEventIs
  <2>6. /\ pc' \in TurnPoints => run'.turn \in 1..turns' /\ run'.turn \notin Ended(mem')
        /\ pc' # "resume_read"
        /\ pc' \in Recovering => snapshot'.turn = NoTurn
    BY <1>1, <1>4, <2>1, <2>3, <2>5, AfterRecordIsNotActed DEF EndInv, OpenInv, Ending
  <2>7. pc' \in Answered => PendingCalls(mem', run'.turn) = {}
    BY <2>1, <2>3, <2>5 DEF EndInv, OpenInv, Answered
  <2>8. pc' = "next_call" => PendingCalls(mem', run'.turn) \subseteq run'.batch
    BY <2>1, <2>3, <2>5 DEF EndInv, OpenInv, Answered, ToolPoints
  <2>9. pc' \in ToolPoints \ {"next_call"} =>
          PendingCalls(mem', run'.turn) \subseteq run'.batch \cup run'.call
    BY <2>1, <2>3, <2>5 DEF EndInv, OpenInv, ToolPoints, BeforeStart
  <2>10. OpenInv'
    BY <2>6, <2>7, <2>8, <2>9 DEF OpenInv
  <2> QED
    BY <2>2, <2>10 DEF EndInv
<1> QED
  BY <1>6, <1>7

\* The cancellation of a record.
LEMMA CancelEnds ==
  ASSUME TypeInv, JournalInv, EndInv, NEW threadRuns \in BOOLEAN, CancelRecord(threadRuns)
  PROVE  EndInv'
<1>1. /\ pc \in RecordPoints /\ InOperation /\ cur \in Session
      /\ mem \in Seq(Event) /\ UNCHANGED <<disk, cur, turns>>
  BY DEF CancelRecord, RecordPoints, InOperation, TypeInv, TypeOK
<1> DEFINE new == [session |-> cur, sequence |-> Len(mem) + 1, event |-> PendingEvent]
<1>2. orphans' \subseteq orphans \cup {new}
  BY DEF CancelRecord
<1>3. ASSUME Live(new) PROVE EndFits(disk[cur], PendingEvent, turns)
  <2>1. Len(mem) = Len(disk[cur])
    BY <1>1, <1>3, InOperationSession DEF Live
  <2> QED
    BY <1>1, <2>1, SameLog, PendingEndFits
<1>4. /\ \A o \in orphans' : Live(o)' => EndFits(disk'[o.session], o.event, turns')
      /\ \A o \in orphans' : o.event.type # "turn_interrupted"
  <2>1. PendingEvent.type # "turn_interrupted"
    BY <1>1, PendingEnds DEF CancelRecord, InResume
  <2> QED
    BY <1>1, <1>2, <1>3, <2>1 DEF EndInv, EndLogInv, Live
<1>5. InOperation' => UNCHANGED mem
  BY FailType DEF CancelRecord, End, InOperation
<1>6. EndLogInv'
  BY <1>1, <1>4, <1>5 DEF EndInv, EndLogInv
<1>7. OpenInv'
  <2>1. CASE pc \in InStream \cup InExecute
    <3>1. pc \in TurnPoints \ {"rec_resume_failed"} /\ Fail
      BY <1>1, <2>1 DEF CancelRecord, TurnPoints, InStream, InExecute, Point, OtherPoints,
                        Recovering
    <3>2. /\ pc' \in FailPoints /\ UNCHANGED <<mem, run, snapshot>>
          /\ pc' \in Answered => PendingCalls(mem, run.turn) = {}
      BY <3>1, FailType DEF Fail, ClosingPoint, FailPoints, Answered, Ending
    <3> QED
      BY <1>1, <3>1, <3>2 DEF EndInv, OpenInv, Recovering, ToolPoints, BeforeStart, FailPoints
  <2>2. CASE pc \notin InStream \cup InExecute
    BY <2>2, NoOpenTurn DEF CancelRecord, End
  <2> QED
    BY <2>1, <2>2
<1> QED
  BY <1>6, <1>7 DEF EndInv

\* A cancelled append that lands after all.
LEMMA LandEnds ==
  ASSUME TypeInv, JournalInv, EndInv, NEW o \in orphans, OrphanLands(o)
  PROVE  EndInv'
<1>1. /\ o.session \in Session /\ o.event \in Event /\ Live(o)
      /\ disk' = [disk EXCEPT ![o.session] = Append(@, o.event)]
      /\ orphans' \subseteq orphans /\ UNCHANGED <<cur, pc, mem, run, snapshot, turns>>
  BY DEF OrphanLands, TypeInv, TypeOK, Live
<1>2. EndFits(disk[o.session], o.event, turns)
  BY <1>1 DEF EndInv, EndLogInv
<1>3. /\ \A r \in Session : EndsWell(disk'[r], turns')
      /\ \A q \in orphans' : Live(q)' => EndFits(disk'[q.session], q.event, turns')
  BY <1>1, <1>2, AppendEndLogs DEF EndInv
<1>4. EndLogInv'
  BY <1>1, <1>3 DEF EndInv, EndLogInv, InOperation
<1>5. ASSUME pc = "resume_read"
      PROVE  \A i \in (Len(mem) + 1)..Len(disk'[cur]) : disk'[cur][i].type # "turn_interrupted"
  <2>1. /\ \A i \in (Len(mem) + 1)..Len(disk[cur]) : disk[cur][i].type # "turn_interrupted"
        /\ o.event.type # "turn_interrupted" /\ cur \in Session /\ Len(mem) \in Nat
        /\ disk[cur] \in Seq(Event) /\ disk \in [Session -> Seq(Event)]
    BY <1>5 DEF EndInv, EndLogInv, OpenInv, TypeInv, TypeOK
  <2>2. CASE cur = o.session
    BY <1>1, <2>1, <2>2
  <2>3. CASE cur # o.session
    BY <1>1, <2>1, <2>3
  <2> QED
    BY <2>2, <2>3
<1> QED
  BY <1>1, <1>4, <1>5 DEF EndInv, OpenInv

\* The model's requests.
LEMMA LoopEnds ==
  ASSUME TypeInv, JournalInv, EndInv, Loop
  PROVE  EndInv'
<1> USE DEF InOperation
<1>1. CASE StopAtTop \/ StreamFails
  <2>1. /\ pc \in {"top", "stream", "streamed"} /\ (Fail \/ FailInStream)
        /\ UNCHANGED <<disk, orphans, cur, turns>>
    BY <1>1 DEF StopAtTop, StreamFails
  <2> QED
    BY <2>1, FailEnds DEF TurnPoints, Point, OtherPoints, Recovering
<1>2. CASE PrepareRequest \/ ReportUsage \/ RetryContext \/ RepairCitations \/ Answer
  <2>1. /\ pc \in (Answered \cap TurnPoints) \ {"rec_resume_failed"}
        /\ pc' \in Answered \ Ending
        /\ run'.turn = run.turn
        /\ UNCHANGED <<disk, orphans, cur, mem, turns>> /\ InOperation
    BY <1>2 DEF PrepareRequest, ReportUsage, RetryContext, RepairCitations, Answer, Ending,
                TurnPoints, Point, RecordPoints, OtherPoints, Recovering, Answered,
                TypeInv, TypeOK, Run
  <2>2. OpenInv'
    BY <2>1 DEF EndInv, OpenInv, Answered, Ending, Recovering, ToolPoints, BeforeStart
  <2> QED
    BY <2>1, <2>2, QuietEnds
<1>3. ASSUME NEW calls \in SUBSET Call, RequestTools(calls) PROVE EndInv'
  <2>1. /\ pc \in (Answered \cap TurnPoints) \ {"rec_resume_failed"}
        /\ pc' = "rec_assistant" /\ run'.turn = run.turn
        /\ UNCHANGED <<disk, orphans, cur, mem, turns>> /\ InOperation
    BY <1>3 DEF RequestTools, TurnPoints, Point, RecordPoints, OtherPoints, Recovering,
                Answered, TypeInv, TypeOK, Run
  <2>2. OpenInv'
    BY <2>1 DEF EndInv, OpenInv, Answered, Ending, Recovering, ToolPoints, BeforeStart
  <2> QED
    BY <2>1, <2>2, QuietEnds
<1> QED
  BY <1>1, <1>2, <1>3 DEF Loop

\* The tool batch: the call in hand and those after it are the open ones.
LEMMA ToolsEnds ==
  ASSUME TypeInv, JournalInv, EndInv, Tools
  PROVE  EndInv'
<1> USE DEF InOperation
<1>1. CASE BatchDone
  <2>1. /\ pc = "next_call" /\ pc' = "top" /\ run.batch = {} /\ run'.turn = run.turn
        /\ UNCHANGED <<disk, orphans, cur, mem, turns>>
    BY <1>1 DEF BatchDone, TypeInv, TypeOK, Run
  <2>2. OpenInv'
    BY <2>1 DEF EndInv, OpenInv, TurnPoints, Point, RecordPoints, OtherPoints, Recovering,
                ToolPoints, BeforeStart
  <2> QED
    BY <2>1, <2>2, QuietEnds
<1>2. CASE StopBatch
  <2>1. pc = "next_call" /\ Fail /\ UNCHANGED <<disk, orphans, cur, turns>>
    BY <1>2 DEF StopBatch
  <2> QED
    BY <2>1, FailEnds DEF TurnPoints, Point, OtherPoints, Recovering
<1>3. ASSUME NEW c \in Call, NextCall(c) PROVE EndInv'
  <2>1. /\ pc = "next_call" /\ pc' = "rec_requested" /\ run'.turn = run.turn
        /\ run'.call = {c} /\ run'.batch = run.batch \ {c}
        /\ UNCHANGED <<disk, orphans, cur, mem, turns>>
    BY <1>3 DEF NextCall, TypeInv, TypeOK, Run
  <2>2. OpenInv'
    BY <2>1 DEF EndInv, OpenInv, TurnPoints, Point, OtherPoints, Recovering, Answered, Ending
  <2> QED
    BY <2>1, <2>2, QuietEnds
<1>4. ASSUME NEW verdict, NEW stop, NEW failed,
             \/ RefuseCall \/ ReplanCall \/ Decide(verdict) \/ HandlerActs
             \/ HandlerReturns(stop, failed) \/ HandlerLost(stop)
      PROVE  EndInv'
  <2>1. /\ pc \in {"checks", "handler", "acted"}
        /\ pc' \in {"rec_permission", "acted", "result"}
        /\ run'.turn = run.turn /\ run'.call = run.call /\ run'.batch = run.batch
        /\ UNCHANGED <<disk, orphans, cur, mem, turns>>
    BY <1>4 DEF RefuseCall, ReplanCall, Decide, HandlerActs, HandlerReturns, HandlerLost,
                TypeInv, TypeOK, Run
  <2>2. OpenInv'
    BY <2>1 DEF EndInv, OpenInv, TurnPoints, Point, OtherPoints, Recovering, Answered, Ending,
                ToolPoints, BeforeStart
  <2> QED
    BY <2>1, <2>2, QuietEnds
<1>5. CASE ReportResult
  <2>1. /\ pc = "result" /\ pc' = "rec_completed"
        /\ run'.turn = run.turn /\ run'.call = run.call /\ run'.verdict = run.verdict
        /\ run'.batch = run.batch \/ run'.verdict = "replan"
        /\ UNCHANGED <<disk, orphans, cur, mem, turns>>
    BY <1>5 DEF ReportResult, TypeInv, TypeOK, Run
  <2>2. OpenInv'
    BY <2>1 DEF EndInv, OpenInv, TurnPoints, Point, OtherPoints, Recovering, Answered, Ending,
                ToolPoints, BeforeStart
  <2> QED
    BY <2>1, <2>2, QuietEnds
<1> QED
  BY <1>1, <1>2, <1>3, <1>4, <1>5 DEF Tools

\* A turn with a number not yet given out is in no log.
LEMMA NewTurn ==
  ASSUME NEW log \in Seq(Event), NEW last \in Nat, EndsWell(log, last)
  PROVE  last + 1 \notin Ended(log) /\ PendingCalls(log, last + 1) = {}
<1>1. \A i \in 1..Len(log) : log[i].turn # last + 1
  <2>1. \A i \in 1..Len(log) : log[i] \in Event
    OBVIOUS
  <2> QED
    BY <2>1 DEF EndsWell, Event
<1> QED
  BY <1>1, InTurn DEF Ended, PendingCalls, DeclaredIn

\* A turn that recovery finds open has a number that was given out, and no end.
LEMMA OpenTurnIs ==
  ASSUME NEW log \in Seq(Event), NEW last \in Nat, EndsWell(log, last),
         NEW t \in OpenTurns(log)
  PROVE  t \in 1..last /\ t \notin Ended(log)
<1> DEFINE bottom == LastTerminal(log)
<1>1. bottom \in 0..Len(log) /\ \A i \in TerminalIndexes(log) : i <= bottom
  BY LastTerminalType DEF bottom
<1> HIDE DEF bottom
<1>2. PICK j \in 1..Len(log) : j > bottom /\ log[j].turn = t
  <2>1. OpenTail(log) = SubSeq(log, bottom + 1, Len(log))
    BY DEF OpenTail, bottom
  <2>2. PICK k \in DOMAIN OpenTail(log) : OpenTail(log)[k].turn = t
    BY DEF OpenTurns
  <2>3. k \in 1..(Len(log) - bottom) /\ OpenTail(log)[k] = log[bottom + k]
    BY <1>1, <2>1, <2>2
  <2> QED
    BY <1>1, <2>2, <2>3
<1>3. t \in Nat /\ t # NoTurn /\ t <= last
  <2>1. log[j] \in Event
    OBVIOUS
  <2> QED
    BY <1>2, <2>1 DEF EndsWell, OpenTurns, Event
<1>4. t \notin Ended(log)
  <2> SUFFICES ASSUME NEW i \in 1..Len(log), log[i].type \in TerminalType, log[i].turn = t
               PROVE  FALSE
    BY DEF Ended
  <2>1. i < j
    BY <1>1, <1>2 DEF TerminalIndexes
  <2>2. j \in TerminalIndexes(log)
    BY <1>2, <2>1 DEF EndsWell, EndsOnce, TerminalIndexes, TerminalType
  <2> QED
    BY <1>1, <1>2, <2>2
<1> QED
  BY <1>3, <1>4 DEF NoTurn

\* The coordinator: a new turn has a new number.
LEMMA CoordinatorEnds ==
  ASSUME TypeInv, JournalInv, EndInv, Coordinator
  PROVE  EndInv'
<1> USE DEF InOperation
<1>1. CASE NewSession
  <2>1. /\ pc = "idle" /\ pc' = "idle" /\ UNCHANGED <<disk, orphans, turns>> /\ turns \in Nat
    BY <1>1 DEF NewSession, TypeInv, TypeOK
  <2> QED
    BY <2>1, NoOpenTurn, QuietEndLogs DEF EndInv
<1>2. CASE Send
  <2>1. /\ pc' \in {"rec_session", "rec_user"} /\ cur' \in Session /\ mem' = disk[cur']
        /\ turns' = turns + 1 /\ turns \in Nat /\ run'.turn = turns'
        /\ disk[cur'] \in Seq(Event) /\ UNCHANGED <<disk, orphans>>
    BY <1>2 DEF Send, NoRun, TypeInv, TypeOK
  <2>2. run'.turn \notin Ended(mem') /\ PendingCalls(mem', run'.turn) = {}
    BY <2>1, NewTurn DEF EndInv, EndLogInv
  <2>3. OpenInv'
    BY <2>1, <2>2 DEF OpenInv, Recovering, Answered, ToolPoints, BeforeStart
  <2>4. turns' \in Nat /\ turns' >= turns
    BY <2>1
  <2> QED
    BY <2>1, <2>3, <2>4, QuietEndLogs DEF EndInv
<1>3. CASE RejectInput \/ ResolveOperation \/ PrepareKnowledge \/ EnterLoop
  <2>1. /\ pc \in {"accepted", "retrieved"}
        /\ pc' \in {"rec_rejected", "rec_resolved", "rec_retrieval", "top"}
        /\ run'.turn = run.turn
        /\ UNCHANGED <<disk, orphans, cur, mem, turns>>
    BY <1>3 DEF RejectInput, ResolveOperation, PrepareKnowledge, EnterLoop,
                TypeInv, TypeOK, Run
  <2>2. OpenInv'
    BY <2>1 DEF EndInv, OpenInv, TurnPoints, Point, OtherPoints, Recovering, Answered,
                ToolPoints, BeforeStart
  <2> QED
    BY <2>1, <2>2, QuietEnds
<1> QED
  BY <1>1, <1>2, <1>3 DEF Coordinator

\* Cancellation between records, crash, restart and resume.
LEMMA RecoveryEnds ==
  ASSUME TypeInv, JournalInv, EndInv, Recovery
  PROVE  EndInv'
<1> USE DEF InOperation
<1>0. turns \in Nat /\ (Recovery => UNCHANGED turns)
  BY DEF Recovery, CancelTask, Crash, Restart, ResumeClean, ResumeInterrupted,
         ResumeUncertain, ResumeReopens, TypeInv, TypeOK
<1>1. CASE CancelTask
  <2>1. /\ pc \in TurnPoints \ {"rec_resume_failed"} /\ UNCHANGED <<disk, orphans, cur>>
        /\ (Fail \/ End)
    BY <1>1 DEF CancelTask, TurnPoints, Point, OtherPoints, Recovering
  <2> QED
    BY <1>0, <2>1, FailEnds, EndEnds
<1>2. CASE Crash \/ Restart
  <2>1. /\ pc' \in {"idle", "down"} /\ UNCHANGED disk /\ orphans' \subseteq orphans
    BY <1>2 DEF Crash, Restart
  <2> QED
    BY <1>0, <2>1, NoOpenTurn, QuietEndLogs DEF EndInv
<1>3. ASSUME NEW s \in Session, ResumeClean(s) PROVE EndInv'
  <2>1. pc' = "idle" /\ UNCHANGED <<disk, orphans>>
    BY <1>3 DEF ResumeClean
  <2> QED
    BY <1>0, <2>1, NoOpenTurn, QuietEndLogs DEF EndInv
<1>4. ASSUME NEW s \in Session, ResumeInterrupted(s) PROVE EndInv'
  <2>1. PICK t \in OpenTurns(disk[s]) : run' = [NoRun EXCEPT !.turn = t, !.previous = cur]
    BY <1>4 DEF ResumeInterrupted
  <2>2. /\ cur' = s /\ mem' = disk[s] /\ UNCHANGED <<disk, orphans>> /\ pc' = "resume_read"
        /\ disk[s] \in Seq(Event) /\ EndsWell(disk[s], turns)
    BY <1>4 DEF ResumeInterrupted, EndInv, EndLogInv, TypeInv, TypeOK
  <2>3. t \in 1..turns /\ t \notin Ended(disk[s]) /\ run'.turn = t
    BY <1>0, <2>1, <2>2, OpenTurnIs DEF NoRun
  <2>4. (Len(mem') + 1)..Len(disk'[cur']) = {}
    BY <2>2
  <2>5. OpenInv'
    BY <1>0, <2>2, <2>3, <2>4
       DEF OpenInv, Recovering, Answered, Ending, ToolPoints, BeforeStart
  <2> QED
    BY <1>0, <2>2, <2>5, QuietEndLogs DEF EndInv
<1>5. ASSUME NEW s \in Session, ResumeUncertain(s) PROVE EndInv'
  <2>1. /\ pc' = "rec_recovery_session" /\ cur' \in Session /\ mem' = disk[cur']
        /\ UNCHANGED <<disk, orphans>> /\ snapshot'.turn = NoTurn
    BY <1>5 DEF ResumeUncertain, Fresh, Used, JournalInv, RecoverySnapshot, NewEvent
  <2>2. OpenInv'
    BY <2>1 DEF OpenInv, TurnPoints, Recovering, Answered, Ending, ToolPoints, BeforeStart
  <2> QED
    BY <1>0, <2>1, <2>2, QuietEndLogs DEF EndInv
<1>6. CASE ResumeReopens
  <2>1. /\ cur \in Session /\ cur' = cur /\ mem' = disk[cur] /\ run' = run
        /\ UNCHANGED <<disk, orphans>> /\ pc = "resume_read" /\ mem \in Seq(Event)
        /\ disk[cur] \in Seq(Event) /\ EndsWell(disk[cur], turns) /\ run.turn \in Nat
    BY <1>6 DEF ResumeReopens, EndInv, EndLogInv, TypeInv, TypeOK, Run
  <2>2. /\ pc' \in {"rec_resume_closed", "rec_resume_failed"}
        /\ pc' = "rec_resume_failed" <=> PendingCalls(mem', run.turn) = {}
    BY <1>6, <2>1 DEF ResumeReopens, ClosingPoint
  <2>3. run.turn \in 1..turns /\ run.turn \notin Ended(mem)
    BY <2>1 DEF EndInv, OpenInv, TurnPoints, Point, OtherPoints, Recovering
  <2>4. ASSUME run.turn \in Ended(disk[cur])
        PROVE  pc' = "rec_resume_failed" /\ JustEnded(disk[cur], run.turn)
    <3>1. PICK i \in 1..Len(disk[cur]) :
            disk[cur][i].turn = run.turn /\ disk[cur][i].type \in TerminalType
      BY <2>4 DEF Ended
    <3>2. /\ Len(mem) <= Len(disk[cur]) /\ Len(disk[cur]) <= Len(mem) + 1
          /\ mem = SubSeq(disk[cur], 1, Len(mem))
      BY <2>1 DEF JournalInv, JournalPrefix
    <3>3. i \notin 1..Len(mem)
      <4>1. i \in 1..Len(mem) => mem[i] = disk[cur][i]
        BY <2>1, <3>2
      <4> QED
        BY <2>3, <3>1, <4>1 DEF Ended
    <3>4. i = Len(disk[cur]) /\ i \in (Len(mem) + 1)..Len(disk[cur]) /\ disk[cur] # <<>>
      BY <2>1, <3>1, <3>2, <3>3
    <3>5. disk[cur][i].type # "turn_interrupted"
      BY <2>1, <3>4 DEF EndInv, OpenInv
    <3> QED
      BY <2>1, <2>2, <2>4, <3>1, <3>4, <3>5 DEF JustEnded, EndsWell
  <2>5. OpenInv'
    BY <1>0, <1>6, <2>1, <2>2, <2>3, <2>4
       DEF OpenInv, Recovering, Answered, Ending, ToolPoints, BeforeStart
  <2> QED
    BY <1>0, <2>1, <2>5, QuietEndLogs DEF EndInv
<1> QED
  BY <1>1, <1>2, <1>3, <1>4, <1>5, <1>6 DEF Recovery

\* Every step keeps the ends of turns.
LEMMA EndStep ==
  ASSUME TypeInv, JournalInv, EndInv, [Next]_vars
  PROVE  EndInv'
<1>1. CASE Journal
  <2>1. CASE RecordConflict
    <3>1. UNCHANGED <<disk, orphans, turns>>
      BY <2>1 DEF RecordConflict
    <3>2. CASE pc \in InStream
      <4>1. pc \in TurnPoints \ {"rec_resume_failed"} /\ Fail /\ UNCHANGED cur
        BY <2>1, <3>2 DEF RecordConflict, TurnPoints, InStream, InResume, Point, RecordPoints,
                          OtherPoints, Recovering
      <4> QED
        BY <3>1, <4>1, FailEnds
    <3>3. CASE pc \notin InStream
      BY <2>1, <3>1, <3>3, EndEnds DEF RecordConflict
    <3> QED
      BY <3>2, <3>3
  <2>2. ASSUME NEW o \in orphans, OrphanDies(o) PROVE EndInv'
    <3>1. /\ UNCHANGED <<disk, cur, pc, mem, run, snapshot, turns>> /\ orphans' \subseteq orphans
          /\ turns \in Nat
      BY <2>2 DEF OrphanDies, TypeInv, TypeOK
    <3>2. EndLogInv'
      BY <3>1, QuietEndLogs DEF EndInv, InOperation
    <3> QED
      BY <3>1, <3>2 DEF EndInv, OpenInv
  <2> QED
    BY <1>1, <2>1, <2>2, RecordEnds, CancelEnds, LandEnds DEF Journal
<1>2. CASE UNCHANGED vars
  BY <1>2 DEF vars, EndInv, EndLogInv, OpenInv, InOperation, Live
<1> QED
  BY <1>1, <1>2, CoordinatorEnds, LoopEnds, ToolsEnds, RecoveryEnds DEF Next

\* No turn has begun at first.
LEMMA EndInit == Init => EndInv
<1> SUFFICES ASSUME Init PROVE EndInv
  OBVIOUS
<1>1. \A s \in Session : disk[s] = <<>>
  BY DEF Init
<1>2. orphans = {} /\ pc = "idle"
  BY DEF Init
<1>3. EndsWell(<<>>, turns)
  BY DEF EndsWell, EndsOnce, Ended
<1> QED
  BY <1>1, <1>2, <1>3 DEF EndInv, EndLogInv, OpenInv, InOperation, TurnPoints, Recovering,
                          Answered, Ending, ToolPoints, BeforeStart

\* The invariant of ends holds throughout, whatever ids the provider chooses.
LEMMA EndInvariant == Spec => []EndInv
<1>1. TypeInv /\ JournalInv /\ EndInv /\ [Next]_vars => EndInv'
  BY EndStep
<1> QED
  BY <1>1, EndInit, StartInvariant, PTL DEF Spec

\* A turn ends once and nothing of it follows its end, not even a record that was
\* cancelled and lands late; the end by a resume that had read the log before a late
\* end landed stands directly after that end.
THEOREM TurnsEndOnce == Spec => []TurnEndsOnce
<1>1. TypeInv /\ EndInv => TurnEndsOnce
  <2> SUFFICES ASSUME TypeInv, EndInv, NEW s \in Session,
                      NEW i \in TerminalIndexes(disk[s]), NEW j \in (i + 1)..Len(disk[s]),
                      disk[s][j].turn = disk[s][i].turn
               PROVE  /\ j = i + 1 /\ disk[s][j].type = "turn_interrupted"
                      /\ disk[s][i].type # "turn_interrupted"
    BY DEF TurnEndsOnce
  <2>1. disk[s] \in Seq(Event) /\ EndsOnce(disk[s])
    BY DEF EndInv, EndLogInv, EndsWell, TypeInv, TypeOK
  <2>2. /\ i \in 1..Len(disk[s]) /\ j \in 1..Len(disk[s]) /\ i < j
        /\ disk[s][i].type \in TerminalType
    BY <2>1 DEF TerminalIndexes
  <2> QED
    BY <2>1, <2>2 DEF EndsOnce
<1> QED
  BY <1>1, EndInvariant, StartInvariant, PTL

-------------------------------------------------------------------------------
(***************************************************************************)
(* The results of a turn.  With a provider that does not repeat ids, no    *)
(* call gets a second result, so a turn that has ended pairs its calls.    *)
(***************************************************************************)

\* A result for calls that have none.
ResultFits(log, e) == e.type = "execution_completed" => e.calls \cap Completed(log) = {}

AnsweredOnce(log) ==
  \A i, j \in 1..Len(log) :
    /\ log[i].type = "execution_completed"
    /\ log[j].type = "execution_completed"
    /\ log[i].calls \cap log[j].calls # {}
    => i = j

ResultInv ==
  /\ \A s \in Session : AnsweredOnce(disk[s])
  /\ \A o \in orphans : Live(o) => ResultFits(disk[o.session], o.event)

\* A result for calls that have none leaves each call with one at most.
LEMMA AppendAnswered ==
  ASSUME NEW log \in Seq(Event), NEW e \in Event, AnsweredOnce(log), ResultFits(log, e)
  PROVE  AnsweredOnce(Append(log, e))
<1> DEFINE new == Append(log, e)
<1>1. /\ Len(new) = Len(log) + 1 /\ Len(log) \in Nat
      /\ \A i \in 1..Len(log) : new[i] = log[i]
      /\ new[Len(log) + 1] = e
  OBVIOUS
<1> HIDE DEF new
<1>2. ASSUME NEW i \in 1..Len(log), log[i].type = "execution_completed",
             e.type = "execution_completed", NEW c, c \in log[i].calls, c \in e.calls
      PROVE  FALSE
  BY <1>2, InCalls DEF Completed, ResultFits
<1>3. ASSUME NEW i \in 1..Len(new), NEW j \in 1..Len(new),
             new[i].type = "execution_completed", new[j].type = "execution_completed",
             new[i].calls \cap new[j].calls # {}
      PROVE  i = j
  <2>1. PICK c : c \in new[i].calls /\ c \in new[j].calls
    BY <1>3
  <2>2. CASE i \in 1..Len(log) /\ j \in 1..Len(log)
    BY <1>1, <1>3, <2>2 DEF AnsweredOnce
  <2>3. CASE i = Len(log) + 1 \/ j = Len(log) + 1
    BY <1>1, <1>2, <1>3, <2>1, <2>3
  <2> QED
    BY <1>1, <2>2, <2>3
<1>4. AnsweredOnce(new)
  BY <1>3 DEF AnsweredOnce
<1> QED
  BY <1>4 DEF new

\* The result being recorded is the first of its call: a call that is still open
\* in its turn has no result of another turn either.
LEMMA PendingResultFits ==
  ASSUME TypeInv, StartInv, EffectInv, pc \in RecordPoints
  PROVE  ResultFits(mem, PendingEvent)
<1>1. InOperation /\ mem \in Seq(Event)
  BY DEF RecordPoints, InOperation, TypeInv, TypeOK
<1>2. CASE pc = "rec_completed"
  BY <1>2, PendingEventIs DEF ResultFits, EffectInv, AnswerInv, ToolPoints, BeforeStart
<1>3. CASE pc \in Closing
  <2> DEFINE c == NextPending
  <2>1. c \in DeclaredIn(mem, run.turn) /\ c \notin CompletedIn(mem, run.turn)
    <3>1. PendingCalls(mem, run.turn) # {}
      BY <1>3 DEF TypeInv
    <3>2. c \in PendingCalls(mem, run.turn)
      BY <3>1 DEF NextPending
    <3> QED
      BY <3>2 DEF PendingCalls
  <2>2. ASSUME c \in Completed(mem) PROVE FALSE
    <3>1. PICK d \in 1..Len(mem) : /\ mem[d].type = "assistant_message"
                                   /\ mem[d].turn = run.turn
                                   /\ c \in mem[d].calls
      BY <1>1, <2>1, InTurn DEF DeclaredIn
    <3>2. PICK i \in 1..Len(mem) : mem[i].type = "execution_completed" /\ c \in mem[i].calls
      BY <1>1, <2>2, InCalls DEF Completed
    <3>3. mem[i].turn = run.turn
      BY <1>1, <3>1, <3>2 DEF EffectInv, DenialInv, TurnsAgree, CallTypes
    <3> QED
      BY <1>1, <2>1, <3>2, <3>3, InTurn DEF CompletedIn
  <2> QED
    BY <1>3, <2>2, PendingEventIs DEF ResultFits
<1>4. CASE pc \notin Closing \cup {"rec_completed"}
  BY <1>4, PendingEventIs DEF ResultFits
<1> QED
  BY <1>2, <1>3, <1>4

\* A result that fits, appended to one file.
LEMMA AppendResults ==
  ASSUME TypeInv, JournalInv, ResultInv, NEW s \in Session, NEW e \in Event,
         ResultFits(disk[s], e), disk' = [disk EXCEPT ![s] = Append(@, e)],
         orphans' \subseteq orphans
  PROVE  ResultInv'
<1>1. /\ disk'[s] = Append(disk[s], e) /\ disk[s] \in Seq(Event)
      /\ \A r \in Session \ {s} : disk'[r] = disk[r]
  BY DEF TypeInv, TypeOK
<1>2. AnsweredOnce(disk'[s])
  BY <1>1, AppendAnswered DEF ResultInv
<1>3. ASSUME NEW o \in orphans', Live(o)' PROVE ResultFits(disk'[o.session], o.event)
  <2>1. /\ o \in orphans /\ Live(o) /\ o.session \in Session
        /\ disk'[o.session] = disk[o.session]
    BY <1>3, AppendLive
  <2> QED
    BY <2>1 DEF ResultInv
<1> QED
  BY <1>1, <1>2, <1>3 DEF ResultInv

\* Every step keeps the results single.
LEMMA ResultStep ==
  ASSUME TypeInv, JournalInv, StartInv, EffectInv, ResultInv, [Next]_vars
  PROVE  ResultInv'
<1>1. CASE UNCHANGED disk /\ orphans' \subseteq orphans
  BY <1>1 DEF ResultInv, Live
<1>2. CASE RecordStep
  <2>1. /\ pc \in RecordPoints /\ InOperation /\ cur \in Session
        /\ PendingEvent \in Event /\ orphans' \subseteq orphans
        /\ disk' = [disk EXCEPT ![cur] = Append(@, PendingEvent)]
    BY <1>2, PendingEventType DEF RecordStep, RecordPoints, InOperation, TypeInv, TypeOK
  <2>2. ResultFits(disk[cur], PendingEvent)
    BY <1>2, <2>1, SameLog, PendingResultFits DEF RecordStep, NextInFile
  <2> QED
    BY <2>1, <2>2, AppendResults
<1>3. ASSUME NEW threadRuns \in BOOLEAN, CancelRecord(threadRuns) PROVE ResultInv'
  <2> DEFINE new == [session |-> cur, sequence |-> Len(mem) + 1, event |-> PendingEvent]
  <2>1. /\ pc \in RecordPoints /\ InOperation /\ UNCHANGED disk
        /\ orphans' \subseteq orphans \cup {new} /\ mem \in Seq(Event)
    BY <1>3 DEF CancelRecord, RecordPoints, InOperation, TypeInv, TypeOK
  <2>2. ASSUME Live(new) PROVE ResultFits(disk[cur], PendingEvent)
    <3>1. Len(mem) = Len(disk[cur])
      BY <2>1, <2>2, InOperationSession DEF Live
    <3> QED
      BY <2>1, <3>1, SameLog, PendingResultFits
  <2>3. \A o \in orphans' : Live(o)' => ResultFits(disk'[o.session], o.event)
    BY <2>1, <2>2 DEF ResultInv, Live
  <2> QED
    BY <2>1, <2>3 DEF ResultInv
<1>4. ASSUME NEW o \in orphans, OrphanLands(o) PROVE ResultInv'
  <2>1. /\ o.session \in Session /\ o.event \in Event /\ Live(o)
        /\ disk' = [disk EXCEPT ![o.session] = Append(@, o.event)]
        /\ orphans' \subseteq orphans
    BY <1>4 DEF OrphanLands, TypeInv, TypeOK, Live
  <2> QED
    BY <2>1, AppendResults DEF ResultInv
<1>5. CASE RecordConflict \/ \E o \in orphans : OrphanDies(o)
  BY <1>1, <1>5 DEF RecordConflict, OrphanDies
<1>6. CASE Coordinator \/ Loop
  BY <1>1, <1>6 DEF Coordinator, NewSession, Send, RejectInput, ResolveOperation,
       PrepareKnowledge, EnterLoop, Loop, StopAtTop, PrepareRequest, ReportUsage,
       StreamFails, RetryContext, RepairCitations, Answer, RequestTools
<1>7. CASE Tools \/ Recovery
  BY <1>1, <1>7 DEF Tools, BatchDone, StopBatch, NextCall, RefuseCall, ReplanCall, Decide,
       HandlerActs, HandlerReturns, HandlerLost, ReportResult, Recovery, CancelTask, Crash,
       Restart, ResumeClean, ResumeInterrupted, ResumeUncertain, ResumeReopens
<1>8. CASE UNCHANGED vars
  BY <1>1, <1>8 DEF vars
<1> QED
  BY <1>2, <1>3, <1>4, <1>5, <1>6, <1>7, <1>8 DEF Next, Journal

\* In a file whose results are single, a turn that ended well has one of each call.
LEMMA EndedIsPaired ==
  ASSUME TypeInv, EndInv, ResultInv
  PROVE  EndedTurnIsPaired
<1> SUFFICES ASSUME NEW s \in Session, NEW i \in DOMAIN disk[s],
                    disk[s][i].type \in TerminalType,
                    NEW c \in DeclaredIn(disk[s], disk[s][i].turn)
             PROVE  Cardinality({j \in DOMAIN disk[s] : IsResultOf(disk[s][j], c)}) = 1
  BY DEF EndedTurnIsPaired
<1> DEFINE log == disk[s]
           t == log[i].turn
<1>1. log \in Seq(Event) /\ EndsWell(log, turns) /\ AnsweredOnce(log)
  BY DEF EndInv, EndLogInv, ResultInv, TypeInv, TypeOK
<1> HIDE DEF log
<1>2. i \in 1..Len(log) /\ log[i].type \in TerminalType /\ c \in DeclaredIn(log, t)
  BY <1>1 DEF log
<1>3. c \in CompletedIn(log, t)
  BY <1>1, <1>2 DEF EndsWell, Ended, PendingCalls
<1>4. PICK k \in 1..Len(log) : log[k].type = "execution_completed" /\ c \in log[k].calls
  BY <1>1, <1>3, InTurn DEF CompletedIn
<1>5. {j \in DOMAIN log : IsResultOf(log[j], c)} = {k}
  BY <1>1, <1>4 DEF AnsweredOnce, IsResultOf
<1> QED
  BY <1>5, FS_Singleton DEF log

\* With a provider that does not repeat ids across requests, a turn that has ended
\* has exactly one result for each call it declared, also after cancellations,
\* crashes and the closing of its batch by a later process.
THEOREM EndedTurnsArePaired ==
  ASSUME ReusesIds = FALSE
  PROVE  Spec => []EndedTurnIsPaired
<1>1. Init => EffectInv /\ ResultInv
  BY EffectInit DEF Init, ResultInv, AnsweredOnce
<1>2. /\ TypeInv /\ JournalInv /\ StartInv /\ EffectInv /\ ResultInv
      /\ [Next]_vars
      => (EffectInv /\ ResultInv)'
  BY EffectStep, ResultStep
<1>3. TypeInv /\ EndInv /\ ResultInv => EndedTurnIsPaired
  BY EndedIsPaired
<1> QED
  BY <1>1, <1>2, <1>3, EndInvariant, StartInvariant, PTL DEF Spec

-------------------------------------------------------------------------------
(***************************************************************************)
(* What a recovery session is told.  A snapshot lists what its parent left *)
(* unknown when it was taken.  It goes on to do so, although late appends  *)
(* may still reach the parent, and until a later turn of the parent has    *)
(* ended safely: nothing new can become unknown there in between.          *)
(***************************************************************************)

\* A call is started before it has a result.
Ordered(log) ==
  \A i, j \in 1..Len(log) :
    /\ log[i].type = "execution_started"
    /\ log[j].type = "execution_completed"
    /\ log[i].calls \cap log[j].calls # {}
    => i < j

\* A start of calls without result, or a result that leaves unknown only what was.
UnknownFits(log, e) ==
  /\ e.type = "execution_started" => e.calls \cap Completed(log) = {}
  /\ e.type = "execution_completed" => e.turn # NoTurn
  /\ e.type = "execution_completed" /\ e.effect = "unknown" => e.calls \subseteq Uncertain(log)

UnknownLogInv ==
  /\ \A s \in Session : Ordered(disk[s]) /\ Uncertain(disk[s]) \subseteq Started(disk[s])
  /\ \A o \in orphans : o.event.type # "recovery_snapshot"
  /\ \A o \in orphans : Live(o) =>
       /\ UnknownFits(disk[o.session], o.event)
       /\ o.event.type = "execution_started" => Uncertain(disk[o.session]) = {}

\* Where the running turn has left nothing unknown, and where only its call can be.
CallPoints == {"handler", "acted", "result", "rec_completed"}

Resuming == {"resume_read", "rec_resume_closed", "rec_resume_failed"}

Calm == TurnPoints \ (CallPoints \cup FailPoints \cup Resuming)

CalmInv ==
  /\ pc \in Calm => Uncertain(mem) = {}
  /\ pc \in CallPoints => Uncertain(mem) \subseteq run.call
  /\ pc \in BeforeStart => run.effect = "none"
  /\ pc \in {"rec_started", "handler", "acted"} => run.verdict = "allow"
  /\ pc \in {"result", "rec_completed"} /\ run.effect = "unknown" =>
       /\ run.call \subseteq Started(mem) \cap Risky
       /\ run.stop /\ run.verdict # "replan"

\* The parent of a snapshot has had no safe end since.
Standing(e) == SafeIndex(disk[e.ref]) = e.through

Told(e) ==
  /\ e.ref \in Session
  /\ e.through \in 1..Len(disk[e.ref])
  /\ e.through <= SafeIndex(disk[e.ref])
  /\ Standing(e) =>
       /\ Uncertain(disk[e.ref]) \subseteq e.calls
       /\ Uncertain(disk[e.ref]) # {} \/ OpenTurns(disk[e.ref]) # {}
       /\ \A o \in orphans :
            Live(o) /\ o.session = e.ref => o.event.type # "execution_started"

\* While a snapshot stands, its parent is in use only to be resumed, which it is
\* when nothing is unknown there.
Left(e) ==
  Standing(e) =>
    /\ cur = e.ref => pc \in Resuming /\ Uncertain(disk[e.ref]) = {}
    /\ pc \in InResume => run.previous # e.ref

SnapshotInv ==
  /\ \A r \in Session : \A e \in SnapshotsIn(disk[r]) : Told(e) /\ Left(e)
  /\ pc \in Recovering => Told(snapshot) /\ cur # snapshot.ref

RecoveryInv == UnknownLogInv /\ CalmInv /\ SnapshotInv

\* What an appended event does to the unknown calls.
LEMMA AppendUncertain ==
  ASSUME NEW log \in Seq(Event), NEW e \in Event
  PROVE  /\ e.type \notin {"execution_started", "execution_completed"} =>
              Uncertain(Append(log, e)) = Uncertain(log)
         /\ e.type = "execution_started" =>
              Uncertain(Append(log, e)) \subseteq Uncertain(log) \cup (e.calls \cap Risky)
         /\ e.type = "execution_completed" =>
              Uncertain(Append(log, e)) \subseteq Uncertain(log) \cup e.calls
         /\ e.type = "execution_completed" /\ e.effect # "unknown" =>
              Uncertain(Append(log, e)) \subseteq Uncertain(log) \ e.calls
<1> DEFINE new == Append(log, e)
<1>1. /\ new \in Seq(Event) /\ Len(new) = Len(log) + 1 /\ Len(log) \in Nat
      /\ \A i \in 1..Len(log) : new[i] = log[i]
      /\ new[Len(log) + 1] = e
  OBVIOUS
<1>2. /\ Started(new) = Started(log) \cup
           (IF e.type = "execution_started" THEN e.calls ELSE {})
      /\ Completed(new) = Completed(log) \cup
           (IF e.type = "execution_completed" THEN e.calls ELSE {})
  BY AppendCalls DEF Started, Completed
<1> HIDE DEF new
<1>3. ASSUME NEW c, IsResultOf(e, c)
      PROVE  LastResult(new, c, "unknown") => e.effect = "unknown"
  <2> SUFFICES ASSUME NEW i \in DOMAIN new, new[i].effect = "unknown", IsResultOf(new[i], c),
                      \A j \in DOMAIN new : j > i => ~IsResultOf(new[j], c)
               PROVE  e.effect = "unknown"
    BY DEF LastResult
  <2>1. Len(log) + 1 \in DOMAIN new /\ i \in 1..Len(log) + 1
    BY <1>1
  <2>2. i = Len(log) + 1
    BY <1>1, <1>3, <2>1
  <2> QED
    BY <1>1, <2>2
<1>4. ASSUME NEW c, ~IsResultOf(e, c)
      PROVE  LastResult(new, c, "unknown") <=> LastResult(log, c, "unknown")
  <2>1. DOMAIN new = 1..Len(log) + 1 /\ DOMAIN log = 1..Len(log)
    BY <1>1
  <2>2. ASSUME LastResult(log, c, "unknown") PROVE LastResult(new, c, "unknown")
    <3>1. PICK i \in 1..Len(log) : /\ IsResultOf(log[i], c) /\ log[i].effect = "unknown"
                                   /\ \A j \in 1..Len(log) : j > i => ~IsResultOf(log[j], c)
      BY <2>1, <2>2 DEF LastResult
    <3>2. \A j \in 1..Len(log) + 1 : j > i => ~IsResultOf(new[j], c)
      BY <1>1, <1>4, <3>1
    <3> QED
      BY <1>1, <2>1, <3>1, <3>2 DEF LastResult
  <2>3. ASSUME LastResult(new, c, "unknown") PROVE LastResult(log, c, "unknown")
    <3>1. PICK i \in 1..Len(log) + 1 :
                 /\ IsResultOf(new[i], c) /\ new[i].effect = "unknown"
                 /\ \A j \in 1..Len(log) + 1 : j > i => ~IsResultOf(new[j], c)
      BY <2>1, <2>3 DEF LastResult
    <3>2. i \in 1..Len(log)
      BY <1>1, <1>4, <3>1
    <3>3. \A j \in 1..Len(log) : j > i => ~IsResultOf(log[j], c)
      BY <1>1, <3>1
    <3> QED
      BY <1>1, <2>1, <3>1, <3>2, <3>3 DEF LastResult
  <2> QED
    BY <2>2, <2>3
<1>5. /\ \A c : IsResultOf(e, c) <=> e.type = "execution_completed" /\ c \in e.calls
      /\ e.calls \subseteq Call
  BY DEF IsResultOf, Event
<1>6. CASE e.type = "execution_completed"
  BY <1>2, <1>3, <1>4, <1>5, <1>6 DEF Uncertain, new
<1>7. CASE e.type # "execution_completed"
  BY <1>2, <1>4, <1>5, <1>7 DEF Uncertain, new
<1> QED
  BY <1>6, <1>7

\* Open turns are those of the entries after the last end.
LEMMA OpenTurnsAre ==
  ASSUME NEW log \in Seq(Event), NEW t
  PROVE  t \in OpenTurns(log) <=>
           /\ t # NoTurn
           /\ \E j \in 1..Len(log) :
                /\ log[j].turn = t
                /\ \A i \in 1..Len(log) : log[i].type \in TerminalType => i < j
<1> DEFINE bottom == LastTerminal(log)
<1>1. /\ bottom \in 0..Len(log) /\ \A i \in TerminalIndexes(log) : i <= bottom
      /\ bottom \in {0} \cup TerminalIndexes(log)
  BY LastTerminalType DEF bottom
<1>2. OpenTail(log) = SubSeq(log, bottom + 1, Len(log))
  BY DEF OpenTail, bottom
<1> HIDE DEF bottom
<1>3. /\ DOMAIN OpenTail(log) = 1..(Len(log) - bottom)
      /\ \A k \in 1..(Len(log) - bottom) : OpenTail(log)[k] = log[bottom + k]
  BY <1>1, <1>2
<1>4. ASSUME t \in OpenTurns(log)
      PROVE  \E j \in 1..Len(log) :
               /\ log[j].turn = t
               /\ \A i \in 1..Len(log) : log[i].type \in TerminalType => i < j
  <2>1. PICK k \in 1..(Len(log) - bottom) : OpenTail(log)[k].turn = t
    BY <1>3, <1>4 DEF OpenTurns
  <2>2. bottom + k \in 1..Len(log) /\ log[bottom + k].turn = t /\ bottom + k > bottom
    BY <1>1, <1>3, <2>1
  <2> QED
    BY <1>1, <2>2 DEF TerminalIndexes
<1>5. ASSUME t # NoTurn, NEW j \in 1..Len(log), log[j].turn = t,
             \A i \in 1..Len(log) : log[i].type \in TerminalType => i < j
      PROVE  t \in OpenTurns(log)
  <2>1. j > bottom
    BY <1>1, <1>5 DEF TerminalIndexes
  <2>2. j - bottom \in 1..(Len(log) - bottom) /\ bottom + (j - bottom) = j
    BY <1>1, <2>1
  <2> QED
    BY <1>3, <1>5, <2>2 DEF OpenTurns
<1> QED
  BY <1>4, <1>5 DEF OpenTurns

\* An event that is no end leaves open turns open and its own turn too.
LEMMA AppendOpen ==
  ASSUME NEW log \in Seq(Event), NEW e \in Event, e.type \notin TerminalType
  PROVE  /\ OpenTurns(log) \subseteq OpenTurns(Append(log, e))
         /\ e.turn # NoTurn => e.turn \in OpenTurns(Append(log, e))
<1> DEFINE new == Append(log, e)
<1>1. /\ new \in Seq(Event) /\ Len(new) = Len(log) + 1 /\ Len(log) \in Nat
      /\ \A i \in 1..Len(log) : new[i] = log[i]
      /\ new[Len(log) + 1] = e
  OBVIOUS
<1> HIDE DEF new
<1>2. ASSUME NEW t \in OpenTurns(log) PROVE t \in OpenTurns(new)
  <2>1. PICK j \in 1..Len(log) :
          /\ log[j].turn = t
          /\ \A i \in 1..Len(log) : log[i].type \in TerminalType => i < j
    BY OpenTurnsAre
  <2>2. \A i \in 1..Len(new) : new[i].type \in TerminalType => i < j
    BY <1>1, <2>1
  <2> QED
    BY <1>1, <2>1, <2>2, OpenTurnsAre
<1>3. ASSUME e.turn # NoTurn PROVE e.turn \in OpenTurns(new)
  <2>1. \A i \in 1..Len(new) : new[i].type \in TerminalType => i < Len(log) + 1
    BY <1>1
  <2>2. Len(log) + 1 \in 1..Len(new) /\ new[Len(log) + 1].turn = e.turn
    BY <1>1
  <2> QED
    BY <1>1, <1>3, <2>1, <2>2, OpenTurnsAre
<1> QED
  BY <1>2, <1>3 DEF new

\* The tail adds nothing to the verdict where starts precede results.
LEMMA UncertainIs ==
  ASSUME NEW log \in Seq(Event), Ordered(log)
  PROVE  IsUncertain(log) <=> Uncertain(log) # {}
<1> DEFINE tail == OpenTail(log)
           bottom == LastTerminal(log)
<1>1. bottom \in 0..Len(log)
  BY LastTerminalType
<1>2. tail = SubSeq(log, bottom + 1, Len(log))
  BY DEF OpenTail
<1> HIDE DEF bottom
<1>3. /\ tail \in Seq(Event) /\ Len(tail) = Len(log) - bottom
      /\ \A k \in 1..Len(tail) : tail[k] = log[bottom + k]
  BY <1>1, <1>2
<1> HIDE DEF tail
<1>4. ASSUME NEW c, c \in Started(tail), c \in Risky, c \notin Completed(tail)
      PROVE  c \in Uncertain(log)
  <2>1. PICK k \in 1..Len(tail) : tail[k].type = "execution_started" /\ c \in tail[k].calls
    BY <1>3, <1>4, InCalls DEF Started
  <2>2. bottom + k \in 1..Len(log) /\ tail[k] = log[bottom + k]
    BY <1>1, <1>3
  <2>3. c \in Started(log)
    BY <2>1, <2>2, InCalls DEF Started
  <2>4. ASSUME c \in Completed(log) PROVE FALSE
    <3>1. PICK i \in 1..Len(log) : log[i].type = "execution_completed" /\ c \in log[i].calls
      BY <2>4, InCalls DEF Completed
    <3>2. bottom + k < i
      BY <2>1, <2>2, <3>1 DEF Ordered
    <3>3. i - bottom \in 1..Len(tail) /\ tail[i - bottom] = log[i]
      <4>1. i - bottom \in 1..Len(tail) /\ bottom + (i - bottom) = i
        BY <1>1, <1>3, <3>2
      <4> QED
        BY <1>3, <4>1
    <3> QED
      BY <1>3, <1>4, <3>1, <3>3, InCalls DEF Completed
  <2>5. c \in Call
    BY <2>3, CallsType DEF Started
  <2> QED
    BY <1>4, <2>3, <2>4 DEF Uncertain
<1>5. (Started(tail) \cap Risky) \ Completed(tail) # {} => Uncertain(log) # {}
  BY <1>4
<1> QED
  BY <1>5 DEF IsUncertain, ClassifyLogicalRecovery, tail

\* The safe prefix ends at the first event or at a terminal event, and at no
\* terminal event before the last one whose prefix is not uncertain.
LEMMA SafeIndexIs ==
  ASSUME NEW log \in Seq(Event)
  PROVE  /\ SafeIndex(log) \in {1} \cup TerminalIndexes(log)
         /\ SafeIndex(log) \in Nat /\ 1 <= SafeIndex(log)
         /\ \A i \in TerminalIndexes(log) :
              ~IsUncertain(SubSeq(log, 1, i)) => i <= SafeIndex(log)
<1> DEFINE safe == {1} \cup {i \in TerminalIndexes(log) : ~IsUncertain(SubSeq(log, 1, i))}
<1>1. /\ safe \subseteq 0..(Len(log) + 1) /\ Len(log) + 1 \in Nat
      /\ TerminalIndexes(log) \subseteq 1..Len(log)
  BY LastTerminalType
<1>2. Max(safe) \in safe /\ \A x \in safe : Max(safe) >= x
  BY <1>1, MaxIsElement
<1> QED
  BY <1>1, <1>2 DEF SafeIndex

\* An append takes no safe prefix back; a safe end becomes one.
LEMMA AppendSafe ==
  ASSUME NEW log \in Seq(Event), NEW e \in Event
  PROVE  /\ SafeIndex(log) <= SafeIndex(Append(log, e))
         /\ e.type \in TerminalType /\ ~IsUncertain(Append(log, e)) =>
              Len(log) < SafeIndex(Append(log, e))
<1> DEFINE new == Append(log, e)
<1>1. /\ new \in Seq(Event) /\ Len(new) = Len(log) + 1 /\ Len(log) \in Nat
      /\ \A i \in 1..Len(log) : new[i] = log[i]
      /\ new[Len(log) + 1] = e
      /\ \A i \in 1..Len(log) : SubSeq(new, 1, i) = SubSeq(log, 1, i)
      /\ SubSeq(new, 1, Len(log) + 1) = new
  OBVIOUS
<1> HIDE DEF new
<1>2. /\ SafeIndex(log) \in Nat /\ SafeIndex(new) \in Nat
      /\ 1 <= SafeIndex(new) /\ TerminalIndexes(log) \subseteq 1..Len(log)
  BY <1>1, SafeIndexIs, LastTerminalType
<1>3. SafeIndex(log) <= SafeIndex(new)
  <2>1. CASE SafeIndex(log) = 1
    BY <1>2, <2>1
  <2>2. CASE SafeIndex(log) # 1
    <3> DEFINE i == SafeIndex(log)
    <3>1. i \in TerminalIndexes(log) /\ ~IsUncertain(SubSeq(log, 1, i))
      <4> DEFINE safe == {1} \cup {k \in TerminalIndexes(log) : ~IsUncertain(SubSeq(log, 1, k))}
      <4>1. safe \subseteq 0..(Len(log) + 1) /\ Len(log) + 1 \in Nat
        BY <1>1, <1>2
      <4>2. Max(safe) \in safe
        BY <4>1, MaxIsElement
      <4> QED
        BY <2>2, <4>2 DEF SafeIndex
    <3> HIDE DEF i
    <3>2. i \in 1..Len(log) /\ i \in 1..Len(new)
      BY <1>1, <1>2, <3>1
    <3>3. i \in TerminalIndexes(new) /\ ~IsUncertain(SubSeq(new, 1, i))
      <4>1. new[i] = log[i] /\ log[i].type \in TerminalType /\ i \in DOMAIN new
        BY <1>1, <3>1, <3>2 DEF TerminalIndexes
      <4>2. SubSeq(new, 1, i) = SubSeq(log, 1, i)
        BY <1>1, <3>2
      <4>3. ~IsUncertain(SubSeq(new, 1, i))
        BY <3>1, <4>2, Zenon
      <4> QED
        BY <4>1, <4>3 DEF TerminalIndexes
    <3> QED
      BY <1>1, <3>3, SafeIndexIs DEF i
  <2> QED
    BY <2>1, <2>2
<1>4. ASSUME e.type \in TerminalType, ~IsUncertain(new)
      PROVE  Len(log) < SafeIndex(new)
  <2>1. Len(log) + 1 \in TerminalIndexes(new) /\ ~IsUncertain(SubSeq(new, 1, Len(log) + 1))
    <3>1. Len(log) + 1 \in TerminalIndexes(new)
      BY <1>1, <1>4 DEF TerminalIndexes
    <3>2. ~IsUncertain(SubSeq(new, 1, Len(log) + 1))
      BY <1>1, <1>4, Zenon
    <3> QED
      BY <3>1, <3>2
  <2>2. Len(log) + 1 <= SafeIndex(new)
    BY <1>1, <2>1, SafeIndexIs
  <2> QED
    BY <1>1, <1>2, <2>2
<1> QED
  BY <1>3, <1>4 DEF new

\* An event that fits keeps starts before results and leaves unknown only starts.
LEMMA AppendOrdered ==
  ASSUME NEW log \in Seq(Event), NEW e \in Event, UnknownFits(log, e), Ordered(log),
         Uncertain(log) \subseteq Started(log)
  PROVE  /\ Ordered(Append(log, e))
         /\ Uncertain(Append(log, e)) \subseteq Started(Append(log, e))
<1> DEFINE new == Append(log, e)
<1>1. /\ new \in Seq(Event) /\ Len(new) = Len(log) + 1 /\ Len(log) \in Nat
      /\ \A i \in 1..Len(log) : new[i] = log[i]
      /\ new[Len(log) + 1] = e
  OBVIOUS
<1>2. Started(new) = Started(log) \cup (IF e.type = "execution_started" THEN e.calls ELSE {})
  BY AppendCalls DEF Started
<1>3. Uncertain(new) \subseteq Started(new)
  BY <1>2, AppendUncertain DEF UnknownFits
<1> HIDE DEF new
<1>4. ASSUME NEW i \in 1..Len(new), NEW j \in 1..Len(new),
             new[i].type = "execution_started", new[j].type = "execution_completed",
             new[i].calls \cap new[j].calls # {}
      PROVE  i < j
  <2>1. CASE i = Len(log) + 1
    <3>1. new[i] = e /\ e.type = "execution_started"
      BY <1>1, <1>4, <2>1
    <3>2. j \in 1..Len(log) /\ new[j] = log[j]
      BY <1>1, <1>4, <3>1
    <3>3. PICK c : c \in e.calls /\ c \in log[j].calls
      BY <1>4, <3>1, <3>2
    <3>4. c \in Completed(log)
      BY <1>4, <3>2, <3>3, InCalls DEF Completed
    <3> QED
      BY <3>1, <3>3, <3>4 DEF UnknownFits
  <2>2. CASE i \in 1..Len(log) /\ j = Len(log) + 1
    BY <1>1, <2>2
  <2>3. CASE i \in 1..Len(log) /\ j \in 1..Len(log)
    BY <1>1, <1>4, <2>3 DEF Ordered
  <2> QED
    BY <1>1, <2>1, <2>2, <2>3
<1>5. Ordered(new)
  BY <1>4 DEF Ordered
<1> QED
  BY <1>3, <1>5 DEF new

\* An event that is no start leaves a snapshot of the log right, as long as the
\* log gets no new safe end by it.
LEMMA AppendStanding ==
  ASSUME NEW log \in Seq(Event), NEW e \in Event, UnknownFits(log, e), Ordered(log),
         Uncertain(log) \subseteq Started(log), e.type # "execution_started",
         Uncertain(log) # {} \/ OpenTurns(log) # {},
         SafeIndex(Append(log, e)) <= Len(log)
  PROVE  /\ Uncertain(Append(log, e)) \subseteq Uncertain(log)
         /\ Uncertain(Append(log, e)) # {} \/ OpenTurns(Append(log, e)) # {}
<1> DEFINE new == Append(log, e)
<1>1. new \in Seq(Event) /\ Len(log) \in Nat
  OBVIOUS
<1>2. Ordered(new)
  BY AppendOrdered
<1>3. ~(e.type \in TerminalType /\ Uncertain(new) = {})
  <2>1. SafeIndex(new) \in Nat
    BY <1>1, SafeIndexIs
  <2>2. ~(e.type \in TerminalType /\ ~IsUncertain(new))
    BY <1>1, <2>1, AppendSafe
  <2>3. IsUncertain(new) <=> Uncertain(new) # {}
    BY <1>1, <1>2, UncertainIs
  <2> QED
    BY <2>2, <2>3
<1>4. CASE e.type = "execution_completed"
  <2>1. e.turn \in OpenTurns(new)
    BY <1>4, AppendOpen DEF UnknownFits, TerminalType
  <2>2. Uncertain(new) \subseteq Uncertain(log)
    BY <1>4, AppendUncertain DEF UnknownFits
  <2> QED
    BY <2>1, <2>2
<1>5. CASE e.type # "execution_completed"
  <2>1. Uncertain(new) = Uncertain(log)
    BY <1>5, AppendUncertain
  <2>2. CASE e.type \in TerminalType
    BY <1>3, <2>1, <2>2
  <2>3. CASE e.type \notin TerminalType
    BY <2>1, <2>3, AppendOpen
  <2> QED
    BY <2>1, <2>2, <2>3
<1> QED
  BY <1>4, <1>5

\* The snapshots of a longer log.
LEMMA AppendSnapshots ==
  ASSUME NEW log \in Seq(Event), NEW e \in Event
  PROVE  SnapshotsIn(Append(log, e)) =
           SnapshotsIn(log) \cup (IF e.type = "recovery_snapshot" THEN {e} ELSE {})
<1> DEFINE new == Append(log, e)
<1>1. /\ Len(new) = Len(log) + 1 /\ Len(log) \in Nat
      /\ DOMAIN new = 1..Len(log) + 1 /\ DOMAIN log = 1..Len(log)
      /\ \A i \in 1..Len(log) : new[i] = log[i]
      /\ new[Len(log) + 1] = e
  OBVIOUS
<1> HIDE DEF new
<1>2. ASSUME NEW x
      PROVE  x \in SnapshotsIn(new) <=>
               x \in SnapshotsIn(log) \/ (e.type = "recovery_snapshot" /\ x = e)
  <2>1. x \in SnapshotsIn(new) <=>
          \E i \in 1..Len(log) + 1 : new[i].type = "recovery_snapshot" /\ x = new[i]
    BY <1>1 DEF SnapshotsIn
  <2>2. x \in SnapshotsIn(log) <=>
          \E i \in 1..Len(log) : log[i].type = "recovery_snapshot" /\ x = log[i]
    BY <1>1 DEF SnapshotsIn
  <2> QED
    BY <1>1, <2>1, <2>2
<1> QED
  BY <1>2 DEF new

\* What is being recorded leaves unknown only what the journal has started.
LEMMA PendingUnknownFits ==
  ASSUME TypeInv, JournalInv, StartInv, EffectInv, EndInv, CalmInv, pc \in RecordPoints
  PROVE  UnknownFits(mem, PendingEvent)
<1>1. /\ mem \in Seq(Event) /\ ResultFits(mem, PendingEvent)
      /\ run.turn \in Nat /\ PendingEvent \in Event
  BY PendingResultFits, PendingEventType DEF TypeInv, TypeOK, Run
<1>2. CASE pc \in Closing
  <2> DEFINE c == NextPending
  <2>1. /\ PendingEvent.type = "execution_completed" /\ PendingEvent.turn = run.turn
        /\ PendingEvent.calls = {c} /\ PendingEvent.effect = ClosingEffect(mem, run.turn, c)
    BY <1>2, PendingEventIs
  <2>2. run.turn # NoTurn
    BY <1>2 DEF EndInv, OpenInv, TurnPoints, Point, RecordPoints, Closing, Recovering, NoTurn
  <2>3. PendingEvent.effect = "unknown" => c \in Started(mem) /\ c \in Risky
    BY <1>1, <2>1, TurnCalls DEF ClosingEffect, StartedIn, Started
  <2>4. c \notin Completed(mem)
    BY <1>1, <2>1 DEF ResultFits
  <2> QED
    BY <2>1, <2>2, <2>3, <2>4 DEF UnknownFits, Uncertain
<1>3. CASE pc = "rec_completed"
  <2>1. /\ PendingEvent.type = "execution_completed" /\ PendingEvent.turn = run.turn
        /\ PendingEvent.calls = run.call /\ PendingEvent.effect = run.effect
    BY <1>3, PendingEventIs
  <2>2. run.turn # NoTurn
    BY <1>3 DEF EndInv, OpenInv, TurnPoints, Point, RecordPoints, Recovering, NoTurn
  <2>3. run.effect = "unknown" => run.call \subseteq Started(mem) \cap Risky
    BY <1>3 DEF CalmInv
  <2> QED
    BY <1>1, <2>1, <2>2, <2>3 DEF UnknownFits, Uncertain, ResultFits
<1>4. CASE pc = "rec_started"
  BY <1>4, PendingEventIs DEF UnknownFits, EffectInv, AnswerInv, ToolPoints, BeforeStart
<1>5. CASE pc \notin Closing \cup {"rec_completed", "rec_started"}
  BY <1>5, PendingEventIs DEF UnknownFits
<1> QED
  BY <1>2, <1>3, <1>4, <1>5

\* A snapshot is recorded at one point only.
LEMMA PendingSnapshot ==
  ASSUME TypeInv, pc \in RecordPoints
  PROVE  /\ PendingEvent.type = "recovery_snapshot" <=> pc = "rec_snapshot"
         /\ pc = "rec_snapshot" => PendingEvent = snapshot
<1>1. CASE pc = "rec_snapshot"
  BY <1>1 DEF PendingEvent, TypeInv
<1>2. CASE pc \in Closing
  BY <1>2 DEF PendingEvent, NewEvent, Closing
<1>3. CASE pc \in RecordPoints \ (Closing \cup {"rec_snapshot"})
  BY <1>3 DEF PendingEvent, NewEvent, Closing, RecordPoints
<1> QED
  BY <1>1, <1>2, <1>3

\* Every step keeps the files and the late appends in order.
LEMMA UnknownStep ==
  ASSUME TypeInv, JournalInv, StartInv, EffectInv, EndInv, UnknownLogInv, CalmInv, [Next]_vars
  PROVE  UnknownLogInv'
<1>1. CASE UNCHANGED disk /\ orphans' \subseteq orphans
  BY <1>1 DEF UnknownLogInv, Live
<1>2. ASSUME NEW s \in Session, NEW e \in Event, UnknownFits(disk[s], e),
             disk' = [disk EXCEPT ![s] = Append(@, e)], orphans' \subseteq orphans
      PROVE  UnknownLogInv'
  <2>1. /\ disk'[s] = Append(disk[s], e) /\ disk[s] \in Seq(Event)
        /\ \A r \in Session \ {s} : disk'[r] = disk[r]
    BY <1>2 DEF TypeInv, TypeOK
  <2>2. Ordered(disk'[s]) /\ Uncertain(disk'[s]) \subseteq Started(disk'[s])
    BY <1>2, <2>1, AppendOrdered DEF UnknownLogInv
  <2>3. \A r \in Session : Ordered(disk'[r]) /\ Uncertain(disk'[r]) \subseteq Started(disk'[r])
    BY <2>1, <2>2 DEF UnknownLogInv
  <2>4. ASSUME NEW o \in orphans', Live(o)'
        PROVE  /\ UnknownFits(disk'[o.session], o.event)
               /\ o.event.type = "execution_started" => Uncertain(disk'[o.session]) = {}
    <3>1. /\ o \in orphans /\ Live(o) /\ o.session \in Session
          /\ disk'[o.session] = disk[o.session]
      BY <1>2, <2>4, AppendLive
    <3> QED
      BY <3>1 DEF UnknownLogInv
  <2> QED
    BY <1>2, <2>3, <2>4 DEF UnknownLogInv
<1>3. CASE RecordStep
  <2>1. /\ pc \in RecordPoints /\ InOperation /\ cur \in Session
        /\ PendingEvent \in Event /\ orphans' \subseteq orphans
        /\ disk' = [disk EXCEPT ![cur] = Append(@, PendingEvent)]
    BY <1>3, PendingEventType DEF RecordStep, RecordPoints, InOperation, TypeInv, TypeOK
  <2>2. UnknownFits(disk[cur], PendingEvent)
    BY <1>3, <2>1, SameLog, PendingUnknownFits DEF RecordStep, NextInFile
  <2> QED
    BY <1>2, <2>1, <2>2
<1>4. ASSUME NEW threadRuns \in BOOLEAN, CancelRecord(threadRuns) PROVE UnknownLogInv'
  <2> DEFINE new == [session |-> cur, sequence |-> Len(mem) + 1, event |-> PendingEvent]
  <2>1. /\ pc \in RecordPoints /\ pc # "rec_snapshot" /\ InOperation /\ UNCHANGED disk
        /\ orphans' \subseteq orphans \cup {new} /\ mem \in Seq(Event)
    BY <1>4 DEF CancelRecord, RecordPoints, InResume, InOperation, TypeInv, TypeOK
  <2>2. ASSUME Live(new)
        PROVE  /\ UnknownFits(disk[cur], PendingEvent)
               /\ PendingEvent.type = "execution_started" => Uncertain(disk[cur]) = {}
    <3>1. Len(mem) = Len(disk[cur])
      BY <2>1, <2>2, InOperationSession DEF Live
    <3>2. mem = disk[cur]
      BY <2>1, <3>1, SameLog
    <3>3. PendingEvent.type = "execution_started" => pc = "rec_started"
      BY <2>1, PendingEventIs
    <3>4. pc = "rec_started" => Uncertain(mem) = {}
      BY DEF CalmInv, Calm, FailPoints, Resuming, TurnPoints, Point, RecordPoints, Recovering,
             CallPoints
    <3> QED
      BY <2>1, <3>2, <3>3, <3>4, PendingUnknownFits
  <2>3. PendingEvent.type # "recovery_snapshot"
    BY <2>1, PendingSnapshot
  <2>4. \A o \in orphans' : o.event.type # "recovery_snapshot"
    BY <2>1, <2>3 DEF UnknownLogInv
  <2>5. ASSUME NEW o \in orphans', Live(o)'
        PROVE  /\ UnknownFits(disk'[o.session], o.event)
               /\ o.event.type = "execution_started" => Uncertain(disk'[o.session]) = {}
    <3>1. Live(o) /\ disk' = disk
      BY <2>1, <2>5 DEF Live
    <3>2. CASE o \in orphans
      BY <3>1, <3>2 DEF UnknownLogInv
    <3>3. CASE o = new
      BY <2>2, <3>1, <3>3
    <3> QED
      BY <2>1, <3>2, <3>3
  <2> QED
    BY <2>1, <2>4, <2>5 DEF UnknownLogInv
<1>5. ASSUME NEW o \in orphans, OrphanLands(o) PROVE UnknownLogInv'
  <2>1. /\ o.session \in Session /\ o.event \in Event /\ Live(o)
        /\ disk' = [disk EXCEPT ![o.session] = Append(@, o.event)]
        /\ orphans' \subseteq orphans
    BY <1>5 DEF OrphanLands, TypeInv, TypeOK, Live
  <2> QED
    BY <1>2, <2>1 DEF UnknownLogInv
<1>6. CASE RecordConflict \/ \E o \in orphans : OrphanDies(o)
  BY <1>1, <1>6 DEF RecordConflict, OrphanDies
<1>7. CASE Coordinator \/ Loop
  BY <1>1, <1>7 DEF Coordinator, NewSession, Send, RejectInput, ResolveOperation,
       PrepareKnowledge, EnterLoop, Loop, StopAtTop, PrepareRequest, ReportUsage,
       StreamFails, RetryContext, RepairCitations, Answer, RequestTools
<1>8. CASE Tools \/ Recovery
  BY <1>1, <1>8 DEF Tools, BatchDone, StopBatch, NextCall, RefuseCall, ReplanCall, Decide,
       HandlerActs, HandlerReturns, HandlerLost, ReportResult, Recovery, CancelTask, Crash,
       Restart, ResumeClean, ResumeInterrupted, ResumeUncertain, ResumeReopens
<1>9. CASE UNCHANGED vars
  BY <1>1, <1>9 DEF vars
<1> QED
  BY <1>3, <1>4, <1>5, <1>6, <1>7, <1>8, <1>9 DEF Next, Journal

\* A failing or ending operation is at no point CalmInv speaks of.
LEMMA FailCalm ==
  ASSUME Fail \/ FailInStream \/ End
  PROVE  CalmInv'
<1>1. pc' \in FailPoints \cup {"idle"}
  BY DEF Fail, FailInStream, End, ClosingPoint, FailPoints
<1> QED
  BY <1>1 DEF CalmInv, Calm, FailPoints, Resuming, CallPoints, BeforeStart, TurnPoints

\* A record: where it leads, and what it leaves unknown.
LEMMA AfterRecordCalm ==
  ASSUME pc \in RecordPoints, NEW log, NEW next, next = AfterRecord(log)
  PROVE  /\ next \in Calm =>
              \/ pc \in Calm \ {"rec_started"}
              \/ pc = "rec_completed" /\ (run.verdict = "replan" \/ ~run.stop)
         /\ next \in CallPoints =>
              \/ pc = "rec_started" /\ next = "handler"
              \/ pc = "rec_permission" /\ next = "result"
         /\ next \in BeforeStart => pc \in BeforeStart
         /\ next = "rec_started" => run.verdict = "allow"
<1> USE DEF AfterRecord, AfterPermission, ClosingPoint
<1>1. CASE pc \in {"rec_session", "rec_user", "rec_rejected", "rec_resolved", "rec_retrieval",
                   "rec_request", "rec_usage", "rec_turn_completed", "rec_turn_failed",
                   "rec_stream_failed", "rec_resume_failed", "rec_recovery_session",
                   "rec_snapshot"}
  BY <1>1 DEF Calm, CallPoints, TurnPoints, Point, RecordPoints, OtherPoints, Recovering,
              BeforeStart, FailPoints, Resuming
<1>2. CASE pc \in {"rec_assistant", "rec_requested", "rec_permission", "rec_started"}
  BY <1>2 DEF Calm, CallPoints, TurnPoints, Point, RecordPoints, OtherPoints, Recovering,
              BeforeStart, FailPoints, Resuming
<1>3. CASE pc \in Closing \cup {"rec_completed"}
  BY <1>3 DEF Closing, Calm, FailPoints, Resuming, CallPoints, TurnPoints, Point, RecordPoints,
              OtherPoints, Recovering, BeforeStart
<1> QED
  BY <1>1, <1>2, <1>3 DEF RecordPoints, Closing

\* A record at a calm point leaves nothing unknown, if it starts nothing.
LEMMA RecordCalm ==
  ASSUME TypeInv, JournalInv, StartInv, EffectInv, EndInv, CalmInv, RecordStep
  PROVE  CalmInv'
<1> DEFINE log == Append(mem, PendingEvent)
<1>1. /\ pc \in RecordPoints /\ PendingEvent \in Event /\ mem \in Seq(Event)
      /\ UnknownFits(mem, PendingEvent)
  BY PendingEventType, PendingUnknownFits DEF RecordStep, TypeInv, TypeOK
<1>2. CASE AfterRecord(log) = "idle"
  BY <1>2, FailCalm DEF RecordStep
<1>3. CASE AfterRecord(log) # "idle"
  <2>1. pc' = AfterRecord(log) /\ mem' = log /\ UNCHANGED run
    BY <1>3 DEF RecordStep
  <2>2. /\ pc' \in Calm =>
             \/ pc \in Calm \ {"rec_started"}
             \/ pc = "rec_completed" /\ (run.verdict = "replan" \/ ~run.stop)
        /\ pc' \in CallPoints =>
             \/ pc = "rec_started" /\ pc' = "handler"
             \/ pc = "rec_permission" /\ pc' = "result"
        /\ pc' \in BeforeStart => pc \in BeforeStart
        /\ pc' = "rec_started" => run.verdict = "allow"
    BY <1>1, <2>1, AfterRecordCalm
  <2> HIDE DEF log
  <2>3. ASSUME pc \in Calm \ {"rec_started"} PROVE Uncertain(mem') = {}
    <3>1. Uncertain(mem) = {}
      BY <2>3 DEF CalmInv
    <3>2. CASE pc \in Closing
      <4>1. PendingEvent.type = "execution_completed" /\ PendingEvent.calls = {NextPending}
        BY <1>1, <3>2, PendingEventIs
      <4>2. PendingEvent.effect # "unknown"
        BY <1>1, <3>1, <4>1 DEF UnknownFits
      <4> QED
        BY <1>1, <2>1, <3>1, <4>1, <4>2, AppendUncertain DEF log
    <3>3. CASE pc \notin Closing
      <4>1. PendingEvent.type \notin {"execution_started", "execution_completed"}
        BY <1>1, <2>3, <3>3, PendingEventIs DEF Calm, FailPoints, Resuming, CallPoints
      <4> QED
        BY <1>1, <2>1, <3>1, <4>1, AppendUncertain DEF log
    <3> QED
      BY <3>2, <3>3
  <2>4. ASSUME pc = "rec_completed", run.verdict = "replan" \/ ~run.stop
        PROVE  Uncertain(mem') = {}
    <3>1. Uncertain(mem) \subseteq run.call /\ run.effect # "unknown"
      BY <2>4 DEF CalmInv, CallPoints
    <3>2. /\ PendingEvent.type = "execution_completed" /\ PendingEvent.calls = run.call
          /\ PendingEvent.effect # "unknown"
      BY <1>1, <2>4, <3>1, PendingEventIs
    <3>3. Uncertain(mem') \subseteq Uncertain(mem) \ run.call
      BY <1>1, <2>1, <3>2, AppendUncertain DEF log
    <3> QED
      BY <3>1, <3>3
  <2>5. ASSUME pc = "rec_started"
        PROVE  Uncertain(mem') \subseteq run'.call /\ run'.verdict = "allow"
    <3>1. Uncertain(mem) = {} /\ run.verdict = "allow"
      BY <2>5 DEF CalmInv, Calm, FailPoints, Resuming, CallPoints, TurnPoints, Point,
                  RecordPoints, Recovering
    <3>2. PendingEvent.type = "execution_started" /\ PendingEvent.calls = run.call
      BY <1>1, <2>5, PendingEventIs
    <3>3. Uncertain(mem') \subseteq Uncertain(mem) \cup (run.call \cap Risky)
      BY <1>1, <2>1, <3>2, AppendUncertain DEF log
    <3> QED
      BY <2>1, <3>1, <3>3
  <2>6. ASSUME pc = "rec_permission"
        PROVE  Uncertain(mem') = {} /\ run'.effect = "none"
    <3>1. pc \in Calm \ {"rec_started"} /\ run.effect = "none"
      BY <2>6 DEF CalmInv, Calm, FailPoints, Resuming, CallPoints, TurnPoints, Point,
                  RecordPoints, Recovering,
                  BeforeStart
    <3> QED
      BY <2>1, <2>3, <3>1
  <2>7. pc' \in BeforeStart => run'.effect = "none"
    BY <2>1, <2>2 DEF CalmInv
  <2>8. pc' \in {"rec_started", "handler", "acted"} => run'.verdict = "allow"
    BY <2>1, <2>2, <2>5 DEF CallPoints
  <2>9. pc' \in {"result", "rec_completed"} => run'.effect = "none"
    BY <2>2, <2>6 DEF CallPoints
  <2>10. /\ pc' \in Calm => Uncertain(mem') = {}
         /\ pc' \in CallPoints => Uncertain(mem') \subseteq run'.call
    BY <2>2, <2>3, <2>4, <2>5, <2>6
  <2> QED
    BY <2>7, <2>8, <2>9, <2>10 DEF CalmInv
<1> QED
  BY <1>2, <1>3

\* From one point where nothing is unknown to another.
LEMMA StayCalm ==
  ASSUME CalmInv, pc \in Calm, pc' \in Calm \ BeforeStart, UNCHANGED mem
  PROVE  CalmInv'
BY DEF CalmInv, Calm, FailPoints, Resuming, CallPoints, BeforeStart

\* No turn, nothing to say of it.
LEMMA NoCalm ==
  ASSUME pc' \notin TurnPoints
  PROVE  CalmInv'
BY DEF CalmInv, Calm, FailPoints, Resuming, CallPoints, BeforeStart, TurnPoints, Point,
       RecordPoints, OtherPoints,
       Recovering

\* A log that takes a turn leaves nothing unknown.
LEMMA NotUncertain ==
  ASSUME NEW log, ~IsUncertain(log)
  PROVE  Uncertain(log) = {}
BY DEF IsUncertain, ClassifyLogicalRecovery

\* A call's result is unknown only where its handler was started and lost.
LEMMA ToolsCalm ==
  ASSUME TypeInv, StartInv, CalmInv, Tools
  PROVE  CalmInv'
<1> USE DEF CallPoints, BeforeStart
<1>1. CASE BatchDone
  <2>1. pc = "next_call" /\ pc' = "top" /\ UNCHANGED mem
    BY <1>1 DEF BatchDone
  <2>2. pc \in Calm /\ pc' \in Calm \ BeforeStart
    BY <2>1 DEF Calm, FailPoints, Resuming, TurnPoints, Point, OtherPoints, Recovering
  <2> QED
    BY <2>1, <2>2, StayCalm
<1>2. CASE StopBatch
  BY <1>2, FailCalm DEF StopBatch
<1>3. ASSUME NEW c \in Call, NextCall(c) PROVE CalmInv'
  <2>1. pc = "next_call" /\ pc' = "rec_requested" /\ run'.effect = "none" /\ UNCHANGED mem
    BY <1>3 DEF NextCall, TypeInv, TypeOK, Run
  <2>2. Uncertain(mem) = {}
    BY <2>1 DEF CalmInv, Calm, FailPoints, Resuming, TurnPoints, Point, OtherPoints, Recovering
  <2> QED
    BY <2>1, <2>2 DEF CalmInv
<1>4. ASSUME NEW verdict, RefuseCall \/ ReplanCall \/ Decide(verdict) PROVE CalmInv'
  <2>1. /\ pc = "checks" /\ pc' \in {"result", "rec_permission"} /\ run'.effect = run.effect
        /\ UNCHANGED mem
    BY <1>4 DEF RefuseCall, ReplanCall, Decide, TypeInv, TypeOK, Run
  <2>2. Uncertain(mem) = {} /\ run.effect = "none"
    BY <2>1 DEF CalmInv, Calm, FailPoints, Resuming, TurnPoints, Point, OtherPoints, Recovering
  <2> QED
    BY <2>1, <2>2 DEF CalmInv
<1>5. CASE HandlerActs
  <2>1. pc = "handler" /\ pc' = "acted" /\ UNCHANGED <<mem, run>>
    BY <1>5 DEF HandlerActs
  <2> QED
    BY <2>1 DEF CalmInv, Calm, FailPoints, Resuming
<1>6. ASSUME NEW stop, NEW failed, HandlerReturns(stop, failed) PROVE CalmInv'
  <2>1. /\ pc \in {"handler", "acted"} /\ pc' = "result" /\ run'.effect # "unknown"
        /\ run'.call = run.call /\ UNCHANGED mem
    BY <1>6 DEF HandlerReturns, TypeInv, TypeOK, Run
  <2> QED
    BY <2>1 DEF CalmInv, Calm, FailPoints, Resuming
<1>7. ASSUME NEW stop, HandlerLost(stop) PROVE CalmInv'
  <2>1. /\ pc \in {"handler", "acted"} /\ pc' = "result" /\ UNCHANGED mem
        /\ run'.call = run.call /\ run'.verdict = run.verdict
        /\ run'.effect = "unknown" => run.call \subseteq Risky /\ run'.stop
    BY <1>7 DEF HandlerLost, TypeInv, TypeOK, Run
  <2>2. run.call \subseteq Started(mem) /\ run.verdict = "allow"
    BY <2>1 DEF CalmInv, StartInv, BatchInv
  <2> QED
    BY <2>1, <2>2 DEF CalmInv, Calm, FailPoints, Resuming
<1>8. CASE ReportResult
  <2>1. /\ pc = "result" /\ pc' = "rec_completed" /\ UNCHANGED mem
        /\ run'.call = run.call /\ run'.verdict = run.verdict
        /\ run'.effect = run.effect /\ run'.stop = run.stop
    BY <1>8 DEF ReportResult, TypeInv, TypeOK, Run
  <2> QED
    BY <2>1 DEF CalmInv, Calm, FailPoints, Resuming
<1> QED
  BY <1>1, <1>2, <1>3, <1>4, <1>5, <1>6, <1>7, <1>8 DEF Tools

\* Every step keeps a turn calm until its call is started.
LEMMA CalmStep ==
  ASSUME TypeInv, JournalInv, StartInv, EffectInv, EndInv, CalmInv, [Next]_vars
  PROVE  CalmInv'
<1>1. CASE Journal
  <2>1. CASE RecordStep
    BY <2>1, RecordCalm
  <2>2. CASE RecordConflict \/ \E threadRuns \in BOOLEAN : CancelRecord(threadRuns)
    BY <2>2, FailCalm DEF RecordConflict, CancelRecord
  <2>3. CASE \E o \in orphans : OrphanLands(o) \/ OrphanDies(o)
    <3>1. UNCHANGED <<pc, mem, run>>
      BY <2>3 DEF OrphanLands, OrphanDies
    <3> QED
      BY <3>1 DEF CalmInv
  <2> QED
    BY <1>1, <2>1, <2>2, <2>3 DEF Journal
<1>2. CASE Coordinator
  <2>1. CASE NewSession
    BY <2>1, NoCalm DEF NewSession, TurnPoints
  <2>2. CASE Send
    <3>1. /\ pc' \in {"rec_session", "rec_user"} /\ mem' = disk[cur] /\ ~IsUncertain(disk[cur])
      BY <2>2 DEF Send
    <3>2. Uncertain(mem') = {}
      BY <3>1, NotUncertain
    <3> QED
      BY <3>1, <3>2 DEF CalmInv, CallPoints, BeforeStart
  <2>3. CASE RejectInput \/ ResolveOperation \/ PrepareKnowledge \/ EnterLoop
    <3>1. /\ pc \in {"accepted", "retrieved"} /\ UNCHANGED mem
          /\ pc' \in {"rec_rejected", "rec_resolved", "rec_retrieval", "top"}
      BY <2>3 DEF RejectInput, ResolveOperation, PrepareKnowledge, EnterLoop
    <3>2. pc \in Calm /\ pc' \in Calm \ BeforeStart
      BY <3>1 DEF Calm, FailPoints, Resuming, CallPoints, BeforeStart, TurnPoints, Point,
                  RecordPoints, OtherPoints, Recovering
    <3> QED
      BY <3>1, <3>2, StayCalm
  <2> QED
    BY <1>2, <2>1, <2>2, <2>3 DEF Coordinator
<1>3. CASE Loop
  <2>1. CASE StopAtTop \/ StreamFails
    BY <2>1, FailCalm DEF StopAtTop, StreamFails
  <2>2. CASE ~(StopAtTop \/ StreamFails)
    <3>1. /\ pc \in {"top", "stream", "streamed"} /\ UNCHANGED mem
          /\ pc' \in {"top", "rec_request", "rec_usage", "rec_assistant"}
      BY <1>3, <2>2 DEF Loop, PrepareRequest, ReportUsage, RetryContext, RepairCitations,
                        Answer, RequestTools
    <3>2. pc \in Calm /\ pc' \in Calm \ BeforeStart
      BY <3>1 DEF Calm, FailPoints, Resuming, CallPoints, BeforeStart, TurnPoints, Point,
                  RecordPoints, OtherPoints, Recovering
    <3> QED
      BY <3>1, <3>2, StayCalm
  <2> QED
    BY <2>1, <2>2
<1>4. CASE Recovery
  <2>1. CASE CancelTask
    BY <2>1, FailCalm DEF CancelTask
  <2>2. CASE Crash \/ Restart \/ \E s \in Session : ResumeClean(s) \/ ResumeUncertain(s)
    BY <2>2, NoCalm DEF Crash, Restart, ResumeClean, ResumeUncertain, TurnPoints, Recovering
  <2>3. ASSUME NEW s \in Session, ResumeInterrupted(s) PROVE CalmInv'
    <3>1. pc' = "resume_read"
      BY <2>3 DEF ResumeInterrupted
    <3> QED
      BY <3>1 DEF CalmInv, Calm, Resuming, CallPoints, BeforeStart
  <2>4. CASE ResumeReopens
    <3>1. pc' \in {"rec_resume_closed", "rec_resume_failed"}
      BY <2>4 DEF ResumeReopens, ClosingPoint
    <3> QED
      BY <3>1 DEF CalmInv, Calm, Resuming, CallPoints, BeforeStart
  <2> QED
    BY <1>4, <2>1, <2>2, <2>3, <2>4 DEF Recovery
<1>5. CASE UNCHANGED vars
  BY <1>5 DEF vars, CalmInv
<1> QED
  BY <1>1, <1>2, <1>3, <1>4, <1>5, ToolsCalm DEF Next

\* Fewer late appends, no new line: what is told stays told.
LEMMA QuietTold ==
  ASSUME NEW e, Told(e), UNCHANGED disk, orphans' \subseteq orphans
  PROVE  Told(e)' /\ (Standing(e)' <=> Standing(e))
BY DEF Told, Standing, Live

\* A line that starts nothing in the parent while the snapshot stands.
LEMMA AppendTold ==
  ASSUME TypeInv, JournalInv, UnknownLogInv, NEW s \in Session, NEW x \in Event,
         UnknownFits(disk[s], x), disk' = [disk EXCEPT ![s] = Append(@, x)],
         orphans' \subseteq orphans, NEW e \in Event, Told(e),
         e.ref = s /\ Standing(e) => x.type # "execution_started"
  PROVE  Told(e)' /\ (Standing(e)' => Standing(e))
<1>1. /\ disk'[s] = Append(disk[s], x) /\ disk[s] \in Seq(Event)
      /\ \A r \in Session \ {s} : disk'[r] = disk[r]
  BY DEF TypeInv, TypeOK
<1>2. e.ref \in Session /\ e.through \in 1..Len(disk[e.ref]) /\ e.through <= SafeIndex(disk[e.ref])
  BY DEF Told
<1>3. ASSUME NEW o \in orphans', Live(o)', o.session = e.ref, Standing(e)
      PROVE  o.event.type # "execution_started"
  <2>1. o \in orphans /\ Live(o)
    BY <1>3, AppendLive
  <2> QED
    BY <1>3, <2>1 DEF Told
<1>4. CASE e.ref # s
  <2>1. disk'[e.ref] = disk[e.ref]
    BY <1>1, <1>2, <1>4
  <2> QED
    BY <1>2, <1>3, <2>1 DEF Told, Standing
<1>5. CASE e.ref = s
  <2> DEFINE log == disk[s]
  <2>1. /\ log \in Seq(Event) /\ Len(disk'[s]) = Len(log) + 1 /\ Len(log) \in Nat
        /\ SafeIndex(log) \in Nat /\ SafeIndex(disk'[s]) \in Nat
        /\ SafeIndex(log) <= SafeIndex(disk'[s])
    <3>1. /\ log \in Seq(Event) /\ Append(log, x) \in Seq(Event)
          /\ Len(Append(log, x)) = Len(log) + 1 /\ Len(log) \in Nat
      BY <1>1
    <3>2. /\ SafeIndex(log) \in Nat /\ SafeIndex(Append(log, x)) \in Nat
          /\ SafeIndex(log) <= SafeIndex(Append(log, x))
      BY <3>1, SafeIndexIs, AppendSafe
    <3> QED
      BY <1>1, <3>1, <3>2
  <2>2. /\ e.through \in 1..Len(disk'[s]) /\ e.through <= SafeIndex(disk'[s])
        /\ Standing(e)' => Standing(e)
    BY <1>2, <1>5, <2>1 DEF Standing
  <2>3. ASSUME Standing(e)'
        PROVE  /\ Uncertain(disk'[s]) \subseteq e.calls
               /\ Uncertain(disk'[s]) # {} \/ OpenTurns(disk'[s]) # {}
    <3>1. Standing(e) /\ SafeIndex(disk'[s]) <= Len(log)
      BY <1>2, <1>5, <2>1, <2>2, <2>3 DEF Standing
    <3>2. /\ Uncertain(log) \subseteq e.calls
          /\ Uncertain(log) # {} \/ OpenTurns(log) # {}
      BY <1>5, <3>1 DEF Told
    <3>3. Ordered(log) /\ Uncertain(log) \subseteq Started(log)
      BY DEF UnknownLogInv
    <3>4. /\ Uncertain(disk'[s]) \subseteq Uncertain(log)
          /\ Uncertain(disk'[s]) # {} \/ OpenTurns(disk'[s]) # {}
      BY <1>1, <1>5, <2>1, <3>1, <3>2, <3>3, AppendStanding
    <3> QED
      BY <3>2, <3>4
  <2> QED
    BY <1>2, <1>3, <1>5, <2>2, <2>3 DEF Told
<1> QED
  BY <1>4, <1>5

\* The snapshots of a file are events.
LEMMA SnapshotsType ==
  ASSUME TypeInv, NEW r \in Session
  PROVE  SnapshotsIn(disk[r]) \subseteq Event
<1>1. disk[r] \in Seq(Event)
  BY DEF TypeInv, TypeOK
<1> QED
  BY <1>1, EntryType DEF SnapshotsIn

\* A step that writes no line.
LEMMA QuietSnapshots ==
  ASSUME SnapshotInv, UNCHANGED disk, orphans' \subseteq orphans,
         ASSUME NEW e, Told(e), Left(e), Standing(e)
         PROVE  /\ cur' = e.ref => pc' \in Resuming /\ Uncertain(disk[e.ref]) = {}
                /\ pc' \in InResume => run'.previous # e.ref,
         pc' \in Recovering => Told(snapshot)' /\ cur' # snapshot'.ref
  PROVE  SnapshotInv'
<1>1. ASSUME NEW r \in Session, NEW e \in SnapshotsIn(disk[r])
      PROVE  Told(e)' /\ Left(e)'
  <2>1. Told(e) /\ Left(e)
    BY DEF SnapshotInv
  <2>2. Told(e)' /\ (Standing(e)' <=> Standing(e))
    BY <2>1, QuietTold
  <2> QED
    BY <2>1, <2>2 DEF Left
<1> QED
  BY <1>1 DEF SnapshotInv

\* The steps of a turn, which is in no parent of a standing snapshot.
LEMMA TurnSnapshots ==
  ASSUME SnapshotInv, UNCHANGED <<disk, cur>>, orphans' \subseteq orphans,
         pc \notin Resuming, pc' \notin InResume
  PROVE  SnapshotInv'
<1>1. ASSUME NEW e, Told(e), Left(e), Standing(e)
      PROVE  /\ cur' = e.ref => pc' \in Resuming /\ Uncertain(disk[e.ref]) = {}
             /\ pc' \in InResume => run'.previous # e.ref
  BY <1>1 DEF Left
<1> QED
  BY <1>1, QuietSnapshots DEF Recovering, InResume

\* A record: the parent of a standing snapshot is only written to be closed, and
\* its end then lets the snapshot fall.
LEMMA RecordSnapshots ==
  ASSUME TypeInv, JournalInv, StartInv, EffectInv, EndInv, UnknownLogInv, CalmInv,
         SnapshotInv, RecordStep
  PROVE  SnapshotInv'
<1> DEFINE x == PendingEvent
           next == AfterRecord(Append(mem, x))
<1>1. /\ pc \in RecordPoints /\ InOperation /\ cur \in Session /\ x \in Event
      /\ orphans' \subseteq orphans /\ cur' = cur
      /\ disk' = [disk EXCEPT ![cur] = Append(@, x)]
      /\ mem = disk[cur] /\ mem \in Seq(Event)
  <2>1. pc \in RecordPoints /\ InOperation /\ cur \in Session /\ mem \in Seq(Event)
    BY DEF RecordStep, RecordPoints, InOperation, TypeInv, TypeOK
  <2> QED
    BY <2>1, SameLog, PendingEventType DEF RecordStep, NextInFile
<1>2. UnknownFits(disk[cur], x)
  BY <1>1, PendingUnknownFits
<1>3. /\ disk'[cur] = Append(disk[cur], x)
      /\ \A r \in Session \ {cur} : disk'[r] = disk[r]
  BY <1>1 DEF TypeInv, TypeOK
<1>4. /\ next = "idle" => pc' = "idle"
      /\ next # "idle" => pc' = next /\ UNCHANGED <<run, snapshot>>
  BY DEF RecordStep, End
<1>5. /\ next \in InResume => pc \in InResume
      /\ pc = "rec_resume_closed" => next \in Resuming
      /\ next \in Recovering => pc \in Recovering
      /\ pc = "rec_resume_failed" => x.type \in TerminalType
  BY <1>1, PendingEnds DEF AfterRecord, AfterPermission, ClosingPoint, InResume, Resuming, Recovering,
              RecordPoints, Ending
<1> HIDE DEF next
<1>6. ASSUME NEW e \in Event, Told(e), Standing(e), e.ref = cur, pc \in Resuming,
             Uncertain(disk[cur]) = {}
      PROVE  /\ x.type # "execution_started"
             /\ Standing(e)' => pc' \in Resuming /\ Uncertain(disk'[cur]) = {}
  <2>1. x.type # "execution_started"
    BY <1>1, <1>6, PendingEventIs DEF Resuming
  <2>2. CASE pc = "rec_resume_closed"
    <3>1. x.type = "execution_completed" /\ x.calls = {NextPending}
      BY <1>1, <2>2, PendingEventIs DEF Closing
    <3>2. x.effect # "unknown"
      BY <1>2, <1>6, <3>1 DEF UnknownFits
    <3>3. Uncertain(disk'[cur]) = {}
      BY <1>1, <1>3, <1>6, <3>1, <3>2, AppendUncertain
    <3> QED
      BY <1>4, <1>5, <2>1, <2>2, <3>3 DEF Resuming
  <2>3. CASE pc = "rec_resume_failed"
    <3>1. Uncertain(disk'[cur]) = {} /\ x.type \in TerminalType
      <4>1. x.type \in TerminalType
        BY <1>5, <2>3
      <4> QED
        BY <1>1, <1>3, <1>6, <4>1, AppendUncertain DEF TerminalType
    <3>2. Ordered(disk'[cur]) /\ disk'[cur] \in Seq(Event)
      <4>1. Ordered(disk[cur]) /\ Uncertain(disk[cur]) \subseteq Started(disk[cur])
        BY <1>1 DEF UnknownLogInv
      <4> QED
        BY <1>1, <1>2, <1>3, <4>1, AppendOrdered
    <3>3. ~IsUncertain(disk'[cur])
      BY <3>1, <3>2, UncertainIs
    <3>4. Len(disk[cur]) < SafeIndex(disk'[cur])
      BY <1>1, <1>3, <3>1, <3>3, AppendSafe
    <3>5. SafeIndex(disk'[cur]) \in Nat
      BY <3>2, SafeIndexIs
    <3>6. ~Standing(e)'
      <4>1. e.through \in 1..Len(disk[cur])
        BY <1>6 DEF Told
      <4> QED
        BY <1>1, <1>6, <3>4, <3>5, <4>1 DEF Standing
    <3> QED
      BY <2>1, <3>6
  <2> QED
    BY <1>1, <1>6, <2>1, <2>2, <2>3 DEF Resuming, RecordPoints
<1>7. ASSUME NEW e \in Event, Told(e), Left(e)
      PROVE  Told(e)' /\ Left(e)'
  <2>1. e.ref = cur /\ Standing(e) => pc \in Resuming /\ Uncertain(disk[cur]) = {}
    BY <1>7 DEF Left
  <2>2. Told(e)' /\ (Standing(e)' => Standing(e))
    BY <1>1, <1>2, <1>6, <1>7, <2>1, AppendTold
  <2>3. ASSUME Standing(e)'
        PROVE  /\ cur' = e.ref => pc' \in Resuming /\ Uncertain(disk'[e.ref]) = {}
               /\ pc' \in InResume => run'.previous # e.ref
    <3>1. cur' = e.ref => pc' \in Resuming /\ Uncertain(disk'[e.ref]) = {}
      BY <1>1, <1>6, <1>7, <2>1, <2>2, <2>3
    <3>2. pc' \in InResume => pc \in InResume /\ UNCHANGED run
      BY <1>4, <1>5 DEF InResume
    <3> QED
      BY <1>7, <2>2, <2>3, <3>1, <3>2 DEF Left
  <2> QED
    BY <2>2, <2>3 DEF Left
<1>8. ASSUME pc \in Recovering, NEW e \in Event, e = snapshot
      PROVE  Told(e)' /\ cur' # e.ref
  <2>1. Told(e) /\ cur # e.ref
    BY <1>8 DEF SnapshotInv
  <2> QED
    BY <1>1, <1>2, <2>1, AppendTold
<1>9. pc' \in Recovering => Told(snapshot)' /\ cur' # snapshot'.ref
  <2> SUFFICES ASSUME pc' \in Recovering
               PROVE  Told(snapshot)' /\ cur' # snapshot'.ref
    OBVIOUS
  <2>1. pc \in Recovering /\ snapshot' = snapshot /\ snapshot \in Event
    BY <1>4, <1>5 DEF Recovering, TypeInv, TypeOK
  <2>2. PICK e \in Event : e = snapshot
    BY <2>1
  <2>3. Told(e)' /\ cur' # e.ref /\ snapshot' = e
    BY <1>8, <2>1, <2>2
  <2> QED
    BY <2>3 DEF Told, Standing
<1>10. ASSUME NEW r \in Session, NEW e \in SnapshotsIn(disk'[r])
       PROVE  Told(e)' /\ Left(e)'
  <2>1. CASE e \in SnapshotsIn(disk[r])
    BY <1>7, <2>1, SnapshotsType DEF SnapshotInv
  <2>2. CASE e \notin SnapshotsIn(disk[r])
    <3>1. r = cur
      BY <1>3, <1>10, <2>2
    <3>2. e = x /\ x.type = "recovery_snapshot"
      BY <1>1, <1>3, <1>10, <2>2, <3>1, AppendSnapshots
    <3>3. pc = "rec_snapshot" /\ e = snapshot /\ e \in Event
      BY <1>1, <3>2, PendingSnapshot
    <3>4. Told(e)' /\ cur' # e.ref
      BY <1>8, <3>3 DEF Recovering
    <3>5. pc' = "idle"
      BY <1>4, <3>3 DEF next, AfterRecord
    <3> QED
      BY <3>4, <3>5 DEF Left, InResume
  <2> QED
    BY <2>1, <2>2
<1> QED
  BY <1>9, <1>10 DEF SnapshotInv

\* The cancellation of a record: its late append is for the file of the turn, which
\* is no parent of a standing snapshot.
LEMMA CancelSnapshots ==
  ASSUME TypeInv, SnapshotInv, NEW threadRuns \in BOOLEAN, CancelRecord(threadRuns)
  PROVE  SnapshotInv'
<1> DEFINE new == [session |-> cur, sequence |-> Len(mem) + 1, event |-> PendingEvent]
<1>1. /\ pc \notin InResume /\ UNCHANGED <<disk, cur>> /\ orphans' \subseteq orphans \cup {new}
      /\ pc' \in FailPoints \cup {"idle"}
  BY DEF CancelRecord, Fail, End, ClosingPoint, FailPoints
<1>2. ASSUME NEW r \in Session, NEW e \in SnapshotsIn(disk[r])
      PROVE  Told(e)' /\ Left(e)'
  <2>1. Told(e) /\ Left(e)
    BY DEF SnapshotInv
  <2>2. Standing(e) => cur # e.ref
    BY <1>1, <2>1 DEF Left, InResume, Resuming
  <2>3. ASSUME Standing(e), NEW o \in orphans', Live(o)', o.session = e.ref
        PROVE  o.event.type # "execution_started"
    <3>1. o # new
      BY <2>2, <2>3
    <3>2. o \in orphans /\ Live(o)
      BY <1>1, <2>3, <3>1 DEF Live
    <3> QED
      BY <2>1, <2>3, <3>2 DEF Told
  <2>4. Standing(e)' <=> Standing(e)
    BY <1>1 DEF Standing
  <2>5. Told(e)'
    BY <1>1, <2>1, <2>3, <2>4 DEF Told
  <2>6. Left(e)'
    BY <1>1, <2>2, <2>4 DEF Left, InResume, FailPoints
  <2> QED
    BY <2>5, <2>6
<1> QED
  BY <1>1, <1>2 DEF SnapshotInv, Recovering, FailPoints

\* A cancelled append that lands after all, also in the parent of a snapshot.
LEMMA LandSnapshots ==
  ASSUME TypeInv, JournalInv, UnknownLogInv, SnapshotInv, NEW o \in orphans, OrphanLands(o)
  PROVE  SnapshotInv'
<1>1. /\ o.session \in Session /\ o.event \in Event /\ Live(o)
      /\ disk' = [disk EXCEPT ![o.session] = Append(@, o.event)]
      /\ orphans' \subseteq orphans /\ UNCHANGED <<cur, pc, run, snapshot>>
  BY DEF OrphanLands, TypeInv, TypeOK, Live
<1>2. /\ disk'[o.session] = Append(disk[o.session], o.event)
      /\ disk[o.session] \in Seq(Event)
      /\ \A r \in Session \ {o.session} : disk'[r] = disk[r]
  BY <1>1 DEF TypeInv, TypeOK
<1>3. UnknownFits(disk[o.session], o.event) /\ o.event.type # "recovery_snapshot"
  BY <1>1 DEF UnknownLogInv
<1>4. ASSUME NEW e \in Event, Told(e)
      PROVE  Told(e)' /\ (Standing(e)' => Standing(e))
  <2>1. e.ref = o.session /\ Standing(e) => o.event.type # "execution_started"
    BY <1>1, <1>4 DEF Told
  <2> QED
    BY <1>1, <1>3, <1>4, <2>1, AppendTold
<1>5. ASSUME NEW r \in Session, NEW e \in SnapshotsIn(disk'[r])
      PROVE  Told(e)' /\ Left(e)'
  <2>1. e \in SnapshotsIn(disk[r])
    BY <1>1, <1>2, <1>3, <1>5, AppendSnapshots
  <2>2. Told(e) /\ Left(e) /\ e \in Event
    BY <2>1, SnapshotsType DEF SnapshotInv
  <2>3. ASSUME Standing(e), Uncertain(disk[e.ref]) = {} PROVE Uncertain(disk'[e.ref]) = {}
    <3>1. CASE e.ref = o.session
      <4>1. o.event.type # "execution_started"
        BY <1>1, <2>2, <2>3, <3>1 DEF Told
      <4>2. o.event.type = "execution_completed" =>
              o.event.effect # "unknown" \/ o.event.calls = {}
        BY <1>3, <2>3, <3>1 DEF UnknownFits
      <4> QED
        BY <1>1, <1>2, <2>3, <3>1, <4>1, <4>2, AppendUncertain
    <3>2. CASE e.ref # o.session
      BY <1>2, <2>2, <2>3, <3>2 DEF Told
    <3> QED
      BY <3>1, <3>2
  <2> QED
    BY <1>1, <1>4, <2>2, <2>3 DEF Left
<1>6. pc \in Recovering => Told(snapshot)' /\ cur' # snapshot'.ref
  <2> SUFFICES ASSUME pc \in Recovering
               PROVE  Told(snapshot)' /\ cur' # snapshot'.ref
    OBVIOUS
  <2>1. PICK e \in Event : e = snapshot
    BY DEF TypeInv, TypeOK
  <2>2. Told(e) /\ cur # e.ref
    BY <2>1 DEF SnapshotInv
  <2>3. Told(e)' /\ cur' # e.ref /\ snapshot' = e
    BY <1>1, <1>4, <2>1, <2>2
  <2> QED
    BY <2>3 DEF Told, Standing
<1> QED
  BY <1>1, <1>5, <1>6 DEF SnapshotInv

\* A snapshot of an uncertain log lists all that is unknown in it.
LEMMA SnapshotTells ==
  ASSUME TypeInv, UnknownLogInv, NEW s \in Session, IsUncertain(disk[s]),
         NEW e, e = RecoverySnapshot(s, disk[s])
  PROVE  Told(e) /\ e.ref = s
<1> DEFINE log == disk[s]
<1>1. log \in Seq(Event) /\ Ordered(log) /\ Uncertain(log) \subseteq Started(log)
  BY DEF TypeInv, TypeOK, UnknownLogInv
<1>2. /\ e.ref = s /\ e.through = SafeIndex(log) /\ e.calls = UnknownOperations(log)
  BY DEF RecoverySnapshot, NewEvent
<1>3. Uncertain(log) # {}
  BY <1>1, UncertainIs
<1>4. Uncertain(log) \subseteq UnknownOperations(log)
  BY <1>1 DEF Uncertain, UnknownOperations
<1>5. Len(log) \in Nat /\ 1 <= Len(log)
  <2>1. PICK c : c \in Started(log)
    BY <1>1, <1>3
  <2>2. \E i \in 1..Len(log) : c \in log[i].calls
    BY <1>1, <2>1, InCalls DEF Started
  <2> QED
    BY <1>1, <2>2
<1>6. SafeIndex(log) \in 1..Len(log)
  BY <1>1, <1>5, SafeIndexIs, LastTerminalType
<1>7. \A o \in orphans : Live(o) /\ o.session = s => o.event.type # "execution_started"
  BY <1>3 DEF UnknownLogInv
<1>8. SafeIndex(log) <= SafeIndex(log)
  BY <1>6
<1> QED
  BY <1>2, <1>3, <1>4, <1>6, <1>7, <1>8 DEF Told

\* A fresh session is no parent.
LEMMA FreshIsNoParent ==
  ASSUME NEW e, Told(e), NEW r \in Session, Fresh(r)
  PROVE  r # e.ref
<1>1. disk[r] = <<>>
  BY DEF Fresh, Used
<1>2. e.through \in 1..Len(disk[e.ref])
  BY DEF Told
<1> QED
  BY <1>1, <1>2

\* Cancellation between records, crash, restart and resume.
LEMMA RecoverySnapshots ==
  ASSUME TypeInv, JournalInv, UnknownLogInv, SnapshotInv, Recovery
  PROVE  SnapshotInv'
<1>1. CASE CancelTask
  <2>1. /\ UNCHANGED <<disk, cur, orphans>> /\ pc \notin Resuming
        /\ pc' \in FailPoints \cup {"idle"}
    BY <1>1 DEF CancelTask, Fail, End, ClosingPoint, Resuming, FailPoints
  <2> QED
    BY <2>1, TurnSnapshots DEF InResume, FailPoints
<1>2. CASE Restart
  <2>1. UNCHANGED <<disk, cur, orphans>> /\ pc = "down" /\ pc' = "idle"
    BY <1>2 DEF Restart
  <2> QED
    BY <2>1, TurnSnapshots DEF InResume, Resuming
<1>3. CASE Crash
  <2>1. UNCHANGED disk /\ orphans' \subseteq orphans /\ pc' = "down" /\ cur' = 0
    BY <1>3 DEF Crash
  <2>2. ASSUME NEW e, Told(e), Left(e), Standing(e)
        PROVE  /\ cur' = e.ref => pc' \in Resuming /\ Uncertain(disk[e.ref]) = {}
               /\ pc' \in InResume => run'.previous # e.ref
    BY <2>1, <2>2, BoundsAssumption DEF Told, Session, InResume
  <2> QED
    BY <2>1, <2>2, QuietSnapshots DEF Recovering
<1>4. ASSUME NEW s \in Session, ResumeClean(s) PROVE SnapshotInv'
  <2>1. /\ UNCHANGED <<disk, orphans, pc>> /\ pc = "idle" /\ cur' = s
        /\ Uncertain(disk[s]) = {} /\ OpenTurns(disk[s]) = {}
    BY <1>4 DEF ResumeClean, ClassifyLogicalRecovery
  <2>2. ASSUME NEW e, Told(e), Left(e), Standing(e)
        PROVE  /\ cur' = e.ref => pc' \in Resuming /\ Uncertain(disk[e.ref]) = {}
               /\ pc' \in InResume => run'.previous # e.ref
    BY <2>1, <2>2 DEF Told, InResume
  <2> QED
    BY <2>1, <2>2, QuietSnapshots DEF Recovering
<1>5. ASSUME NEW s \in Session, ResumeInterrupted(s) PROVE SnapshotInv'
  <2>1. /\ UNCHANGED <<disk, orphans>> /\ pc = "idle" /\ pc' = "resume_read"
        /\ run'.previous = cur /\ cur' = s /\ ~IsUncertain(disk[s])
    BY <1>5 DEF ResumeInterrupted, NoRun, IsUncertain
  <2>2. Uncertain(disk[s]) = {}
    BY <2>1, NotUncertain
  <2>3. ASSUME NEW e, Told(e), Left(e), Standing(e)
        PROVE  /\ cur' = e.ref => pc' \in Resuming /\ Uncertain(disk[e.ref]) = {}
               /\ pc' \in InResume => run'.previous # e.ref
    BY <2>1, <2>2, <2>3 DEF Left, Resuming
  <2> QED
    BY <2>1, <2>3, QuietSnapshots DEF Recovering
<1>6. ASSUME NEW s \in Session, ResumeUncertain(s) PROVE SnapshotInv'
  <2>1. /\ UNCHANGED <<disk, orphans>> /\ pc = "idle" /\ pc' = "rec_recovery_session"
        /\ run'.previous = cur /\ IsUncertain(disk[s])
        /\ snapshot' = RecoverySnapshot(s, disk[s])
        /\ \E r \in Session : Fresh(r) /\ cur' = r
    BY <1>6 DEF ResumeUncertain, NoRun
  <2>2. ASSUME NEW e, Told(e), Left(e), Standing(e)
        PROVE  /\ cur' = e.ref => pc' \in Resuming /\ Uncertain(disk[e.ref]) = {}
               /\ pc' \in InResume => run'.previous # e.ref
    BY <2>1, <2>2, FreshIsNoParent DEF Left, Resuming
  <2>3. Told(snapshot)' /\ cur' # snapshot'.ref
    <3>1. PICK e : e = RecoverySnapshot(s, disk[s])
      OBVIOUS
    <3>2. Told(e) /\ cur' # e.ref
      BY <2>1, <3>1, SnapshotTells, FreshIsNoParent
    <3>3. Told(e)' /\ snapshot' = e
      BY <2>1, <3>1, <3>2, QuietTold
    <3> QED
      BY <3>2, <3>3 DEF Told, Standing
  <2> QED
    BY <2>1, <2>2, <2>3, QuietSnapshots
<1>7. CASE ResumeReopens
  <2>1. /\ UNCHANGED <<disk, orphans, cur, run>> /\ pc = "resume_read"
        /\ pc' \in {"rec_resume_closed", "rec_resume_failed"}
    BY <1>7 DEF ResumeReopens, ClosingPoint
  <2>2. ASSUME NEW e, Told(e), Left(e), Standing(e)
        PROVE  /\ cur' = e.ref => pc' \in Resuming /\ Uncertain(disk[e.ref]) = {}
               /\ pc' \in InResume => run'.previous # e.ref
    BY <2>1, <2>2 DEF Left, Resuming, InResume
  <2> QED
    BY <2>1, <2>2, QuietSnapshots DEF Recovering
<1> QED
  BY <1>1, <1>2, <1>3, <1>4, <1>5, <1>6, <1>7 DEF Recovery

\* Every step keeps the snapshots right.
LEMMA SnapshotStep ==
  ASSUME TypeInv, JournalInv, StartInv, EffectInv, EndInv, UnknownLogInv, CalmInv,
         SnapshotInv, [Next]_vars
  PROVE  SnapshotInv'
<1>1. CASE Journal
  <2>1. CASE RecordConflict
    <3>1. /\ UNCHANGED <<disk, orphans>> /\ pc' \in FailPoints \cup {"idle"}
          /\ cur' = IF pc \in InResume THEN run.previous ELSE cur
      BY <2>1 DEF RecordConflict, Fail, End, ClosingPoint, FailPoints
    <3>2. ASSUME NEW e, Told(e), Left(e), Standing(e)
          PROVE  /\ cur' = e.ref => pc' \in Resuming /\ Uncertain(disk[e.ref]) = {}
                 /\ pc' \in InResume => run'.previous # e.ref
      BY <3>1, <3>2 DEF Left, Resuming, InResume, FailPoints
    <3> QED
      BY <3>1, <3>2, QuietSnapshots DEF Recovering, FailPoints
  <2>2. ASSUME NEW o \in orphans, OrphanDies(o) PROVE SnapshotInv'
    <3>1. /\ UNCHANGED <<disk, cur, pc, run, snapshot>> /\ orphans' \subseteq orphans
      BY <2>2 DEF OrphanDies
    <3>2. ASSUME NEW e, Told(e), Left(e), Standing(e)
          PROVE  /\ cur' = e.ref => pc' \in Resuming /\ Uncertain(disk[e.ref]) = {}
                 /\ pc' \in InResume => run'.previous # e.ref
      BY <3>1, <3>2 DEF Left
    <3>3. pc' \in Recovering => Told(snapshot)' /\ cur' # snapshot'.ref
      <4> SUFFICES ASSUME pc \in Recovering
                   PROVE  Told(snapshot)' /\ cur' # snapshot'.ref
        BY <3>1
      <4>1. PICK e : e = snapshot
        OBVIOUS
      <4>2. Told(e)' /\ cur' # e.ref /\ snapshot' = e
        BY <3>1, <4>1, QuietTold DEF SnapshotInv
      <4> QED
        BY <4>2 DEF Told, Standing
    <3> QED
      BY <3>1, <3>2, <3>3, QuietSnapshots
  <2> QED
    BY <1>1, <2>1, <2>2, RecordSnapshots, CancelSnapshots, LandSnapshots DEF Journal
<1>2. CASE Coordinator
  <2>1. CASE NewSession
    <3>1. /\ UNCHANGED <<disk, orphans>> /\ pc' = "idle" /\ \E s \in Session : Fresh(s) /\ cur' = s
      BY <2>1 DEF NewSession
    <3>2. ASSUME NEW e, Told(e), Left(e), Standing(e)
          PROVE  /\ cur' = e.ref => pc' \in Resuming /\ Uncertain(disk[e.ref]) = {}
                 /\ pc' \in InResume => run'.previous # e.ref
      BY <3>1, <3>2, FreshIsNoParent DEF InResume
    <3> QED
      BY <3>1, <3>2, QuietSnapshots DEF Recovering
  <2>2. CASE ~NewSession
    <3>1. /\ UNCHANGED <<disk, cur, orphans>> /\ pc \in {"idle", "accepted", "retrieved"}
          /\ pc' \in {"rec_session", "rec_user", "rec_rejected", "rec_resolved",
                      "rec_retrieval", "top"}
      BY <1>2, <2>2 DEF Coordinator, Send, RejectInput, ResolveOperation, PrepareKnowledge,
                        EnterLoop
    <3> QED
      BY <3>1, TurnSnapshots DEF InResume, Resuming
  <2> QED
    BY <2>1, <2>2
<1>3. CASE Loop
  <2>1. /\ UNCHANGED <<disk, cur, orphans>> /\ pc \in {"top", "stream", "streamed"}
        /\ pc' \in {"top", "rec_request", "rec_usage", "rec_assistant"} \cup FailPoints
    BY <1>3 DEF Loop, StopAtTop, PrepareRequest, ReportUsage, StreamFails, RetryContext,
                RepairCitations, Answer, RequestTools, Fail, FailInStream, ClosingPoint,
                FailPoints
  <2> QED
    BY <2>1, TurnSnapshots DEF InResume, Resuming, FailPoints
<1>4. CASE Tools
  <2>1. /\ UNCHANGED <<disk, cur, orphans>> /\ pc \in ToolPoints
        /\ pc' \in ToolPoints \cup {"top", "rec_closed", "rec_turn_failed"}
    BY <1>4 DEF Tools, BatchDone, StopBatch, NextCall, RefuseCall, ReplanCall, Decide,
                HandlerActs, HandlerReturns, HandlerLost, ReportResult, Fail, ClosingPoint,
                ToolPoints, BeforeStart
  <2> QED
    BY <2>1, TurnSnapshots DEF InResume, Resuming, ToolPoints, BeforeStart
<1>5. CASE UNCHANGED vars
  BY <1>5 DEF vars, SnapshotInv, Told, Left, Standing, Live
<1> QED
  BY <1>1, <1>2, <1>3, <1>4, <1>5, RecoverySnapshots DEF Next

LEMMA RecoveryInit == Init => RecoveryInv
<1> SUFFICES ASSUME Init PROVE RecoveryInv
  OBVIOUS
<1>1. \A s \in Session : disk[s] = <<>>
  BY DEF Init
<1>2. /\ Started(<<>>) = {} /\ Completed(<<>>) = {} /\ SnapshotsIn(<<>>) = {}
      /\ \A c : ~LastResult(<<>>, c, "unknown")
  BY DEF Started, Completed, CallsOf, SnapshotsIn, LastResult
<1>3. Uncertain(<<>>) = {}
  BY <1>2 DEF Uncertain
<1>4. Ordered(<<>>)
  BY DEF Ordered
<1>5. orphans = {} /\ pc = "idle"
  BY DEF Init
<1>6. UnknownLogInv
  BY <1>1, <1>2, <1>3, <1>4, <1>5 DEF UnknownLogInv
<1>7. SnapshotInv
  BY <1>1, <1>2, <1>5 DEF SnapshotInv, Recovering
<1>8. CalmInv
  BY <1>5 DEF CalmInv, Calm, CallPoints, BeforeStart, TurnPoints
<1> QED
  BY <1>6, <1>7, <1>8 DEF RecoveryInv

-------------------------------------------------------------------------------
(* RecoveryParts, a function that a session defines from those below it.   *)

\* What one session adds to the parts, given those of lower sessions.
PartsOf(logs, parts, s) ==
  [n \in 0..Len(logs[s]) |->
     UNION {{<<e.ref, c>> : c \in e.calls} \cup
              (IF e.ref < s THEN parts[e.ref][e.through] ELSE {}) :
            e \in SnapshotsIn(SubSeq(logs[s], 1, n))}]

\* The recursion is what it says it is, once some function satisfies it.
LEMMA PartsAre ==
  ASSUME NEW logs, NEW first,
         \E parts : parts = [s \in DOMAIN logs |-> PartsOf(logs, parts, s)]
  PROVE  \E parts : /\ parts = [s \in DOMAIN logs |-> PartsOf(logs, parts, s)]
                    /\ RecoveryParts(logs, first) = parts[first][Len(logs[first])]
<1> DEFINE Solves(parts) == parts = [s \in DOMAIN logs |-> PartsOf(logs, parts, s)]
<1>1. Solves(CHOOSE parts : Solves(parts))
  OBVIOUS
<1>2. RecoveryParts(logs, first) = (CHOOSE parts : Solves(parts))[first][Len(logs[first])]
  BY DEF RecoveryParts, PartsOf
<1> QED
  BY <1>1, <1>2

\* A session's parts use those of lower sessions only.
LEMMA PartsAgree ==
  ASSUME TypeInv, SnapshotInv, NEW s \in Session, NEW p, NEW q,
         \A r \in Session : r < s => p[r] = q[r]
  PROVE  PartsOf(disk, p, s) = PartsOf(disk, q, s)
<1>1. disk[s] \in Seq(Event) /\ Len(disk[s]) \in Nat
  BY DEF TypeInv, TypeOK
<1>2. ASSUME NEW n \in 0..Len(disk[s]), NEW e \in SnapshotsIn(SubSeq(disk[s], 1, n))
      PROVE  e.ref \in Session
  <2>1. e \in SnapshotsIn(disk[s])
    <3>1. PICK i \in DOMAIN SubSeq(disk[s], 1, n) :
            SubSeq(disk[s], 1, n)[i].type = "recovery_snapshot" /\ e = SubSeq(disk[s], 1, n)[i]
      BY <1>2 DEF SnapshotsIn
    <3>2. i \in DOMAIN disk[s] /\ SubSeq(disk[s], 1, n)[i] = disk[s][i]
      BY <1>1, <3>1
    <3> QED
      BY <3>1, <3>2 DEF SnapshotsIn
  <2> QED
    BY <2>1 DEF SnapshotInv, Told
<1>3. ASSUME NEW n \in 0..Len(disk[s]), NEW e \in SnapshotsIn(SubSeq(disk[s], 1, n))
      PROVE  (IF e.ref < s THEN p[e.ref][e.through] ELSE {}) =
               (IF e.ref < s THEN q[e.ref][e.through] ELSE {})
  BY <1>2, <1>3
<1>4. ASSUME NEW n \in 0..Len(disk[s])
      PROVE  UNION {{<<e.ref, c>> : c \in e.calls} \cup
                      (IF e.ref < s THEN p[e.ref][e.through] ELSE {}) :
                    e \in SnapshotsIn(SubSeq(disk[s], 1, n))} =
             UNION {{<<e.ref, c>> : c \in e.calls} \cup
                      (IF e.ref < s THEN q[e.ref][e.through] ELSE {}) :
                    e \in SnapshotsIn(SubSeq(disk[s], 1, n))}
  BY <1>3
<1> QED
  BY <1>4 DEF PartsOf

\* Session by session, the parts can be built up: the recursion has a solution.
LEMMA PartsExist ==
  ASSUME TypeInv, SnapshotInv
  PROVE  \E parts : parts = [s \in DOMAIN disk |-> PartsOf(disk, parts, s)]
<1> DEFINE Built(n) ==
             \E p : DOMAIN p = Session /\ p = [s \in Session |-> p[s]]
                    /\ \A s \in Session : s <= n => p[s] = PartsOf(disk, p, s)
           upTo == {n \in 0..MaxSessions : Built(n)}
<1>1. DOMAIN disk = Session /\ MaxSessions \in Nat
  BY BoundsAssumption DEF TypeInv, TypeOK
<1>2. Built(0)
  <2> DEFINE p == [s \in Session |-> 0]
  <2>1. DOMAIN p = Session /\ p = [s \in Session |-> p[s]]
    OBVIOUS
  <2>2. \A s \in Session : ~(s <= 0)
    BY DEF Session
  <2> HIDE DEF p
  <2> QED
    BY <2>1, <2>2
<1>3. ASSUME NEW n \in 0..MaxSessions, n # MaxSessions, Built(n)
      PROVE  Built(n + 1)
  <2>1. PICK p : /\ DOMAIN p = Session /\ p = [s \in Session |-> p[s]]
                 /\ \A s \in Session : s <= n => p[s] = PartsOf(disk, p, s)
    BY <1>3
  <2> DEFINE q == [s \in Session |-> IF s = n + 1 THEN PartsOf(disk, p, s) ELSE p[s]]
  <2>2. /\ DOMAIN q = Session /\ q = [s \in Session |-> q[s]]
        /\ \A s \in Session : s # n + 1 => q[s] = p[s]
        /\ \A s \in Session : s = n + 1 => q[s] = PartsOf(disk, p, s)
    OBVIOUS
  <2> HIDE DEF q
  <2>3. ASSUME NEW s \in Session, s <= n + 1 PROVE q[s] = PartsOf(disk, q, s)
    <3>1. \A r \in Session : r < s => p[r] = q[r]
      BY <1>1, <2>2, <2>3 DEF Session
    <3>2. PartsOf(disk, p, s) = PartsOf(disk, q, s)
      BY <3>1, PartsAgree
    <3>3. q[s] = PartsOf(disk, p, s)
      BY <1>1, <2>1, <2>2, <2>3 DEF Session
    <3> QED
      BY <3>2, <3>3
  <2> QED
    BY <2>2, <2>3
<1>4. /\ upTo \subseteq 0..MaxSessions /\ 0 \in upTo
      /\ \A n \in upTo : n # MaxSessions => n + 1 \in upTo
  <2> HIDE DEF Built
  <2>1. upTo \subseteq 0..MaxSessions /\ 0 \in upTo
    BY <1>1, <1>2
  <2>2. ASSUME NEW n \in upTo, n # MaxSessions PROVE n + 1 \in upTo
    <3>1. n + 1 \in 0..MaxSessions /\ n \in 0..MaxSessions /\ Built(n)
      BY <1>1, <2>2
    <3> QED
      BY <1>3, <2>2, <3>1
  <2> QED
    BY <2>1, <2>2
<1> HIDE DEF upTo
<1>5. PICK m \in upTo : \A n \in upTo : m >= n
  BY <1>1, <1>4, MaxIsElement
<1>6. MaxSessions \in upTo
  <2>1. m \in 0..MaxSessions /\ ~(m >= m + 1)
    BY <1>1, <1>4
  <2>2. ~(m + 1 \in upTo)
    BY <1>5, <2>1
  <2> QED
    BY <1>4, <2>2
<1>7. PICK p : /\ DOMAIN p = Session /\ p = [s \in Session |-> p[s]]
               /\ \A s \in Session : s <= MaxSessions => p[s] = PartsOf(disk, p, s)
  BY <1>6 DEF upTo
<1>8. \A s \in Session : p[s] = PartsOf(disk, p, s)
  BY <1>1, <1>7 DEF Session
<1>9. p = [s \in Session |-> PartsOf(disk, p, s)]
  BY <1>7, <1>8
<1> QED
  BY <1>1, <1>9

\* What a snapshot of a session lists is among the parts of that session.
LEMMA PartsTell ==
  ASSUME TypeInv, SnapshotInv, NEW r \in Session, NEW e \in SnapshotsIn(disk[r]),
         NEW c \in e.calls
  PROVE  <<e.ref, c>> \in RecoveryParts(disk, r)
<1> DEFINE log == disk[r]
<1>1. log \in Seq(Event) /\ Len(log) \in 0..Len(log) /\ DOMAIN disk = Session
  BY DEF TypeInv, TypeOK
<1>2. PICK parts : /\ parts = [s \in DOMAIN disk |-> PartsOf(disk, parts, s)]
                   /\ RecoveryParts(disk, r) = parts[r][Len(log)]
  BY PartsExist, PartsAre
<1>3. RecoveryParts(disk, r) = PartsOf(disk, parts, r)[Len(log)]
  BY <1>1, <1>2
<1>4. SubSeq(log, 1, Len(log)) = log
  BY <1>1
<1>5. RecoveryParts(disk, r) =
        UNION {{<<x.ref, d>> : d \in x.calls} \cup
                 (IF x.ref < r THEN parts[x.ref][x.through] ELSE {}) :
               x \in SnapshotsIn(SubSeq(log, 1, Len(log)))}
  BY <1>1, <1>3 DEF PartsOf
<1>6. e \in SnapshotsIn(SubSeq(log, 1, Len(log)))
  BY <1>4
<1>7. <<e.ref, c>> \in {<<e.ref, d>> : d \in e.calls} \cup
                         (IF e.ref < r THEN parts[e.ref][e.through] ELSE {})
  OBVIOUS
<1> QED
  BY <1>5, <1>6, <1>7

\* With a provider that does not repeat ids, a recovery session tells its model of
\* every operation its parent has left unknown, however many appends of the parent
\* land after the snapshot was taken, until a later turn there ends safely.
THEOREM RecoveryTells ==
  ASSUME ReusesIds = FALSE
  PROVE  Spec => []RecoveryTellsUnknown
<1>1. Init => EffectInv /\ RecoveryInv
  BY EffectInit, RecoveryInit
<1>2. /\ TypeInv /\ JournalInv /\ StartInv /\ EffectInv /\ EndInv /\ RecoveryInv
      /\ [Next]_vars
      => (EffectInv /\ RecoveryInv)'
  BY EffectStep, UnknownStep, CalmStep, SnapshotStep DEF RecoveryInv
<1>3. TypeInv /\ RecoveryInv => RecoveryTellsUnknown
  <2> SUFFICES ASSUME TypeInv, RecoveryInv, NEW r \in Session, NEW e \in SnapshotsIn(disk[r]),
                      Standing(e), NEW c \in Uncertain(disk[e.ref])
               PROVE  <<e.ref, c>> \in RecoveryParts(disk, r)
    BY DEF RecoveryTellsUnknown, Standing
  <2>1. SnapshotInv /\ c \in e.calls
    BY DEF RecoveryInv, SnapshotInv, Told
  <2> QED
    BY <2>1, PartsTell
<1> QED
  BY <1>1, <1>2, <1>3, EndInvariant, StartInvariant, PTL DEF Spec

===============================================================================
