---------------------------- MODULE TurnExecution ----------------------------
(***************************************************************************)
(* One jdagent process driving turns over durable session logs: the turn   *)
(* coordinator, the native agent loop, the tool runtime, the event journal *)
(* and the recovery of a session.                                          *)
(*                                                                         *)
(* pc is the await point the running operation has reached.  At a point of *)
(* RecordPoints the operation is inside journal.record(PendingEvent): it   *)
(* goes on (RecordStep), finds that the file is ahead of its journal       *)
(* (RecordConflict) or has its task cancelled (CancelRecord).  A cancelled *)
(* append is not stopped: its thread may still write the line later.       *)
(*                                                                         *)
(* The order of the calls of one response is left open; a failing disk and *)
(* a torn last line are left to physical recovery; compaction and context  *)
(* window events are left to the context service.                          *)
(***************************************************************************)
EXTENDS SessionLog

CONSTANTS MaxSessions,    \* bound: sessions ever created
          MaxTurns,       \* bound: turns ever started
          MaxOrphans,     \* bound: cancelled appends still in a thread
          MaxFaults,      \* bound: cancellations and crashes
          MaxModelCalls, MaxToolCalls, MaxFailureRecoveries,  \* LoopLimits
          ReusesIds       \* may the provider repeat a call id it already used?

ASSUME BoundsAssumption ==
  /\ MaxSessions \in Nat \ {0}
  /\ MaxTurns \in Nat
  /\ MaxOrphans \in Nat
  /\ MaxFaults \in Nat
  /\ MaxModelCalls \in Nat \ {0}
  /\ MaxToolCalls \in Nat \ {0}
  /\ MaxFailureRecoveries \in Nat
  /\ ReusesIds \in BOOLEAN

Session == 1..MaxSessions

VARIABLES
  disk,      \* the event log of each session, as fsynced
  orphans,   \* appends whose awaiting task was cancelled
  cur,       \* the session of this process, 0 for none
  pc,        \* where the running operation is; "idle", or "down" with no process
  mem,       \* EventJournal._events of the running operation
  run,       \* locals of the running operation
  snapshot,  \* the snapshot a recovery is about to publish
  turns,     \* turns started so far
  faults,    \* cancellations and crashes so far
  happened   \* how often the handler of a call has acted on the world

vars == <<disk, orphans, cur, pc, mem, run, snapshot, turns, faults, happened>>

-------------------------------------------------------------------------------
(* The locals of TurnCoordinator.send, AgentLoop.run and ToolRuntime.execute. *)

Verdict == {"allow", "deny", "replan", "refuse"}

Run == [turn : Nat, batch : SUBSET Call, seen : SUBSET Call, executed : SUBSET Call,
        call : SUBSET Call, verdict : Verdict, effect : Effect,
        previous : Session \cup {0}, stop : BOOLEAN, failed : BOOLEAN, retried : BOOLEAN, repairing : BOOLEAN,
        modelCalls : Nat, toolCalls : Nat, failures : Nat]

NoRun == [turn |-> NoTurn, batch |-> {}, seen |-> {}, executed |-> {},
          call |-> {}, verdict |-> "refuse", effect |-> "none",
          previous |-> 0, stop |-> FALSE, failed |-> FALSE, retried |-> FALSE, repairing |-> FALSE,
          modelCalls |-> 0, toolCalls |-> 0, failures |-> 0]

NoSnapshot == NewEvent("recovery_snapshot", NoTurn, {}, "none")

-------------------------------------------------------------------------------
(* Await points.                                                           *)

RecordPoints ==
  {"rec_session", "rec_user", "rec_rejected", "rec_resolved", "rec_retrieval",
   "rec_request", "rec_usage", "rec_assistant", "rec_turn_completed",
   "rec_requested", "rec_permission", "rec_started", "rec_completed",
   "rec_replan_closed", "rec_closed", "rec_turn_failed",
   "rec_stream_closed", "rec_stream_failed",
   "rec_resume_closed", "rec_resume_failed", "rec_recovery_session", "rec_snapshot"}

OtherPoints ==
  {"idle", "down", "accepted", "retrieved", "top", "stream", "streamed",
   "next_call", "checks", "handler", "acted", "result", "resume_read"}

Point == RecordPoints \cup OtherPoints

\* Where AgentLoop.run turns an exception of the model stream into a failed turn,
\* also one that meets the record of a failure which the stream reported.
InStream == {"stream", "streamed", "rec_usage", "rec_stream_closed", "rec_stream_failed"}

\* Where AgentLoop.run turns the cancellation of execute into a failed turn.
InExecute == {"checks", "rec_permission", "rec_started"}

\* Resuming runs under complete_before_cancel.
InResume == {"resume_read", "rec_resume_closed", "rec_resume_failed", "rec_recovery_session", "rec_snapshot"}

NextPending == CHOOSE c \in PendingCalls(mem, run.turn) : TRUE

ClosingPoint(log, turn, closing, closed) ==
  IF PendingCalls(log, turn) # {} THEN closing ELSE closed

\* The event being recorded at a point of RecordPoints.
PendingEvent ==
  LET Turn(type)        == NewEvent(type, run.turn, {}, "none")
      Calls(type)       == NewEvent(type, run.turn, run.call, "none")
      Closing           == NewEvent("execution_completed", run.turn, {NextPending},
                                    ClosingEffect(mem, run.turn, NextPending))
      ResolvedOperation == [Calls("side_effect_resolved") EXCEPT !.ref = snapshot.ref]
  IN  CASE pc \in {"rec_session", "rec_recovery_session"} ->
             NewEvent("session_started", NoTurn, {}, "none")
        [] pc = "rec_user"       -> Turn("user_message")
        [] pc = "rec_resolved"   -> ResolvedOperation
        [] pc = "rec_retrieval"  -> Turn("retrieval_recorded")
        [] pc = "rec_request"    -> Turn("request_prepared")
        [] pc = "rec_usage"      -> Turn("usage_recorded")
        [] pc = "rec_assistant"  -> NewEvent("assistant_message", run.turn, run.batch, "none")
        [] pc = "rec_turn_completed" -> Turn("turn_completed")
        [] pc = "rec_requested"  -> Calls("call_requested")
        [] pc = "rec_permission" -> Calls("permission_resolved")
        [] pc = "rec_started"    -> Calls("execution_started")
        [] pc = "rec_completed"  -> NewEvent("execution_completed", run.turn, run.call, run.effect)
        [] pc \in {"rec_replan_closed", "rec_closed", "rec_stream_closed", "rec_resume_closed"} ->
             Closing
        [] pc = "rec_resume_failed" -> Turn("turn_interrupted")
        [] pc = "rec_snapshot"   -> snapshot
        [] OTHER                 -> Turn("turn_failed")

HandlerUnannounced == IF run.verdict = "allow" THEN "handler" ELSE "result"

AfterPermission == IF run.verdict = "allow" THEN "rec_started" ELSE "result"

\* Where the operation goes once that event is in its journal (log).
AfterRecord(log) ==
  CASE pc = "rec_session"    -> "rec_user"
    [] pc = "rec_user"       -> "accepted"
    [] pc = "rec_resolved"   -> "rec_retrieval"
    [] pc = "rec_retrieval"  -> "retrieved"
    [] pc = "rec_request"    -> "stream"
    [] pc = "rec_usage"      -> "streamed"
    [] pc = "rec_assistant"  -> IF run.batch = {} THEN "rec_turn_completed" ELSE "next_call"
    [] pc = "rec_requested"  -> "checks"
    [] pc = "rec_permission" -> AfterPermission
    [] pc = "rec_started"    -> "handler"
    [] pc = "rec_completed"  ->
         CASE run.verdict = "replan" -> ClosingPoint(log, run.turn, "rec_replan_closed", "top")
           [] run.stop \/ run.failures > MaxFailureRecoveries ->
                ClosingPoint(log, run.turn, "rec_closed", "rec_turn_failed")
           [] OTHER -> "next_call"
    [] pc = "rec_replan_closed" -> ClosingPoint(log, run.turn, "rec_replan_closed", "top")
    [] pc = "rec_closed"     -> ClosingPoint(log, run.turn, "rec_closed", "rec_turn_failed")
    [] pc = "rec_stream_closed" ->
         ClosingPoint(log, run.turn, "rec_stream_closed", "rec_stream_failed")
    [] pc = "rec_resume_closed" ->
         ClosingPoint(log, run.turn, "rec_resume_closed", "rec_resume_failed")
    [] pc = "rec_recovery_session" -> "rec_snapshot"
    [] OTHER                 -> "idle"

-------------------------------------------------------------------------------
(* Ways an operation ends.                                                 *)

End == pc' = "idle" /\ mem' = <<>> /\ run' = NoRun /\ snapshot' = NoSnapshot

FailUnpaired == pc' = "rec_turn_failed" /\ UNCHANGED <<mem, run, snapshot>>

\* _fail and _record_failure: answer the open calls, then record turn_failed.
Fail ==
  /\ pc' = ClosingPoint(mem, run.turn, "rec_closed", "rec_turn_failed")
  /\ UNCHANGED <<mem, run, snapshot>>

\* The same inside the try of the stream.
FailInStream ==
  /\ pc' = ClosingPoint(mem, run.turn, "rec_stream_closed", "rec_stream_failed")
  /\ UNCHANGED <<mem, run, snapshot>>

Init ==
  /\ disk = [s \in Session |-> <<>>]
  /\ orphans = {}
  /\ cur = 0
  /\ pc = "idle"
  /\ mem = <<>>
  /\ run = NoRun
  /\ snapshot = NoSnapshot
  /\ turns = 0
  /\ faults = 0
  /\ happened = [s \in Session |-> [c \in Call |-> 0]]

Fault == faults < MaxFaults /\ faults' = faults + 1

-------------------------------------------------------------------------------
(* The event journal and the append thread below it.                       *)

AnyPosition == TRUE

\* JsonlSession refuses an event whose sequence is not the next of the file.
NextInFile == Len(mem) = Len(disk[cur])

RecordStep ==
  /\ pc \in RecordPoints
  /\ NextInFile
  /\ disk' = [disk EXCEPT ![cur] = Append(@, PendingEvent)]
  /\ LET log  == Append(mem, PendingEvent)
         next == AfterRecord(log)
     IN  IF next = "idle"
           THEN End
           ELSE pc' = next /\ mem' = log /\ UNCHANGED <<run, snapshot>>
  /\ UNCHANGED <<orphans, cur, turns, faults, happened>>

RetryAppend ==
  /\ pc \in RecordPoints
  /\ ~NextInFile
  /\ UNCHANGED vars

\* APPEND_FAILED: caught by the model stream's "except Exception", else the
\* operation is over and its turn stays open.  A failed /resume leaves the
\* session the user was in.
RecordConflict ==
  /\ pc \in RecordPoints
  /\ ~NextInFile
  /\ IF pc \in InStream THEN Fail ELSE End
  /\ cur' = IF pc \in InResume THEN run.previous ELSE cur
  /\ UNCHANGED <<disk, orphans, turns, faults, happened>>

\* The append's thread had already taken up the work, or never will.
CancelRecord(threadRuns) ==
  /\ pc \in RecordPoints \ InResume
  /\ threadRuns => Cardinality(orphans) < MaxOrphans
  /\ orphans' = orphans \cup
       {[session |-> cur, sequence |-> Len(mem) + 1, event |-> PendingEvent] :
          i \in IF threadRuns THEN {1} ELSE {}}
  /\ IF pc \in InStream \cup InExecute THEN Fail ELSE End
  /\ Fault
  /\ UNCHANGED <<disk, cur, turns, happened>>

LandsAnywhere(o) ==
  /\ disk' = [disk EXCEPT ![o.session] = Append(@, o.event)]
  /\ orphans' = orphans \ {o}
  /\ UNCHANGED <<cur, pc, mem, run, snapshot, turns, faults, happened>>

\* The thread of a cancelled append runs after all, under the same sequence check.
OrphanLands(o) ==
  /\ o.sequence = Len(disk[o.session]) + 1
  /\ disk' = [disk EXCEPT ![o.session] = Append(@, o.event)]
  /\ orphans' = orphans \ {o}
  /\ UNCHANGED <<cur, pc, mem, run, snapshot, turns, faults, happened>>

\* Its sequence is refused, and nobody sees the error.
OrphanDies(o) ==
  /\ o.sequence # Len(disk[o.session]) + 1
  /\ orphans' = orphans \ {o}
  /\ UNCHANGED <<disk, cur, pc, mem, run, snapshot, turns, faults, happened>>

-------------------------------------------------------------------------------
(* TurnCoordinator.send.                                                   *)

\* A new session takes the next number that is not in use.
Used(s) == disk[s] # <<>> \/ \E o \in orphans : o.session = s

Fresh(s) == ~Used(s) /\ \A r \in Session : r < s => Used(r)

NewSession ==
  /\ pc = "idle"
  /\ \E s \in Session : Fresh(s) /\ cur # s /\ cur' = s
  /\ UNCHANGED <<disk, orphans, pc, mem, run, snapshot, turns, faults, happened>>

Send ==
  /\ pc = "idle"
  /\ cur # 0
  /\ turns < MaxTurns
  /\ ~IsUncertain(disk[cur])
  /\ turns' = turns + 1
  /\ mem' = disk[cur]
  /\ run' = [NoRun EXCEPT !.turn = turns + 1]
  /\ pc' = IF disk[cur] = <<>> THEN "rec_session" ELSE "rec_user"
  /\ UNCHANGED <<disk, orphans, cur, snapshot, faults, happened>>

\* A resolution, constraint or memory intent that does not hold, or the token
\* cancelled before the loop: turn_failed, with no call to answer.
RejectInput ==
  /\ pc \in {"accepted", "retrieved"}
  /\ pc' = "rec_rejected"
  /\ UNCHANGED <<disk, orphans, cur, mem, run, snapshot, turns, faults, happened>>

\* The user states the outcome of an operation a snapshot of this session lists.
ResolveOperation ==
  /\ pc = "accepted"
  /\ \E e \in SnapshotsIn(mem) : \E c \in e.calls :
       /\ run' = [run EXCEPT !.call = {c}]
       /\ snapshot' = e
  /\ pc' = "rec_resolved"
  /\ UNCHANGED <<disk, orphans, cur, mem, turns, faults, happened>>

PrepareKnowledge ==
  /\ pc = "accepted"
  /\ pc' = "rec_retrieval"
  /\ UNCHANGED <<disk, orphans, cur, mem, run, snapshot, turns, faults, happened>>

EnterLoop ==
  /\ pc = "retrieved"
  /\ pc' = "top"
  /\ run' = [run EXCEPT !.seen = Declared(mem), !.call = {}]
  /\ snapshot' = NoSnapshot
  /\ UNCHANGED <<disk, orphans, cur, mem, turns, faults, happened>>

-------------------------------------------------------------------------------
(* AgentLoop.run: context, model stream, citation repair.                  *)

\* The token is cancelled, the model call limit is reached, or the context
\* cannot be built within its limits.
StopAtTop ==
  /\ pc = "top"
  /\ Fail
  /\ UNCHANGED <<disk, orphans, cur, turns, faults, happened>>

\* prepare_request archives the request and records it before the model is called.
PrepareRequest ==
  /\ pc = "top"
  /\ run.modelCalls < MaxModelCalls
  /\ pc' = "rec_request"
  /\ run' = [run EXCEPT !.modelCalls = @ + 1]
  /\ UNCHANGED <<disk, orphans, cur, mem, snapshot, turns, faults, happened>>

ReportUsage ==
  /\ pc = "stream"
  /\ pc' = "rec_usage"
  /\ UNCHANGED <<disk, orphans, cur, mem, run, snapshot, turns, faults, happened>>

\* Provider or protocol error, timeout, length or other finish reason, citations
\* still invalid after repair; or the task is cancelled in the stream.
StreamFails ==
  /\ pc \in {"stream", "streamed"}
  /\ Fail \/ FailInStream
  /\ UNCHANGED <<disk, orphans, cur, turns, faults, happened>>

\* A context-length rejection before any output is retried once.
RetryContext ==
  /\ pc \in {"stream", "streamed"}
  /\ ~run.retried /\ ~run.repairing
  /\ pc' = "top"
  /\ run' = [run EXCEPT !.retried = TRUE]
  /\ UNCHANGED <<disk, orphans, cur, mem, snapshot, turns, faults, happened>>

\* One more model call, without tools, for an answer with illegal citations.
RepairCitations ==
  /\ pc \in {"stream", "streamed"}
  /\ ~run.repairing
  /\ pc' = "top"
  /\ run' = [run EXCEPT !.repairing = TRUE]
  /\ UNCHANGED <<disk, orphans, cur, mem, snapshot, turns, faults, happened>>

Answer ==
  /\ pc \in {"stream", "streamed"}
  /\ pc' = "rec_assistant"
  /\ run' = [run EXCEPT !.batch = {}]
  /\ UNCHANGED <<disk, orphans, cur, mem, snapshot, turns, faults, happened>>

RequestTools(calls) ==
  /\ pc \in {"stream", "streamed"}
  /\ ~run.repairing
  /\ calls \cap run.seen = {}
  /\ ReusesIds \/ calls \cap Declared(mem) = {}
  /\ pc' = "rec_assistant"
  /\ run' = [run EXCEPT !.batch = calls]
  /\ UNCHANGED <<disk, orphans, cur, mem, snapshot, turns, faults, happened>>

-------------------------------------------------------------------------------
(* The tool batch and ToolRuntime.execute.                                 *)

BatchDone ==
  /\ pc = "next_call"
  /\ run.batch = {}
  /\ pc' = "top"
  /\ run' = [run EXCEPT !.call = {}, !.verdict = "refuse", !.effect = "none"]
  /\ UNCHANGED <<disk, orphans, cur, mem, snapshot, turns, faults, happened>>

\* The token is cancelled or the tool call limit is reached.
StopBatch ==
  /\ pc = "next_call"
  /\ run.batch # {}
  /\ Fail
  /\ UNCHANGED <<disk, orphans, cur, turns, faults, happened>>

NextCall(c) ==
  /\ pc = "next_call"
  /\ c \in run.batch
  /\ run.toolCalls < MaxToolCalls
  /\ pc' = "rec_requested"
  /\ run' = [run EXCEPT !.call = {c}, !.batch = @ \ {c}, !.seen = @ \cup {c},
                        !.verdict = "refuse", !.effect = "none",
                        !.stop = FALSE, !.failed = FALSE]
  /\ UNCHANGED <<disk, orphans, cur, mem, snapshot, turns, faults, happened>>

\* Duplicate identity, unknown or unavailable tool, bad arguments, path,
\* conflict, an identical rejected invocation, an invalid rule from approval.
RefuseCall ==
  /\ pc = "checks"
  /\ pc' = "result"
  /\ run' = [run EXCEPT !.verdict = "refuse"]
  /\ UNCHANGED <<disk, orphans, cur, mem, snapshot, turns, faults, happened>>

\* INSTRUCTIONS_DISCOVERED: a write or command under newly found directory rules.
ReplanCall ==
  /\ pc = "checks"
  /\ run.call \subseteq Risky
  /\ pc' = "result"
  /\ run' = [run EXCEPT !.verdict = "replan"]
  /\ UNCHANGED <<disk, orphans, cur, mem, snapshot, turns, faults, happened>>

\* The policy or the user decides.  The three permission records are one here;
\* ToolPermissions takes them apart.
Decide(verdict) ==
  /\ pc = "checks"
  /\ run.call \cap run.executed = {}
  /\ pc' = "rec_permission"
  /\ run' = [run EXCEPT !.verdict = verdict,
                        !.executed = IF verdict = "allow" THEN @ \cup run.call ELSE @]
  /\ UNCHANGED <<disk, orphans, cur, mem, snapshot, turns, faults, happened>>

\* The handler's effect on files or processes.
HandlerActs ==
  /\ pc = "handler"
  /\ run.call \subseteq Risky
  /\ pc' = "acted"
  /\ happened' = [happened EXCEPT ![cur] = [c \in Call |->
                    IF c \in run.call THEN @[c] + 1 ELSE @[c]]]
  /\ UNCHANGED <<disk, orphans, cur, mem, run, snapshot, turns, faults>>

\* The handler returns and says what it did; stop is requires_stop or a
\* cancellation whose settled handler still gave its output.
HandlerReturns(stop, failed) ==
  /\ pc \in {"handler", "acted"}
  /\ pc' = "result"
  /\ run' = [run EXCEPT !.effect = IF pc = "acted" THEN "applied" ELSE "none",
                        !.stop = stop, !.failed = failed]
  /\ UNCHANGED <<disk, orphans, cur, mem, snapshot, turns, faults, happened>>

LostMeansNone(stop) ==
  /\ pc \in {"handler", "acted"}
  /\ run.call \subseteq Risky => stop
  /\ pc' = "result"
  /\ run' = [run EXCEPT !.effect = "none", !.stop = stop]
  /\ UNCHANGED <<disk, orphans, cur, mem, snapshot, turns, faults, happened>>

RetriedOnTimeout(stop) ==
  /\ pc \in {"handler", "acted"}
  /\ pc' = "handler"
  /\ UNCHANGED <<disk, orphans, cur, mem, run, snapshot, turns, faults, happened>>

\* Timeout, exception, or a cancelled handler that settled without output.
HandlerLost(stop) ==
  /\ pc \in {"handler", "acted"}
  /\ run.call \subseteq Risky => stop
  /\ pc' = "result"
  /\ run' = [run EXCEPT !.effect = IF run.call \subseteq Risky THEN "unknown" ELSE "none",
                        !.stop = stop]
  /\ UNCHANGED <<disk, orphans, cur, mem, snapshot, turns, faults, happened>>

\* tool_calls += 1 (and the rest of a batch to be replanned), failures counted.
ReportResult ==
  /\ pc = "result"
  /\ pc' = "rec_completed"
  /\ run' = [run EXCEPT
       !.toolCalls = @ + 1 + (IF run.verdict = "replan" THEN Cardinality(run.batch) ELSE 0),
       !.batch     = IF run.verdict = "replan" THEN {} ELSE @,
       !.failures  = IF run.failed THEN @ + 1 ELSE @]
  /\ UNCHANGED <<disk, orphans, cur, mem, snapshot, turns, faults, happened>>

-------------------------------------------------------------------------------
(* Cancellation between records, and crashes.                              *)

CancelReleases ==
  /\ pc \in {"accepted", "top", "checks"}
  /\ IF pc \in InExecute THEN Fail ELSE End
  /\ cur' = 0
  /\ Fault
  /\ UNCHANGED <<disk, orphans, turns, happened>>

\* Ctrl+C at an await that is not a record: execute turns it into a failed
\* turn, the coordinator and the context builder let it through.
CancelTask ==
  /\ pc \in {"accepted", "top", "checks"}
  /\ IF pc \in InExecute THEN Fail ELSE End
  /\ Fault
  /\ UNCHANGED <<disk, orphans, cur, turns, happened>>

Crash ==
  /\ pc # "down"
  /\ pc' = "down"
  /\ cur' = 0
  /\ mem' = <<>>
  /\ run' = NoRun
  /\ snapshot' = NoSnapshot
  /\ orphans' = {}
  /\ Fault
  /\ UNCHANGED <<disk, turns, happened>>

-------------------------------------------------------------------------------
(* prepare_session_resume, at start-up or by /resume.                      *)

Restart ==
  /\ pc = "down"
  /\ pc' = "idle"
  /\ UNCHANGED <<disk, orphans, cur, mem, run, snapshot, turns, faults, happened>>

ResumeClean(s) ==
  /\ pc = "idle"
  /\ cur # s
  /\ disk[s] # <<>>
  /\ ClassifyLogicalRecovery(disk[s]) = "clean"
  /\ cur' = s
  /\ UNCHANGED <<disk, orphans, pc, mem, run, snapshot, turns, faults, happened>>

\* recover() and close_interrupted_turn, which accepts exactly one open turn: the
\* turn to be closed is taken from what was read.
ResumeInterrupted(s) ==
  /\ pc = "idle"
  /\ ClassifyLogicalRecovery(disk[s]) = "interrupted_safe"
  /\ \E t \in OpenTurns(disk[s]) :
       /\ OpenTurns(disk[s]) = {t}
       /\ run' = [NoRun EXCEPT !.turn = t, !.previous = cur]
  /\ pc' = "resume_read"
  /\ cur' = s
  /\ mem' = disk[s]
  /\ UNCHANGED <<disk, orphans, snapshot, turns, faults, happened>>

\* The journal is opened on what the file holds by now.
ResumeReopens ==
  /\ pc = "resume_read"
  /\ mem' = disk[cur]
  /\ pc' = ClosingPoint(disk[cur], run.turn, "rec_resume_closed", "rec_resume_failed")
  /\ UNCHANGED <<disk, orphans, cur, run, snapshot, turns, faults, happened>>

\* create_recovery_session: a new session that only refers to its parent.
ResumeUncertain(s) ==
  /\ pc = "idle"
  /\ IsUncertain(disk[s])
  /\ \E r \in Session : Fresh(r) /\ cur' = r
  /\ snapshot' = RecoverySnapshot(s, disk[s])
  /\ run' = [NoRun EXCEPT !.previous = cur]
  /\ pc' = "rec_recovery_session"
  /\ UNCHANGED <<disk, orphans, mem, turns, faults, happened>>

-------------------------------------------------------------------------------

Journal ==
  \/ RecordStep
  \/ RecordConflict
  \/ \E threadRuns \in BOOLEAN : CancelRecord(threadRuns)
  \/ \E o \in orphans : OrphanLands(o) \/ OrphanDies(o)

Coordinator ==
  \/ NewSession
  \/ Send
  \/ RejectInput
  \/ ResolveOperation
  \/ PrepareKnowledge
  \/ EnterLoop

Loop ==
  \/ StopAtTop
  \/ PrepareRequest
  \/ ReportUsage
  \/ StreamFails
  \/ RetryContext
  \/ RepairCitations
  \/ Answer
  \/ \E calls \in SUBSET Call \ {{}} : RequestTools(calls)

Tools ==
  \/ BatchDone
  \/ StopBatch
  \/ \E c \in Call : NextCall(c)
  \/ RefuseCall
  \/ ReplanCall
  \/ \E verdict \in {"allow", "deny"} : Decide(verdict)
  \/ HandlerActs
  \/ \E stop, failed \in BOOLEAN : HandlerReturns(stop, failed)
  \/ \E stop \in BOOLEAN : HandlerLost(stop)
  \/ ReportResult

Recovery ==
  \/ CancelTask
  \/ Crash
  \/ Restart
  \/ \E s \in Session : ResumeClean(s) \/ ResumeInterrupted(s) \/ ResumeUncertain(s)
  \/ ResumeReopens

Next == Journal \/ Coordinator \/ Loop \/ Tools \/ Recovery

Spec == Init /\ [][Next]_vars

\* The steps of a running operation are taken: the model stream and the tools
\* have timeouts, and an approval is answered.  Cancellations, crashes, restarts
\* and resumes are up to the user.
FairSpec == Spec /\ WF_vars(Journal \/ Coordinator \/ Loop \/ Tools \/ ResumeReopens)

-------------------------------------------------------------------------------
(* Properties.                                                             *)

\* Every variable keeps its type.
TypeOK ==
  /\ disk \in [Session -> Seq(Event)]
  /\ orphans \subseteq [session : Session, sequence : Nat, event : Event]
  /\ cur \in Session \cup {0}
  /\ pc \in Point
  /\ pc \notin {"idle", "down"} => cur \in Session
  /\ mem \in Seq(Event)
  /\ run \in Run
  /\ snapshot \in Event
  /\ turns \in Nat
  /\ faults \in Nat
  /\ happened \in [Session -> [Call -> Nat]]

\* A handler acts only after its execution_started is durable, whatever append
\* was cancelled before (ToolRuntime.execute records, then starts the handler).
WriteAhead ==
  \A s \in Session, c \in Call : happened[s][c] > 0 => c \in Started(disk[s])

\* No call acts twice, over cancellations, restarts and resumes.
AtMostOnce == \A s \in Session, c \in Call : happened[s][c] <= 1

\* An effect that happened is on record as applied or keeps its session
\* uncertain; it is never reported as not executed.
EffectAccounted ==
  \A s \in Session, c \in Call :
    happened[s][c] > 0 => c \in Uncertain(disk[s]) \/ LastResult(disk[s], c, "applied")

\* The journal in memory is a prefix of the file, and the file is ahead by at
\* most the one append whose cancellation the journal did not survive.
JournalPrefix ==
  pc \notin {"idle", "down"} =>
    /\ Len(mem) <= Len(disk[cur])
    /\ Len(disk[cur]) <= Len(mem) + 1
    /\ mem = SubSeq(disk[cur], 1, Len(mem))

\* A turn ends once and nothing of it follows its end, but for one second end
\* directly after it: that of a resume which had read the log before the end of the
\* cancelled turn landed (close_interrupted_turn opens the journal after recover()).
\* v0.6-langchain-langgraph.md:241 excepts nothing; TLC finds that second end.
TurnEndsOnce ==
  \A s \in Session : \A i \in TerminalIndexes(disk[s]) : \A j \in (i + 1)..Len(disk[s]) :
    disk[s][j].turn = disk[s][i].turn =>
      /\ j = i + 1 /\ disk[s][j].type = "turn_interrupted"
      /\ disk[s][i].type # "turn_interrupted"

\* When a turn has ended, each call it declared has exactly one result, so the
\* messages built from it are paired.
EndedTurnIsPaired ==
  \A s \in Session : \A i \in DOMAIN disk[s] :
    disk[s][i].type \in TerminalType =>
      \A c \in DeclaredIn(disk[s], disk[s][i].turn) :
        Cardinality({j \in DOMAIN disk[s] : IsResultOf(disk[s][j], c)}) = 1

\* A recovery session tells its model of every operation that the session it was
\* created from has left unknown, until a later turn of that session has ended
\* safely: a late append can settle its operation, and the user may go on there.
RecoveryTellsUnknown ==
  \A r \in Session : \A e \in SnapshotsIn(disk[r]) :
    SafeIndex(disk[e.ref]) = e.through =>
      \A c \in Uncertain(disk[e.ref]) : <<e.ref, c>> \in RecoveryParts(disk, r)

\* Every operation comes to an end: a turn runs into its limits, a failing append
\* is not retried, and closing a batch ends.
OperationEnds == pc \notin {"idle", "down"} ~> pc \in {"idle", "down"}

===============================================================================
