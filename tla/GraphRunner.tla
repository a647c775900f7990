----------------------------- MODULE GraphRunner ------------------------------
(***************************************************************************)
(* One turn driven by the LangGraph engine: the nodes of _Execution, its   *)
(* routing, the records they make and what happens when the task is        *)
(* cancelled, an append fails or a node raises.  pc names the node that    *)
(* runs; a node that awaits several records has a point for each.          *)
(*                                                                         *)
(* Texts, citations and usage numbers are left out, and the calls of a     *)
(* batch run in any order.  The tool runtime, the context service and the  *)
(* model are outcomes; what they record themselves is modelled in          *)
(* TurnExecution and ContextCompaction.                                    *)
(***************************************************************************)
EXTENDS Integers, Sequences, FiniteSets

CONSTANTS
  Call,         \* tool call ids the model may use
  MaxModels,    \* LoopLimits.max_model_calls
  MaxTools,     \* LoopLimits.max_tool_calls
  MaxFailures,  \* LoopLimits.max_failure_recoveries
  MaxCancels,   \* cancellations of the turn's task
  MaxFaults     \* appends that fail, nodes that raise

ASSUME LimitAssumption ==
  /\ IsFiniteSet(Call)
  /\ MaxModels \in Nat \ {0} /\ MaxTools \in Nat /\ MaxFailures \in Nat

VARIABLES
  pc,         \* the node that runs, or how run() ended
  mem,        \* the turn's events in the journal
  disk,       \* the turn's events in the session file
  orphan,     \* event of a cancelled append whose thread may still run
  state,      \* _TurnState
  steps,      \* nodes the graph has entered
  finishing,  \* _Execution.finishing
  raising,    \* run() raises CancelledError when fail() is done
  token,      \* the CancellationToken is set
  cancels, faults

vars == <<pc, mem, disk, orphan, state, steps, finishing, raising, token, cancels, faults>>

Event(type, calls) == [type |-> type, calls |-> calls]

NoOrphan == [event |-> Event("none", {}), position |-> 0]

CallsOf(log, type) == UNION {log[i].calls : i \in {j \in DOMAIN log : log[j].type = type}}

Declared(log)  == CallsOf(log, "assistant")
Completed(log) == CallsOf(log, "completed")
Pending(log)   == Declared(log) \ Completed(log)
HasEnded(log)  == \E i \in DOMAIN log : log[i].type \in {"turn_completed", "turn_failed"}

FreshState ==
  [models |-> 0, tools |-> 0, failures |-> 0, seen |-> {}, batch |-> {}, calls |-> {},
   repaired |-> FALSE, retried |-> FALSE, outcome |-> "none"]

Init ==
  /\ pc = "prepare"
  /\ mem = <<>> /\ disk = <<>>
  /\ orphan = NoOrphan
  /\ state = FreshState
  /\ steps = 1
  /\ finishing = FALSE
  /\ raising = FALSE
  /\ token = FALSE
  /\ cancels = 0 /\ faults = 0

Fault == faults < MaxFaults /\ faults' = faults + 1

-------------------------------------------------------------------------------
(* Routing, records and the end of run().                                  *)

TightLimit == 4 * MaxModels + MaxTools

\* _step_limit, the recursion limit the graph is compiled with.
StepLimit == 6 * MaxModels + 2 * MaxTools + 10

\* Entering a node costs the graph one step.
GoTo(node) ==
  /\ pc' = node
  /\ steps' = IF node \in {"done", "raised"} THEN steps ELSE steps + 1
  /\ UNCHANGED <<finishing, raising>>

Stay(point) == pc' = point /\ UNCHANGED <<steps, finishing, raising>>

\* fail() begins, as a node or called by run().
Close(cancelled) == pc' = "closing" /\ finishing' = TRUE /\ raising' = cancelled

\* session.append under the sequence check, then the event is in the journal.
Record(event) ==
  /\ Len(mem) = Len(disk)
  /\ disk' = Append(disk, event)
  /\ mem' = Append(mem, event)
  /\ UNCHANGED <<orphan, token, cancels, faults>>

NoRecord == UNCHANGED <<mem, disk, orphan, token, cancels, faults>>

\* The event the running point records, if it records one.
Recorded ==
  CASE pc = "prepared"  -> {Event("prepared", {})}
    [] pc = "usage"     -> {Event("usage", {})}
    [] pc = "persist"   -> {Event("assistant", state.batch)}
    [] pc = "tool"      -> {Event("requested", {c}) : c \in state.batch}
    [] pc = "answer"    -> {Event("completed", state.calls)}
    [] pc \in {"replan", "closing"} /\ Pending(mem) # {} ->
         {Event("completed", {c}) : c \in Pending(mem)}
    [] pc = "closing" /\ Pending(mem) = {} -> {Event("turn_failed", {})}
    [] pc = "complete"  -> {Event("turn_completed", {})}
    [] OTHER -> {}

\* A failed append: nothing is recorded, and run() raises the SessionError.
AppendFails ==
  /\ Recorded # {}
  /\ \/ Len(mem) # Len(disk) /\ UNCHANGED faults
     \/ Len(mem) = Len(disk) /\ Fault
  /\ pc' = "raised"
  /\ UNCHANGED <<mem, disk, orphan, state, steps, finishing, raising, token, cancels>>

-------------------------------------------------------------------------------
(* The nodes.                                                              *)

\* prepare and repair_prepare
Prepare(repair) ==
  /\ pc = IF repair THEN "repair_prepare" ELSE "prepare"
  /\ IF token \/ state.models >= MaxModels
       THEN GoTo("fail")
       ELSE \/ Stay("prepared")
            \/ GoTo("fail")   \* ContextLimitError or CompactionError
  /\ NoRecord
  /\ UNCHANGED state

\* The request is archived before it is used.
RecordPrepared ==
  /\ pc = "prepared"
  /\ Record(Event("prepared", {}))
  /\ state' = [state EXCEPT !.batch = {}, !.outcome = "none"]
  /\ GoTo(IF state.repaired THEN "repair_model" ELSE "model")

\* model and repair_model: _consume
ReportUsage ==
  /\ pc \in {"model", "repair_model"}
  /\ state.outcome = "none"
  /\ state' = [state EXCEPT !.outcome = pc]
  /\ Stay("usage")
  /\ NoRecord

RecordUsage ==
  /\ pc = "usage"
  /\ Record(Event("usage", {}))
  /\ Stay(state.outcome)
  /\ UNCHANGED state

\* A protocol error, a provider error, a timeout or an unusable finish reason.
ModelFails ==
  /\ pc \in {"model", "repair_model"}
  /\ state' = [state EXCEPT !.models = @ + 1]
  /\ GoTo("fail")
  /\ NoRecord

RejectWindow ==
  /\ pc = "model"
  /\ ~state.retried
  /\ state' = [state EXCEPT !.models = @ + 1, !.retried = TRUE]
  /\ GoTo("prepare")
  /\ NoRecord

Respond ==
  /\ pc \in {"model", "repair_model"}
  /\ ~(pc = "repair_model" /\ token)
  /\ \E calls \in IF pc = "model" THEN SUBSET Call ELSE {{}} :
       state' = [state EXCEPT !.models = @ + 1, !.batch = calls]
  /\ GoTo("citations")
  /\ NoRecord

\* A repair whose token is set stops as if its task were cancelled.
StopRepair ==
  /\ pc = "repair_model"
  /\ token
  /\ state' = [state EXCEPT !.models = @ + 1]
  /\ Close(TRUE)
  /\ NoRecord
  /\ UNCHANGED steps

\* Answers without calls have their citations checked.
AcceptCitations ==
  /\ pc = "citations"
  /\ GoTo("persist")
  /\ NoRecord
  /\ UNCHANGED state

RefuseCitations ==
  /\ pc = "citations"
  /\ state.batch = {}
  /\ state' = [state EXCEPT !.repaired = TRUE]
  /\ GoTo(IF state.repaired THEN "fail" ELSE "repair_prepare")
  /\ NoRecord

RefuseReusedId ==
  /\ pc = "persist"
  /\ state.batch \cap state.seen # {}
  /\ GoTo("fail")
  /\ NoRecord
  /\ UNCHANGED state

Persist ==
  /\ pc = "persist"
  /\ state.batch \cap state.seen = {}
  /\ Record(Event("assistant", state.batch))
  /\ GoTo(IF state.batch = {} THEN "complete" ELSE "tool")
  /\ UNCHANGED state

StopBatch ==
  /\ pc = "tool"
  /\ token \/ state.tools >= MaxTools
  /\ GoTo("fail")
  /\ NoRecord
  /\ UNCHANGED state

RequestTool(call) ==
  /\ pc = "tool"
  /\ ~token /\ state.tools < MaxTools
  /\ call \in state.batch
  /\ state' = [state EXCEPT !.seen = @ \cup {call}, !.batch = @ \ {call}, !.calls = {call}]
  /\ Record(Event("requested", {call}))
  /\ Stay("execute")

\* tools.execute: "stop" is a result with stop_turn, "replan" is INSTRUCTIONS_DISCOVERED.
Execute(outcome) ==
  /\ pc = "execute"
  /\ state' = [state EXCEPT !.outcome = outcome, !.tools = @ + 1,
                            !.failures = IF outcome = "failed" THEN @ + 1 ELSE @]
  /\ Stay("answer")
  /\ NoRecord

AfterAnswer ==
  CASE state.outcome = "replan" -> "replan"
    [] state.outcome = "stop"   -> "fail"
    [] state.outcome = "failed" /\ state.failures > MaxFailures -> "fail"
    [] OTHER -> IF state.batch = {} THEN "prepare" ELSE "tool"

RecordAnswer ==
  /\ pc = "answer"
  /\ Record(Event("completed", state.calls))
  /\ IF AfterAnswer = "replan" THEN Stay("replan") ELSE GoTo(AfterAnswer)
  /\ UNCHANGED state

\* close_pending_calls gives back the rest of the batch, then a new request is made.
CloseRest ==
  /\ pc = "replan"
  /\ \E c \in Pending(mem) : Record(Event("completed", {c}))
  /\ Stay("replan")
  /\ UNCHANGED state

ReplanAtOnce ==
  /\ pc = "replan"
  /\ state' = [state EXCEPT !.tools = @ + Cardinality(state.batch), !.batch = {}]
  /\ GoTo("prepare")
  /\ NoRecord

Replan ==
  /\ pc = "replan"
  /\ Pending(mem) = {}
  /\ state' = [state EXCEPT !.tools = @ + Cardinality(state.batch), !.batch = {}]
  /\ GoTo("prepare")
  /\ NoRecord

Complete ==
  /\ pc = "complete"
  /\ Record(Event("turn_completed", {}))
  /\ GoTo("done")
  /\ UNCHANGED state

\* fail: close_pending_calls and the terminal event.
BeginFail ==
  /\ pc = "fail"
  /\ ~HasEnded(mem)
  /\ Close(raising)
  /\ NoRecord
  /\ UNCHANGED <<state, steps>>

ClosePending ==
  /\ pc = "closing"
  /\ \E c \in Pending(mem) : Record(Event("completed", {c}))
  /\ UNCHANGED <<pc, state, steps, finishing, raising>>

FailTurn ==
  /\ pc = "closing"
  /\ Record(Event("turn_failed", {}))
  /\ pc' = IF raising THEN "raised" ELSE "done"
  /\ UNCHANGED <<state, steps, finishing, raising>>

FailClosed == Pending(mem) = {} /\ FailTurn

-------------------------------------------------------------------------------
(* Cancellation and exceptions, as _Execution.run handles them.            *)

Over == pc \in {"done", "raised"}

\* Where the interruption finds an event that was being recorded: not yet
\* appended, appended, or with a thread that may still append it.
Interrupted(mayOrphan) ==
  \/ UNCHANGED <<mem, disk, orphan>>
  \/ /\ Len(mem) = Len(disk)
     /\ \E e \in Recorded : mem' = Append(mem, e) /\ disk' = Append(disk, e)
     /\ UNCHANGED orphan
  \/ /\ mayOrphan
     /\ orphan = NoOrphan
     /\ \E e \in Recorded : orphan' = [event |-> e, position |-> Len(mem) + 1]
     /\ UNCHANGED <<mem, disk>>

\* The CancelledError reaches run(): the turn is failed once, then it is raised.
Unwind ==
  IF HasEnded(mem') \/ finishing
    THEN pc' = "raised" /\ UNCHANGED <<finishing, raising>>
    ELSE Close(TRUE)

\* Ctrl+C cancels the task; the token is set with it, or is not.
Cancel ==
  /\ ~Over
  /\ cancels < MaxCancels
  /\ cancels' = cancels + 1
  /\ token' \in {token, TRUE}
  /\ Interrupted(TRUE)
  /\ Unwind
  /\ UNCHANGED <<state, steps, faults>>

\* The token alone, set by the caller.
SetToken ==
  /\ ~Over
  /\ cancels < MaxCancels
  /\ ~token
  /\ cancels' = cancels + 1
  /\ token' = TRUE
  /\ UNCHANGED <<pc, mem, disk, orphan, state, steps, finishing, raising, faults>>

\* Any other exception: run() returns the result of a turn that has ended, and
\* fails the turn as internal_error when it was not being failed already.
CatchError ==
  CASE raising                   -> pc' = "raised" /\ UNCHANGED <<finishing, raising>>
    [] ~raising /\ HasEnded(mem') -> pc' = "done" /\ UNCHANGED <<finishing, raising>>
    [] ~raising /\ ~HasEnded(mem') /\ finishing ->
         pc' = "raised" /\ UNCHANGED <<finishing, raising>>
    [] OTHER -> Close(FALSE)

\* A service or an observer of the events raises; model() handles its own.
NodeRaises ==
  /\ pc \notin {"done", "raised", "fail", "model", "repair_model", "usage"}
  /\ Fault
  /\ Interrupted(FALSE)
  /\ CatchError
  /\ UNCHANGED <<state, steps, token, cancels>>

OrphanLands ==
  /\ orphan # NoOrphan
  /\ orphan.position = Len(disk) + 1
  /\ disk' = Append(disk, orphan.event)
  /\ orphan' = NoOrphan
  /\ UNCHANGED <<pc, mem, state, steps, finishing, raising, token, cancels, faults>>

-------------------------------------------------------------------------------

Nodes ==
  \/ \E repair \in BOOLEAN : Prepare(repair)
  \/ RecordPrepared
  \/ ReportUsage
  \/ RecordUsage
  \/ ModelFails
  \/ RejectWindow
  \/ Respond
  \/ StopRepair
  \/ AcceptCitations
  \/ RefuseCitations
  \/ RefuseReusedId
  \/ Persist
  \/ StopBatch
  \/ \E call \in Call : RequestTool(call)
  \/ \E outcome \in {"ok", "failed", "stop", "replan"} : Execute(outcome)
  \/ RecordAnswer
  \/ CloseRest
  \/ Replan
  \/ Complete
  \/ BeginFail
  \/ ClosePending
  \/ FailClosed

Next ==
  \/ Nodes
  \/ AppendFails
  \/ Cancel
  \/ SetToken
  \/ NodeRaises
  \/ OrphanLands

Spec == Init /\ [][Next]_vars

-------------------------------------------------------------------------------
(* Properties.                                                             *)

EventType ==
  {"prepared", "usage", "assistant", "requested", "completed", "turn_completed", "turn_failed"}

Point ==
  {"prepare", "prepared", "model", "usage", "citations", "repair_prepare", "repair_model",
   "persist", "tool", "execute", "answer", "replan", "complete", "fail", "closing", "done", "raised"}

LogEvent == [type : EventType, calls : SUBSET Call]

\* Every variable keeps its type, and the journal is a prefix of the file.
TypeOK ==
  /\ pc \in Point
  /\ mem \in Seq(LogEvent) /\ disk \in Seq(LogEvent)
  /\ mem = SubSeq(disk, 1, Len(mem))
  /\ state.models \in 0..MaxModels
  /\ state.tools \in Nat /\ state.failures \in 0..(MaxFailures + 1)
  /\ state.batch \cup state.calls \cup state.seen \subseteq Call
  /\ steps \in Nat \ {0}
  /\ finishing \in BOOLEAN /\ raising \in BOOLEAN /\ token \in BOOLEAN

\* _step_limit is what the routes can need: repairs, retries of a rejected
\* window and guards included, no turn within its own limits is cut short by
\* GraphRecursionError and reported as an internal error.
StepLimitSuffices == steps <= StepLimit

\* run() returns a result only when the session file holds the turn's end and an
\* answer for every call; a cancelled or failed run leaves the turn open only
\* when a record failed, when the thread of a cancelled append won, or when it
\* was interrupted again while it was closing the turn.
EndIsOnFile ==
  /\ pc = "done" => HasEnded(disk) /\ Pending(disk) = {}
  /\ pc = "raised" /\ ~HasEnded(mem) => finishing \/ faults > 0 \/ Len(disk) > Len(mem)

Protocol == INSTANCE TurnProtocol
  WITH open <- Pending(disk), answered <- Completed(disk), ended <- HasEnded(disk)

\* On the session file the engine keeps the protocol of a turn, whatever is
\* cancelled, fails or lands late.
ImplementsProtocol == Protocol!ProtocolSpec
===============================================================================
