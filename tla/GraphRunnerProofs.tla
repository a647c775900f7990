--------------------------- MODULE GraphRunnerProofs ----------------------------
(***************************************************************************)
(* For any set of calls, any limits and any number of cancellations and    *)
(* faults: the graph engine implements the protocol of a turn on the       *)
(* session file, the end of a turn is where its result says, and the       *)
(* recursion limit is never reached.                                       *)
(***************************************************************************)
EXTENDS GraphRunner, FiniteSetTheorems, SequenceTheorems, TLAPS

StateType ==
  [models : Nat, tools : Nat, failures : Nat, seen : SUBSET Call, batch : SUBSET Call,
   calls : SUBSET Call, repaired : BOOLEAN, retried : BOOLEAN,
   outcome : {"none", "model", "repair_model", "ok", "failed", "stop", "replan"}]

RunType ==
  /\ pc \in Point
  /\ state \in StateType
  /\ steps \in Nat /\ faults \in Nat
  /\ finishing \in BOOLEAN /\ raising \in BOOLEAN
  /\ pc = "usage" => state.outcome \in {"model", "repair_model"}

TypeInv ==
  /\ mem \in Seq(LogEvent) /\ disk \in Seq(LogEvent)
  /\ orphan = NoOrphan \/ orphan \in [event : LogEvent, position : Nat]
  /\ RunType

\* What the protocol allows next after the events of a log.
Legal(event, log) ==
  \/ event.type \in {"prepared", "usage", "requested"}
  \/ /\ ~HasEnded(log)
     /\ \/ event.type = "completed" /\ \E c \in Declared(log) : event.calls = {c}
        \/ /\ event.type \in {"assistant", "turn_completed", "turn_failed"}
           /\ Pending(log) = {}

\* The file is the journal, or one late append longer; an append that can still
\* land is legal where it would land.
OrderInv ==
  /\ Len(disk) \in {Len(mem), Len(mem) + 1}
  /\ \A i \in 1..Len(mem) : disk[i] = mem[i]
  /\ orphan # NoOrphan => orphan.position \in 1..(Len(mem) + 1)
  /\ orphan # NoOrphan /\ orphan.position = Len(mem) + 1 => Legal(orphan.event, mem)

\* Points between batches.
Asking ==
  {"prepare", "prepared", "model", "usage", "citations", "repair_prepare", "repair_model",
   "persist", "complete"}

\* What each node knows of the journal.
NodeInv ==
  /\ pc \notin {"closing", "done", "raised"} => ~HasEnded(mem) /\ ~finishing
  /\ pc = "closing" => ~HasEnded(mem) /\ finishing
  /\ pc = "done" => HasEnded(mem)
  /\ raising => finishing
  /\ pc \in Asking => Pending(mem) = {}
  /\ pc \in {"tool", "replan"} => Pending(mem) \subseteq state.batch
  /\ pc = "tool" => state.batch \subseteq Declared(mem)
  /\ pc \in {"execute", "answer"} =>
       /\ Pending(mem) \subseteq state.batch \cup state.calls
       /\ state.batch \subseteq Declared(mem)
       /\ \E c \in Declared(mem) : state.calls = {c}

\* How a turn may come to be left open.
RaiseInv ==
  pc = "raised" /\ ~HasEnded(mem) => finishing \/ faults > 0 \/ Len(disk) > Len(mem)

EndInv == HasEnded(disk) => Pending(disk) = {}

\* Nodes entered, against the calls made: five for each answer of the model and
\* one for each tool.
Ahead ==
  CASE pc \in {"prepare", "prepared"}             -> 1
    [] pc \in {"model", "repair_model", "usage"}  -> 2
    [] pc = "citations"                           -> -2
    [] pc \in {"persist", "repair_prepare", "answer", "replan"} -> -1
    [] pc \in {"tool", "execute", "complete"}     -> 0
    [] OTHER -> 2

StepInv ==
  /\ state.models <= MaxModels
  /\ pc \in {"prepared", "model", "repair_model", "usage"} => state.models < MaxModels
  /\ pc = "execute" => state.tools < MaxTools
  /\ steps <= 5 * state.models + (IF state.tools < MaxTools THEN state.tools ELSE MaxTools) + Ahead

-------------------------------------------------------------------------------
(* Logs.                                                                   *)

\* What an event adds to a log.
LEMMA AppendCalls ==
  ASSUME NEW log \in Seq(LogEvent), NEW e \in LogEvent, NEW type
  PROVE  CallsOf(Append(log, e), type) =
           CallsOf(log, type) \cup (IF e.type = type THEN e.calls ELSE {})
<1> DEFINE new == Append(log, e)
<1>1. /\ DOMAIN new = DOMAIN log \cup {Len(log) + 1} /\ new[Len(log) + 1] = e
      /\ \A i \in DOMAIN log : new[i] = log[i]
  OBVIOUS
<1> HIDE DEF new
<1>2. ASSUME NEW c PROVE c \in CallsOf(new, type) <=>
                           c \in CallsOf(log, type) \/ (e.type = type /\ c \in e.calls)
  BY <1>1 DEF CallsOf
<1> QED
  BY <1>2 DEF new

LEMMA AppendFacts ==
  ASSUME NEW log \in Seq(LogEvent), NEW e \in LogEvent
  PROVE  /\ Append(log, e) \in Seq(LogEvent)
         /\ Declared(Append(log, e)) =
              Declared(log) \cup (IF e.type = "assistant" THEN e.calls ELSE {})
         /\ Completed(Append(log, e)) =
              Completed(log) \cup (IF e.type = "completed" THEN e.calls ELSE {})
         /\ HasEnded(Append(log, e)) <=>
              HasEnded(log) \/ e.type \in {"turn_completed", "turn_failed"}
<1>1. HasEnded(Append(log, e)) <=> HasEnded(log) \/ e.type \in {"turn_completed", "turn_failed"}
  <2> DEFINE new == Append(log, e)
  <2>1. /\ DOMAIN new = DOMAIN log \cup {Len(log) + 1} /\ new[Len(log) + 1] = e
        /\ \A i \in DOMAIN log : new[i] = log[i]
    OBVIOUS
  <2> HIDE DEF new
  <2>2. HasEnded(new) <=> HasEnded(log) \/ e.type \in {"turn_completed", "turn_failed"}
    BY <2>1 DEF HasEnded
  <2> QED
    BY <2>2 DEF new
<1>2. Append(log, e) \in Seq(LogEvent)
  BY AppendProperties
<1> QED
  BY <1>1, <1>2, AppendCalls DEF Declared, Completed

\* The same for what is pending.
LEMMA AppendPending ==
  ASSUME NEW log \in Seq(LogEvent), NEW e \in LogEvent
  PROVE  /\ e.type \notin {"assistant", "completed"} => Pending(Append(log, e)) = Pending(log)
         /\ e.type = "assistant" => Pending(Append(log, e)) = Pending(log) \cup (e.calls \ Completed(log))
         /\ e.type = "completed" => Pending(Append(log, e)) = Pending(log) \ e.calls
BY AppendFacts DEF Pending

\* Calls of a log are calls.
LEMMA LogCalls ==
  ASSUME NEW log \in Seq(LogEvent)
  PROVE  Declared(log) \subseteq Call /\ Completed(log) \subseteq Call /\ Pending(log) \subseteq Call
<1>1. \A i \in DOMAIN log : log[i].calls \subseteq Call
  <2>1. \A i \in DOMAIN log : log[i] \in LogEvent
    OBVIOUS
  <2> QED
    BY <2>1 DEF LogEvent
<1> QED
  BY <1>1 DEF Declared, Completed, Pending, CallsOf

-------------------------------------------------------------------------------
(* Types.                                                                  *)

\* The event a node records is one its state allows.
LEMMA RecordedType ==
  ASSUME TypeInv, NEW e \in Recorded
  PROVE  e \in LogEvent
<1>1. state.batch \subseteq Call /\ state.calls \subseteq Call /\ Pending(mem) \subseteq Call
  BY LogCalls DEF TypeInv, RunType, StateType
<1> QED
  BY <1>1 DEF Recorded, Event, LogEvent, EventType

\* What happens to the journal and the file in one step.
Quiet     == UNCHANGED <<mem, disk, orphan>>
Writes(e) == Len(mem) = Len(disk) /\ mem' = Append(mem, e) /\ disk' = Append(disk, e) /\ orphan' = orphan
Leaves(e) ==
  orphan = NoOrphan /\ orphan' = [event |-> e, position |-> Len(mem) + 1] /\ UNCHANGED <<mem, disk>>

JournalStep == Quiet \/ (\E e \in Recorded : Writes(e) \/ Leaves(e)) \/ OrphanLands

\* Every step of the model is one of these.
LEMMA JournalSteps ==
  ASSUME TypeInv, Next
  PROVE  JournalStep
<1> USE DEF JournalStep, Quiet, Writes, Leaves
<1>1. CASE Nodes
  <2>1. \/ RecordPrepared \/ RecordUsage \/ Persist \/ (\E call \in Call : RequestTool(call))
        \/ RecordAnswer \/ CloseRest \/ Complete \/ ClosePending \/ FailClosed
        \/ UNCHANGED <<mem, disk, orphan>>
    BY <1>1 DEF Nodes, NoRecord, Prepare, ReportUsage, ModelFails, RejectWindow, Respond, StopRepair,
                AcceptCitations, RefuseCitations, RefuseReusedId, StopBatch, Execute, Replan,
                BeginFail
  <2>2. CASE RecordPrepared \/ RecordUsage \/ Persist
    BY <2>2 DEF RecordPrepared, RecordUsage, Persist, Record, Recorded
  <2>3. ASSUME NEW call \in Call, RequestTool(call) PROVE JournalStep
    <3>1. Event("requested", {call}) \in Recorded
      BY <2>3 DEF RequestTool, Recorded
    <3> QED
      BY <2>3, <3>1 DEF RequestTool, Record
  <2>4. CASE RecordAnswer \/ Complete
    BY <2>4 DEF RecordAnswer, Complete, Record, Recorded
  <2>5. CASE CloseRest \/ ClosePending
    <3>1. PICK c \in Pending(mem) : Record(Event("completed", {c}))
      BY <2>5 DEF CloseRest, ClosePending
    <3>2. pc \in {"replan", "closing"}
      BY <2>5 DEF CloseRest, ClosePending
    <3>3. Event("completed", {c}) \in Recorded
      BY <3>2 DEF Recorded
    <3> QED
      BY <3>1, <3>3 DEF Record
  <2>6. CASE FailClosed
    BY <2>6 DEF FailClosed, FailTurn, Record, Recorded
  <2> QED
    BY <2>1, <2>2, <2>3, <2>4, <2>5, <2>6
<1>2. CASE AppendFails \/ SetToken
  BY <1>2 DEF AppendFails, SetToken
<1>3. CASE Cancel \/ NodeRaises
  BY <1>3 DEF Cancel, NodeRaises, Interrupted
<1> QED
  BY <1>1, <1>2, <1>3 DEF Next

\* Journal, file and late append keep their types.
LEMMA JournalTypes ==
  ASSUME TypeInv, JournalStep
  PROVE  /\ mem' \in Seq(LogEvent) /\ disk' \in Seq(LogEvent)
         /\ orphan' = NoOrphan \/ orphan' \in [event : LogEvent, position : Nat]
<1>1. CASE Quiet
  BY <1>1 DEF Quiet, TypeInv
<1>2. ASSUME NEW e \in Recorded, Writes(e) \/ Leaves(e)
      PROVE  /\ mem' \in Seq(LogEvent) /\ disk' \in Seq(LogEvent)
             /\ orphan' = NoOrphan \/ orphan' \in [event : LogEvent, position : Nat]
  <2>1. e \in LogEvent
    BY RecordedType
  <2>2. Append(mem, e) \in Seq(LogEvent) /\ Append(disk, e) \in Seq(LogEvent) /\ Len(mem) + 1 \in Nat
    BY <2>1, AppendProperties DEF TypeInv
  <2>3. [event |-> e, position |-> Len(mem) + 1] \in [event : LogEvent, position : Nat]
    BY <2>1, <2>2
  <2> QED
    BY <1>2, <2>2, <2>3 DEF Writes, Leaves, TypeInv
<1>3. CASE OrphanLands
  <2>1. orphan.event \in LogEvent
    BY <1>3 DEF OrphanLands, TypeInv
  <2> QED
    BY <1>3, <2>1, AppendProperties DEF OrphanLands, TypeInv
<1> QED
  BY <1>1, <1>2, <1>3 DEF JournalStep

\* So does the state of the turn.
LEMMA StateStep ==
  ASSUME RunType, Next
  PROVE  state' \in StateType
<1>1. /\ state \in StateType /\ pc \in Point
      /\ state.models \in Nat /\ state.tools \in Nat /\ state.failures \in Nat
      /\ state.seen \subseteq Call /\ state.batch \subseteq Call
  BY DEF RunType, StateType
<1>2. state' = state
      \/ RecordPrepared \/ ReportUsage \/ ModelFails \/ RejectWindow \/ Respond \/ StopRepair
      \/ RefuseCitations \/ (\E call \in Call : RequestTool(call))
      \/ (\E outcome \in {"ok", "failed", "stop", "replan"} : Execute(outcome)) \/ Replan
  BY DEF Next, Nodes, Prepare, RecordUsage, AcceptCitations, RefuseReusedId, Persist, StopBatch,
         RecordAnswer, CloseRest, Complete, BeginFail, ClosePending, FailClosed, FailTurn,
         AppendFails, Cancel, SetToken, NodeRaises, OrphanLands
<1>3. CASE RecordPrepared
  <2>1. state' = [state EXCEPT !.batch = {}, !.outcome = "none"]
    BY <1>3 DEF RecordPrepared
  <2> QED
    BY <1>1, <2>1 DEF StateType
<1>4. CASE ReportUsage
  <2>1. state' = [state EXCEPT !.outcome = pc] /\ pc \in {"model", "repair_model"}
    BY <1>4 DEF ReportUsage
  <2> QED
    BY <1>1, <2>1 DEF StateType
<1>5. CASE ModelFails \/ StopRepair
  <2>1. PICK models \in Nat : state' = [state EXCEPT !.models = models]
    <3>1. state.models + 1 \in Nat
      BY <1>1
    <3> QED
      BY <1>5, <3>1 DEF ModelFails, StopRepair
  <2> QED
    BY <1>1, <2>1 DEF StateType
<1>6. CASE RejectWindow
  <2>1. PICK models \in Nat : state' = [state EXCEPT !.models = models, !.retried = TRUE]
    <3>1. state.models + 1 \in Nat
      BY <1>1
    <3> QED
      BY <1>6, <3>1 DEF RejectWindow
  <2> QED
    BY <1>1, <2>1 DEF StateType
<1>7. CASE Respond
  <2>1. PICK models \in Nat, calls \in SUBSET Call :
          state' = [state EXCEPT !.models = models, !.batch = calls]
    <3>1. state.models + 1 \in Nat
      BY <1>1
    <3> QED
      BY <1>7, <3>1 DEF Respond
  <2> QED
    BY <1>1, <2>1 DEF StateType
<1>8. CASE RefuseCitations
  <2>1. state' = [state EXCEPT !.repaired = TRUE]
    BY <1>8 DEF RefuseCitations
  <2> QED
    BY <1>1, <2>1 DEF StateType
<1>9. ASSUME NEW call \in Call, RequestTool(call) PROVE state' \in StateType
  <2>1. state' = [state EXCEPT !.seen = @ \cup {call}, !.batch = @ \ {call}, !.calls = {call}]
    BY <1>9 DEF RequestTool
  <2> QED
    BY <1>1, <2>1 DEF StateType
<1>10. ASSUME NEW outcome \in {"ok", "failed", "stop", "replan"}, Execute(outcome)
       PROVE  state' \in StateType
  <2>1. PICK tools \in Nat, failures \in Nat :
          state' = [state EXCEPT !.outcome = outcome, !.tools = tools, !.failures = failures]
    <3>1. state.failures + 1 \in Nat /\ state.tools + 1 \in Nat
      BY <1>1
    <3> QED
      BY <1>1, <1>10, <3>1 DEF Execute
  <2> QED
    BY <1>1, <2>1 DEF StateType
<1>11. CASE Replan
  <2>1. Cardinality(state.batch) \in Nat
    <3>1. IsFiniteSet(state.batch)
      BY <1>1, LimitAssumption, FS_Subset
    <3> QED
      BY <3>1, FS_CardinalityType
  <2>2. PICK tools \in Nat : state' = [state EXCEPT !.tools = tools, !.batch = {}]
    <3>1. state.tools + Cardinality(state.batch) \in Nat
      BY <1>1, <2>1
    <3> QED
      BY <1>11, <3>1 DEF Replan
  <2> QED
    BY <1>1, <2>2 DEF StateType
<1> QED
  BY <1>1, <1>2, <1>3, <1>4, <1>5, <1>6, <1>7, <1>8, <1>9, <1>10, <1>11

\* Every step keeps the types.
LEMMA TypeStep ==
  ASSUME TypeInv, [Next]_vars
  PROVE  TypeInv'
<1>1. CASE UNCHANGED vars
  BY <1>1 DEF TypeInv, RunType, vars
<1>2. CASE Next
  <2>1. /\ mem' \in Seq(LogEvent) /\ disk' \in Seq(LogEvent)
        /\ orphan' = NoOrphan \/ orphan' \in [event : LogEvent, position : Nat]
    BY <1>2, JournalSteps, JournalTypes
  <2> SUFFICES RunType'
    BY <2>1 DEF TypeInv, RunType
  <2>0. state' \in StateType
    BY <1>2, StateStep DEF TypeInv
  <2> USE <2>0 DEF RunType, TypeInv, GoTo, Stay, Close, Record, NoRecord, Point
  <2>2. ASSUME NEW repair \in BOOLEAN, Prepare(repair) PROVE RunType'
    BY <2>2 DEF Prepare
  <2>3. CASE RecordPrepared
    BY <2>3 DEF RecordPrepared
  <2>4. CASE ReportUsage
    BY <2>4 DEF ReportUsage, StateType
  <2>5. CASE RecordUsage
    BY <2>5 DEF RecordUsage
  <2>6. CASE ModelFails \/ RejectWindow
    BY <2>6 DEF ModelFails, RejectWindow
  <2>7. CASE Respond
    BY <2>7 DEF Respond
  <2>8. CASE StopRepair
    BY <2>8 DEF StopRepair
  <2>9. CASE AcceptCitations \/ RefuseCitations
    BY <2>9 DEF AcceptCitations, RefuseCitations
  <2>10. CASE RefuseReusedId \/ Persist
    BY <2>10 DEF RefuseReusedId, Persist
  <2>11. CASE StopBatch
    BY <2>11 DEF StopBatch
  <2>12. ASSUME NEW call \in Call, RequestTool(call) PROVE RunType'
    BY <2>12 DEF RequestTool
  <2>13. ASSUME NEW outcome \in {"ok", "failed", "stop", "replan"}, Execute(outcome) PROVE RunType'
    BY <2>13 DEF Execute
  <2>14. CASE RecordAnswer
    BY <2>14 DEF RecordAnswer, AfterAnswer
  <2>15. CASE CloseRest
    BY <2>15 DEF CloseRest
  <2>16. CASE Replan
    BY <2>16 DEF Replan
  <2>17. CASE Complete \/ BeginFail \/ ClosePending
    BY <2>17 DEF Complete, BeginFail, ClosePending
  <2>18. CASE FailClosed
    BY <2>18 DEF FailClosed, FailTurn
  <2>19. CASE AppendFails \/ SetToken \/ OrphanLands
    BY <2>19 DEF AppendFails, SetToken, OrphanLands, Fault
  <2>20. CASE Cancel
    BY <2>20 DEF Cancel, Unwind, Over
  <2>21. CASE NodeRaises
    <3>1. pc' \in {"raised", "done", "closing"} /\ {finishing', raising'} \subseteq BOOLEAN
      BY <2>21 DEF NodeRaises, CatchError
    <3> QED
      BY <2>21, <3>1 DEF NodeRaises, Fault
  <2> QED
    BY <1>2, <2>2, <2>3, <2>4, <2>5, <2>6, <2>7, <2>8, <2>9, <2>10, <2>11, <2>12, <2>13, <2>14,
       <2>15, <2>16, <2>17, <2>18, <2>19, <2>20, <2>21 DEF Next, Nodes
<1> QED
  BY <1>1, <1>2

-------------------------------------------------------------------------------
(* The protocol.                                                           *)

\* What a node records is legal after its journal.
LEMMA RecordedLegal ==
  ASSUME TypeInv, NodeInv, NEW e \in Recorded
  PROVE  Legal(e, mem)
<1> USE DEF Recorded, Event, Legal, Asking
<1>1. CASE pc \in {"prepared", "usage", "tool"}
  BY <1>1
<1>2. CASE pc \in {"persist", "complete"}
  BY <1>2 DEF NodeInv
<1>3. CASE pc = "answer"
  BY <1>3 DEF NodeInv
<1>4. CASE pc \in {"replan", "closing"}
  BY <1>4 DEF NodeInv, Pending
<1>5. pc \in {"prepared", "usage", "tool", "persist", "complete", "answer", "replan", "closing"}
  OBVIOUS
<1> QED
  BY <1>1, <1>2, <1>3, <1>4, <1>5

\* A file that is not ahead of the journal is the journal.
LEMMA SameLog ==
  ASSUME TypeInv, OrderInv, Len(mem) = Len(disk)
  PROVE  disk = mem
<1>1. mem \in Seq(LogEvent) /\ disk \in Seq(LogEvent) /\ \A i \in 1..Len(mem) : disk[i] = mem[i]
  BY DEF TypeInv, OrderInv
<1> QED
  BY <1>1, SeqEqual

\* The order of journal, file and late append is kept.
LEMMA OrderStep ==
  ASSUME TypeInv, NodeInv, OrderInv, JournalStep
  PROVE  OrderInv'
<1>1. mem \in Seq(LogEvent) /\ disk \in Seq(LogEvent) /\ Len(mem) \in Nat /\ Len(disk) \in Nat
  BY DEF TypeInv
<1>2. CASE Quiet
  BY <1>2 DEF Quiet, OrderInv, Legal
<1>3. ASSUME NEW e \in Recorded, Writes(e) PROVE OrderInv'
  <2>1. e \in LogEvent
    BY RecordedType
  <2>2. /\ Len(mem') = Len(mem) + 1 /\ Len(disk') = Len(disk) + 1
        /\ mem'[Len(mem) + 1] = e /\ disk'[Len(disk) + 1] = e
        /\ \A i \in 1..Len(mem) : mem'[i] = mem[i]
        /\ \A i \in 1..Len(disk) : disk'[i] = disk[i]
    BY <1>1, <1>3, <2>1, AppendProperties DEF Writes
  <2>3. Len(mem) = Len(disk) /\ orphan' = orphan
    BY <1>3 DEF Writes
  <2>4. \A i \in 1..Len(mem') : disk'[i] = mem'[i]
    <3>1. \A i \in 1..Len(mem') : i = Len(mem) + 1 \/ i \in 1..Len(mem)
      BY <1>1, <2>2
    <3> QED
      BY <2>2, <2>3, <3>1 DEF OrderInv
  <2>5. orphan # NoOrphan => orphan.position \in 1..(Len(mem) + 1)
    BY DEF OrderInv
  <2> QED
    BY <1>1, <2>2, <2>3, <2>4, <2>5 DEF OrderInv
<1>4. ASSUME NEW e \in Recorded, Leaves(e) PROVE OrderInv'
  <2>1. Legal(e, mem)
    BY RecordedLegal
  <2>2. orphan'.event = e /\ orphan'.position = Len(mem) + 1 /\ UNCHANGED <<mem, disk>>
    BY <1>4 DEF Leaves
  <2> QED
    BY <1>1, <2>1, <2>2 DEF OrderInv, Legal
<1>5. CASE OrphanLands
  <2>1. /\ orphan # NoOrphan /\ orphan.position = Len(disk) + 1
        /\ disk' = Append(disk, orphan.event) /\ orphan' = NoOrphan /\ mem' = mem
    BY <1>5 DEF OrphanLands
  <2>2. Len(disk) = Len(mem)
    BY <1>1, <2>1 DEF OrderInv
  <2>3. Len(disk') = Len(mem) + 1 /\ \A i \in 1..Len(disk) : disk'[i] = disk[i]
    BY <1>1, <2>1, <2>2
  <2> QED
    BY <1>1, <2>1, <2>2, <2>3 DEF OrderInv
<1> QED
  BY <1>2, <1>3, <1>4, <1>5 DEF JournalStep

\* The file changes by events that are legal after it.
LEMMA FileGrowsLegally ==
  ASSUME TypeInv, NodeInv, OrderInv, JournalStep
  PROVE  disk' = disk \/ \E e \in LogEvent : disk' = Append(disk, e) /\ Legal(e, disk)
<1>1. ASSUME NEW e \in Recorded, Writes(e)
      PROVE  \E f \in LogEvent : disk' = Append(disk, f) /\ Legal(f, disk)
  <2>1. disk = mem /\ disk' = Append(disk, e)
    BY <1>1, SameLog DEF Writes
  <2> QED
    BY <2>1, RecordedType, RecordedLegal
<1>2. CASE OrphanLands
  <2>1. /\ orphan # NoOrphan /\ orphan.position = Len(disk) + 1
        /\ disk' = Append(disk, orphan.event) /\ orphan.event \in LogEvent
    BY <1>2 DEF OrphanLands, TypeInv
  <2>2. Len(disk) = Len(mem)
    BY <2>1 DEF OrderInv, TypeInv
  <2>3. Legal(orphan.event, mem) /\ disk = mem
    BY <2>1, <2>2, SameLog DEF OrderInv
  <2> QED
    BY <2>1, <2>3
<1> QED
  BY <1>1, <1>2 DEF JournalStep, Quiet, Leaves

\* A legal event is a step of the protocol, or says nothing to it.
LEMMA LegalImplements ==
  ASSUME disk \in Seq(LogEvent), NEW e \in LogEvent, disk' = Append(disk, e), Legal(e, disk)
  PROVE  [Protocol!ProtocolNext]_(Protocol!protocolVars)
<1> USE DEF Protocol!ProtocolNext, Protocol!protocolVars
<1>1. /\ Declared(disk)' = Declared(disk) \cup (IF e.type = "assistant" THEN e.calls ELSE {})
      /\ Completed(disk)' = Completed(disk) \cup (IF e.type = "completed" THEN e.calls ELSE {})
      /\ HasEnded(disk)' <=> HasEnded(disk) \/ e.type \in {"turn_completed", "turn_failed"}
  BY AppendFacts
<1>2. Pending(disk) = Declared(disk) \ Completed(disk) /\ Pending(disk)' = Declared(disk)' \ Completed(disk)'
  BY DEF Pending
<1>a. HasEnded(disk) \in BOOLEAN /\ HasEnded(disk)' \in BOOLEAN
  BY DEF HasEnded
<1>b. e.type \notin {"turn_completed", "turn_failed"} => HasEnded(disk)' = HasEnded(disk)
  BY <1>1, <1>a
<1>3. CASE e.type \in {"prepared", "usage", "requested"}
  BY <1>1, <1>2, <1>b, <1>3
<1>4. ASSUME ~HasEnded(disk), e.type = "completed", NEW c \in Declared(disk), e.calls = {c}
      PROVE  [Protocol!ProtocolNext]_(Protocol!protocolVars)
  <2>1. c \in Call
    BY LogCalls
  <2>2. CASE c \in Completed(disk)
    BY <1>1, <1>2, <1>b, <1>4, <2>2
  <2>3. CASE c \notin Completed(disk)
    <3>1. Protocol!AnswerCall(c)
      BY <1>1, <1>2, <1>b, <1>4, <2>3 DEF Protocol!AnswerCall
    <3> QED
      BY <2>1, <3>1
  <2> QED
    BY <2>2, <2>3
<1>5. CASE ~HasEnded(disk) /\ Pending(disk) = {} /\ e.type = "assistant"
  <2>1. e.calls \in SUBSET Call
    BY DEF LogEvent
  <2>2. Protocol!Declare(e.calls)
    BY <1>1, <1>2, <1>b, <1>5 DEF Protocol!Declare
  <2> QED
    BY <2>1, <2>2
<1>6. CASE ~HasEnded(disk) /\ Pending(disk) = {} /\ e.type \in {"turn_completed", "turn_failed"}
  <2>1. Protocol!EndTurn
    BY <1>1, <1>2, <1>6 DEF Protocol!EndTurn
  <2> QED
    BY <2>1
<1> QED
  BY <1>3, <1>4, <1>5, <1>6 DEF Legal

-------------------------------------------------------------------------------
(* The nodes.                                                              *)

\* What a record changes in the journal.
LEMMA RecordFacts ==
  ASSUME TypeInv, NEW e \in LogEvent, Record(e)
  PROVE  /\ Len(mem) = Len(disk)
         /\ Declared(mem)' = Declared(mem) \cup (IF e.type = "assistant" THEN e.calls ELSE {})
         /\ HasEnded(mem)' <=> HasEnded(mem) \/ e.type \in {"turn_completed", "turn_failed"}
         /\ e.type \notin {"assistant", "completed"} => Pending(mem)' = Pending(mem)
         /\ e.type = "assistant" => Pending(mem)' = Pending(mem) \cup (e.calls \ Completed(mem))
         /\ e.type = "completed" => Pending(mem)' = Pending(mem) \ e.calls
<1>1. mem \in Seq(LogEvent) /\ mem' = Append(mem, e) /\ Len(mem) = Len(disk)
  BY DEF TypeInv, Record
<1> QED
  BY <1>1, AppendFacts, AppendPending

\* A step that records nothing leaves what the journal says.
LEMMA QuietFacts ==
  ASSUME mem' = mem
  PROVE  /\ Declared(mem)' = Declared(mem) /\ Pending(mem)' = Pending(mem)
         /\ HasEnded(mem)' <=> HasEnded(mem)
BY DEF Declared, Pending, Completed, HasEnded, CallsOf

\* Every node leaves its successor what it needs.
LEMMA NodesKeep ==
  ASSUME TypeInv, NodeInv, Nodes
  PROVE  NodeInv'
<1> USE DEF NodeInv, Asking, GoTo, Stay, Close, NoRecord
<1>0. pc \in Point /\ state \in StateType
  BY DEF TypeInv, RunType
<1>1. ASSUME NEW repair \in BOOLEAN, Prepare(repair) PROVE NodeInv'
  BY <1>1, QuietFacts DEF Prepare
<1>2. CASE RecordPrepared \/ RecordUsage
  <2>1. PICK e \in {Event("prepared", {}), Event("usage", {})} : Record(e)
    BY <1>2 DEF RecordPrepared, RecordUsage
  <2>2. e \in LogEvent /\ e.type \in {"prepared", "usage"}
    BY DEF Event, LogEvent, EventType
  <2>3. Pending(mem)' = Pending(mem) /\ (HasEnded(mem)' <=> HasEnded(mem))
    BY <2>1, <2>2, RecordFacts
  <2>4. pc \in {"prepared", "usage"} /\ pc' \in {"model", "repair_model"}
    BY <1>2 DEF RecordPrepared, RecordUsage, TypeInv, RunType
  <2>5. UNCHANGED <<finishing, raising>>
    BY <1>2 DEF RecordPrepared, RecordUsage
  <2> QED
    BY <2>3, <2>4, <2>5
<1>3. CASE ReportUsage \/ ModelFails \/ RejectWindow \/ Respond
  <2>1. pc \in {"model", "repair_model"} /\ pc' \in {"usage", "fail", "prepare", "citations"}
    BY <1>3 DEF ReportUsage, ModelFails, RejectWindow, Respond
  <2>2. UNCHANGED <<mem, finishing, raising>>
    BY <1>3 DEF ReportUsage, ModelFails, RejectWindow, Respond
  <2> QED
    BY <2>1, <2>2, QuietFacts
<1>4. CASE StopRepair
  BY <1>4, QuietFacts DEF StopRepair
<1>5. CASE AcceptCitations \/ RefuseCitations \/ RefuseReusedId \/ StopBatch
  <2>1. /\ pc \in {"citations", "persist", "tool"} /\ pc' \in {"persist", "repair_prepare", "fail"}
        /\ pc' # "fail" => pc = "citations"
    BY <1>5 DEF AcceptCitations, RefuseCitations, RefuseReusedId, StopBatch
  <2>2. UNCHANGED <<mem, finishing, raising>>
    BY <1>5 DEF AcceptCitations, RefuseCitations, RefuseReusedId, StopBatch
  <2> QED
    BY <2>1, <2>2, QuietFacts
<1>6. CASE Persist
  <2>1. Event("assistant", state.batch) \in LogEvent /\ Record(Event("assistant", state.batch))
    BY <1>0, <1>6 DEF Persist, Event, LogEvent, EventType, StateType
  <2>2. /\ Pending(mem)' = state.batch \ Completed(mem)
        /\ Declared(mem)' = Declared(mem) \cup state.batch
        /\ HasEnded(mem)' <=> HasEnded(mem)
    BY <1>6, <2>1, RecordFacts DEF Persist, Event
  <2> QED
    BY <1>6, <2>2 DEF Persist
<1>7. ASSUME NEW call \in Call, RequestTool(call) PROVE NodeInv'
  <2>1. Event("requested", {call}) \in LogEvent /\ Record(Event("requested", {call}))
    BY <1>7 DEF RequestTool, Event, LogEvent, EventType
  <2>2. /\ Pending(mem)' = Pending(mem) /\ Declared(mem)' = Declared(mem)
        /\ HasEnded(mem)' <=> HasEnded(mem)
    BY <2>1, RecordFacts DEF Event
  <2>3. state'.batch = state.batch \ {call} /\ state'.calls = {call} /\ call \in state.batch
    BY <1>0, <1>7 DEF RequestTool, StateType
  <2> QED
    BY <1>7, <2>2, <2>3 DEF RequestTool
<1>8. ASSUME NEW outcome \in {"ok", "failed", "stop", "replan"}, Execute(outcome) PROVE NodeInv'
  <2>1. state'.batch = state.batch /\ state'.calls = state.calls
    BY <1>0, <1>8 DEF Execute, StateType
  <2> QED
    BY <1>8, <2>1, QuietFacts DEF Execute
<1>9. CASE RecordAnswer
  <2>1. Event("completed", state.calls) \in LogEvent /\ Record(Event("completed", state.calls))
    BY <1>0, <1>9 DEF RecordAnswer, Event, LogEvent, EventType, StateType
  <2>2. /\ Pending(mem)' = Pending(mem) \ state.calls /\ Declared(mem)' = Declared(mem)
        /\ HasEnded(mem)' <=> HasEnded(mem)
    BY <2>1, RecordFacts DEF Event
  <2>3. Pending(mem)' \subseteq state.batch
    BY <1>9, <2>2 DEF RecordAnswer
  <2>4. /\ pc' = AfterAnswer /\ AfterAnswer \in {"replan", "fail", "prepare", "tool"}
        /\ AfterAnswer = "prepare" => state.batch = {}
        /\ UNCHANGED <<state, finishing, raising>>
    BY <1>9 DEF RecordAnswer, AfterAnswer
  <2>5. pc = "answer"
    BY <1>9 DEF RecordAnswer
  <2> QED
    BY <2>2, <2>3, <2>4, <2>5
<1>10. CASE CloseRest \/ ClosePending
  <2>1. PICK c \in Pending(mem) : Record(Event("completed", {c}))
    BY <1>10 DEF CloseRest, ClosePending
  <2>2. Event("completed", {c}) \in LogEvent
    BY LogCalls DEF Event, LogEvent, EventType, TypeInv
  <2>3. Pending(mem)' = Pending(mem) \ {c} /\ (HasEnded(mem)' <=> HasEnded(mem))
    BY <2>1, <2>2, RecordFacts DEF Event
  <2>4. pc \in {"replan", "closing"} /\ UNCHANGED <<pc, state, finishing, raising>>
    BY <1>10 DEF CloseRest, ClosePending
  <2> QED
    BY <2>3, <2>4
<1>11. CASE Replan
  BY <1>11, QuietFacts DEF Replan
<1>12. CASE Complete \/ FailClosed
  <2>1. PICK e \in {Event("turn_completed", {}), Event("turn_failed", {})} : Record(e)
    BY <1>12 DEF Complete, FailClosed, FailTurn
  <2>2. e \in LogEvent /\ e.type \in {"turn_completed", "turn_failed"}
    BY DEF Event, LogEvent, EventType
  <2>3. HasEnded(mem)'
    BY <2>1, <2>2, RecordFacts
  <2>4. pc' \in {"done", "raised"} /\ UNCHANGED <<finishing, raising>>
    BY <1>12 DEF Complete, FailClosed, FailTurn
  <2> QED
    BY <2>3, <2>4
<1>13. CASE BeginFail
  BY <1>13, QuietFacts DEF BeginFail
<1> QED
  BY <1>1, <1>2, <1>3, <1>4, <1>5, <1>6, <1>7, <1>8, <1>9, <1>10, <1>11, <1>12, <1>13 DEF Nodes

\* So do cancellations, exceptions and failing appends.
LEMMA NodeStep ==
  ASSUME TypeInv, NodeInv, [Next]_vars
  PROVE  NodeInv'
<1> USE DEF NodeInv, Asking
<1>1. CASE AppendFails
  BY <1>1, QuietFacts DEF AppendFails, Recorded
<1>2. CASE Cancel
  <2>1. \/ /\ HasEnded(mem') \/ finishing
           /\ pc' = "raised" /\ UNCHANGED <<finishing, raising>>
        \/ ~HasEnded(mem') /\ pc' = "closing" /\ finishing' = TRUE /\ raising' = TRUE
    BY <1>2 DEF Cancel, Unwind, Close
  <2> QED
    BY <2>1
<1>3. CASE NodeRaises
  <2>1. \/ pc' = "raised" /\ UNCHANGED <<finishing, raising>>
        \/ HasEnded(mem') /\ pc' = "done" /\ UNCHANGED <<finishing, raising>>
        \/ ~HasEnded(mem') /\ pc' = "closing" /\ finishing' = TRUE /\ raising' = FALSE
    BY <1>3 DEF NodeRaises, CatchError, Close, TypeInv, RunType
  <2> QED
    BY <2>1
<1>4. CASE SetToken \/ OrphanLands \/ UNCHANGED vars
  <2>1. UNCHANGED <<mem, pc, state, finishing, raising>>
    BY <1>4 DEF SetToken, OrphanLands, vars
  <2> QED
    BY <2>1, QuietFacts
<1> QED
  BY <1>1, <1>2, <1>3, <1>4, NodesKeep DEF Next

\* A turn is left open only for a reason.
LEMMA RaiseStep ==
  ASSUME TypeInv, NodeInv, OrderInv, RaiseInv, [Next]_vars
  PROVE  RaiseInv'
<1>0. Len(mem) \in Nat /\ Len(disk) \in Nat /\ Len(mem) <= Len(disk) /\ faults \in Nat
  BY DEF TypeInv, RunType, OrderInv
<1>1. CASE Nodes
  <2>1. CASE FailClosed
    <3>1. Event("turn_failed", {}) \in LogEvent /\ Record(Event("turn_failed", {}))
      BY <2>1 DEF FailClosed, FailTurn, Event, LogEvent, EventType
    <3>2. HasEnded(mem)'
      BY <3>1, RecordFacts DEF Event
    <3> QED
      BY <3>2 DEF RaiseInv
  <2>2. CASE ~FailClosed
    <3>1. pc' # "raised"
      BY <1>1, <2>2 DEF Nodes, GoTo, Stay, Close, Prepare, RecordPrepared, ReportUsage, RecordUsage,
         ModelFails, RejectWindow, Respond, StopRepair, AcceptCitations, RefuseCitations,
         RefuseReusedId, Persist, StopBatch, RequestTool, Execute, RecordAnswer, AfterAnswer,
         CloseRest, Replan, Complete, BeginFail, ClosePending, TypeInv, RunType
    <3> QED
      BY <3>1 DEF RaiseInv
  <2> QED
    BY <2>1, <2>2
<1>2. CASE AppendFails
  <2>1. \/ Len(disk) > Len(mem) /\ UNCHANGED <<mem, disk>>
        \/ faults' = faults + 1
    BY <1>0, <1>2 DEF AppendFails, Fault
  <2> QED
    BY <1>0, <2>1 DEF RaiseInv
<1>3. CASE Cancel
  BY <1>3 DEF Cancel, Unwind, Close, RaiseInv
<1>4. CASE NodeRaises
  BY <1>0, <1>4 DEF NodeRaises, Fault, RaiseInv
<1>5. CASE OrphanLands
  <2>1. Len(disk') = Len(disk) + 1 /\ mem' = mem
    BY <1>5 DEF OrphanLands, TypeInv
  <2> QED
    BY <1>0, <2>1 DEF RaiseInv
<1>6. CASE SetToken \/ UNCHANGED vars
  <2>1. UNCHANGED <<pc, mem, disk, finishing, faults>>
    BY <1>6 DEF SetToken, vars
  <2> QED
    BY <2>1, QuietFacts DEF RaiseInv
<1> QED
  BY <1>1, <1>2, <1>3, <1>4, <1>5, <1>6 DEF Next

\* A file that holds the end of the turn holds every answer.
LEMMA EndStep ==
  ASSUME TypeInv, NodeInv, OrderInv, EndInv, [Next]_vars
  PROVE  EndInv'
<1>1. disk' = disk \/ \E e \in LogEvent : disk' = Append(disk, e) /\ Legal(e, disk)
  BY JournalSteps, FileGrowsLegally DEF vars
<1>2. CASE disk' = disk
  BY <1>2 DEF EndInv
<1>3. ASSUME NEW e \in LogEvent, disk' = Append(disk, e), Legal(e, disk) PROVE EndInv'
  <2>1. disk \in Seq(LogEvent)
    BY DEF TypeInv
  <2>2. /\ HasEnded(disk') <=> HasEnded(disk) \/ e.type \in {"turn_completed", "turn_failed"}
        /\ e.type \notin {"assistant", "completed"} => Pending(disk') = Pending(disk)
    BY <1>3, <2>1, AppendFacts, AppendPending
  <2>3. CASE e.type \in {"prepared", "usage", "requested"}
    BY <2>2, <2>3 DEF EndInv
  <2>4. CASE e.type \in {"turn_completed", "turn_failed"}
    BY <1>3, <2>2, <2>4 DEF Legal, EndInv
  <2>5. CASE e.type \in {"assistant", "completed"}
    BY <1>3, <2>2, <2>5 DEF Legal, EndInv
  <2> QED
    BY <1>3, <2>3, <2>4, <2>5 DEF Legal
<1> QED
  BY <1>1, <1>2, <1>3

-------------------------------------------------------------------------------
(* The recursion limit.                                                    *)

\* The tool calls that count against the limit.
Counted(tools) == IF tools < MaxTools THEN tools ELSE MaxTools

LEMMA CountedGrows ==
  ASSUME NEW tools \in Nat, NEW more \in Nat
  PROVE  /\ Counted(tools) \in Nat /\ Counted(tools) <= Counted(tools + more)
         /\ tools < MaxTools => Counted(tools + 1) = Counted(tools) + 1
BY LimitAssumption DEF Counted

\* Each answer of the model and each tool pays for the nodes it leads to.
LEMMA LimitStep ==
  ASSUME TypeInv, StepInv, [Next]_vars
  PROVE  StepInv'
<1> USE LimitAssumption DEF GoTo, Stay, Close
<1>0. /\ pc \in Point /\ state \in StateType /\ steps \in Nat
      /\ state.models \in Nat /\ state.tools \in Nat
      /\ Counted(state.tools) \in Nat
  BY CountedGrows DEF TypeInv, RunType, StateType
<1>a. /\ state.models <= MaxModels
      /\ pc \in {"prepared", "model", "repair_model", "usage"} => state.models < MaxModels
      /\ pc = "execute" => state.tools < MaxTools
      /\ steps <= 5 * state.models + Counted(state.tools) + Ahead
  BY DEF StepInv, Counted
<1>b. ASSUME state'.models \in Nat, state'.models <= MaxModels,
             pc' \in {"prepared", "model", "repair_model", "usage"} => state'.models < MaxModels,
             pc' = "execute" => state'.tools < MaxTools,
             steps' <= 5 * state'.models + Counted(state'.tools) + Ahead'
      PROVE  StepInv'
  BY <1>b DEF StepInv, Counted
<1>1. ASSUME NEW repair \in BOOLEAN, Prepare(repair) PROVE StepInv'
  BY <1>0, <1>a, <1>b, <1>1 DEF Prepare, Ahead
<1>2. CASE RecordPrepared
  <2>1. state'.models = state.models /\ state'.tools = state.tools
    BY <1>0, <1>2 DEF RecordPrepared, StateType
  <2> QED
    BY <1>0, <1>a, <1>b, <1>2, <2>1 DEF RecordPrepared, Ahead
<1>3. CASE ReportUsage
  <2>1. state'.models = state.models /\ state'.tools = state.tools
    BY <1>0, <1>3 DEF ReportUsage, StateType
  <2> QED
    BY <1>0, <1>a, <1>b, <1>3, <2>1 DEF ReportUsage, Ahead
<1>4. CASE RecordUsage
  <2>1. pc' \in {"model", "repair_model"} /\ pc = "usage" /\ UNCHANGED <<state, steps>>
    BY <1>4 DEF RecordUsage, TypeInv, RunType
  <2> QED
    BY <1>0, <1>a, <1>b, <2>1 DEF Ahead
<1>5. CASE ModelFails \/ RejectWindow \/ Respond \/ StopRepair
  <2>1. state'.models = state.models + 1 /\ state'.tools = state.tools
    BY <1>0, <1>5 DEF ModelFails, RejectWindow, Respond, StopRepair, StateType
  <2>2. /\ pc \in {"model", "repair_model"} /\ pc' \in {"fail", "prepare", "citations", "closing"}
        /\ steps' \in {steps, steps + 1}
    BY <1>5 DEF ModelFails, RejectWindow, Respond, StopRepair
  <2> QED
    BY <1>0, <1>a, <1>b, <2>1, <2>2 DEF Ahead
<1>6. CASE AcceptCitations \/ RefuseCitations
  <2>1. state'.models = state.models /\ state'.tools = state.tools
    BY <1>0, <1>6 DEF AcceptCitations, RefuseCitations, StateType
  <2> QED
    BY <1>0, <1>a, <1>b, <1>6, <2>1 DEF AcceptCitations, RefuseCitations, Ahead
<1>7. CASE RefuseReusedId \/ Persist \/ StopBatch
  BY <1>0, <1>a, <1>b, <1>7 DEF RefuseReusedId, Persist, StopBatch, Ahead
<1>8. ASSUME NEW call \in Call, RequestTool(call) PROVE StepInv'
  <2>1. state'.models = state.models /\ state'.tools = state.tools
    BY <1>0, <1>8 DEF RequestTool, StateType
  <2> QED
    BY <1>0, <1>a, <1>b, <1>8, <2>1 DEF RequestTool, Ahead
<1>9. ASSUME NEW outcome \in {"ok", "failed", "stop", "replan"}, Execute(outcome) PROVE StepInv'
  <2>1. state'.models = state.models /\ state'.tools = state.tools + 1
    BY <1>0, <1>9 DEF Execute, StateType
  <2>2. Counted(state'.tools) = Counted(state.tools) + 1
    BY <1>0, <1>a, <1>9, <2>1, CountedGrows DEF Execute
  <2> QED
    BY <1>0, <1>a, <1>b, <1>9, <2>1, <2>2 DEF Execute, Ahead
<1>10. CASE RecordAnswer
  <2>1. pc = "answer" /\ state' = state /\ AfterAnswer \in {"replan", "fail", "prepare", "tool"}
    BY <1>10 DEF RecordAnswer, AfterAnswer
  <2> QED
    BY <1>0, <1>a, <1>b, <1>10, <2>1 DEF RecordAnswer, Ahead
<1>11. CASE Replan
  <2>1. Cardinality(state.batch) \in Nat
    <3>1. IsFiniteSet(state.batch)
      BY <1>0, FS_Subset DEF StateType
    <3> QED
      BY <3>1, FS_CardinalityType
  <2>2. state'.models = state.models /\ state'.tools = state.tools + Cardinality(state.batch)
    BY <1>0, <1>11 DEF Replan, StateType
  <2>3. Counted(state'.tools) \in Nat /\ Counted(state.tools) <= Counted(state'.tools)
    BY <1>0, <2>1, <2>2, CountedGrows
  <2> QED
    BY <1>0, <1>a, <1>b, <1>11, <2>2, <2>3 DEF Replan, Ahead
<1>12. CASE Complete \/ BeginFail \/ FailClosed
  BY <1>0, <1>a, <1>b, <1>12 DEF Complete, BeginFail, FailClosed, FailTurn, Ahead
<1>13. CASE AppendFails \/ Cancel \/ NodeRaises
  <2>1. pc' \in {"raised", "closing", "done"} /\ UNCHANGED <<state, steps>>
    BY <1>13 DEF AppendFails, Cancel, NodeRaises, Unwind, CatchError
  <2>2. Ahead' = 2 /\ Ahead <= 2
    BY <1>0, <2>1 DEF Ahead
  <2> QED
    BY <1>0, <1>a, <1>b, <2>1, <2>2 DEF Ahead
<1>14. CASE CloseRest \/ ClosePending \/ SetToken \/ OrphanLands \/ UNCHANGED vars
  <2>1. UNCHANGED <<pc, state, steps>>
    BY <1>14 DEF CloseRest, ClosePending, SetToken, OrphanLands, vars
  <2> QED
    BY <1>a, <1>b, <1>0, <2>1 DEF Ahead
<1> QED
  BY <1>1, <1>2, <1>3, <1>4, <1>5, <1>6, <1>7, <1>8, <1>9, <1>10, <1>11, <1>12, <1>13, <1>14
     DEF Next, Nodes

-------------------------------------------------------------------------------
(* The theorems.                                                           *)

IInv == TypeInv /\ NodeInv /\ OrderInv /\ RaiseInv /\ EndInv /\ StepInv

\* The parts together are inductive.
LEMMA EngineSafe == Spec => []IInv
<1>1. Init => IInv
  <2> SUFFICES ASSUME Init PROVE IInv
    OBVIOUS
  <2>0. CallsOf(<<>>, "assistant") = {} /\ ~HasEnded(<<>>)
    BY DEF CallsOf, HasEnded
  <2>1. TypeInv
    <3>1. <<>> \in Seq(LogEvent)
      OBVIOUS
    <3> QED
      BY <3>1 DEF Init, TypeInv, RunType, Point, StateType, FreshState
  <2>2. NodeInv
    BY <2>0 DEF Init, NodeInv, Asking, Pending, Declared
  <2>3. OrderInv
    BY DEF Init, OrderInv
  <2>4. RaiseInv /\ EndInv
    BY <2>0 DEF Init, RaiseInv, EndInv
  <2>5. StepInv
    BY LimitAssumption DEF Init, StepInv, FreshState, Ahead
  <2> QED
    BY <2>1, <2>2, <2>3, <2>4, <2>5 DEF IInv
<1>2. IInv /\ [Next]_vars => IInv'
  <2> SUFFICES ASSUME IInv, [Next]_vars PROVE IInv'
    OBVIOUS
  <2>1. OrderInv'
    <3>1. JournalStep
      BY JournalSteps DEF IInv, vars, JournalStep, Quiet
    <3> QED
      BY <3>1, OrderStep DEF IInv
  <2> QED
    BY <2>1, TypeStep, NodeStep, RaiseStep, EndStep, LimitStep DEF IInv
<1> QED
  BY <1>1, <1>2, PTL DEF Spec

\* No turn within its limits is cut short by the recursion limit of the graph.
THEOREM LimitIsNeverReached == Spec => []StepLimitSuffices
<1>1. IInv => StepLimitSuffices
  <2> SUFFICES ASSUME IInv PROVE StepLimitSuffices
    OBVIOUS
  <2>1. /\ state.models \in Nat /\ state.tools \in Nat /\ steps \in Nat /\ pc \in Point
        /\ state.models <= MaxModels
        /\ steps <= 5 * state.models + Counted(state.tools) + Ahead
    BY DEF IInv, TypeInv, RunType, StateType, StepInv, Counted
  <2>2. Counted(state.tools) \in Nat /\ Counted(state.tools) <= MaxTools
    BY <2>1, LimitAssumption DEF Counted
  <2>3. Ahead \in Int /\ Ahead <= 2
    BY DEF Ahead
  <2> QED
    BY <2>1, <2>2, <2>3, LimitAssumption DEF StepLimitSuffices, StepLimit
<1> QED
  BY <1>1, EngineSafe, PTL

\* run() returns a result only when the end and every answer are on file, and
\* leaves a turn open only for one of the named reasons.
THEOREM ResultsAreOnFile == Spec => []EndIsOnFile
<1>1. IInv => EndIsOnFile
  <2> SUFFICES ASSUME IInv PROVE EndIsOnFile
    OBVIOUS
  <2>1. pc = "done" => HasEnded(disk)
    <3>1. /\ mem \in Seq(LogEvent) /\ disk \in Seq(LogEvent) /\ Len(mem) <= Len(disk)
          /\ \A i \in 1..Len(mem) : disk[i] = mem[i]
      BY DEF IInv, TypeInv, OrderInv
    <3>2. HasEnded(mem) => HasEnded(disk)
      BY <3>1 DEF HasEnded
    <3> QED
      BY <3>2 DEF IInv, NodeInv
  <2> QED
    BY <2>1 DEF IInv, EndInv, RaiseInv, EndIsOnFile
<1> QED
  BY <1>1, EngineSafe, PTL

\* On the session file the engine implements the protocol of a turn.
THEOREM EngineImplementsProtocol == Spec => ImplementsProtocol
<1>1. Init => Protocol!ProtocolInit
  BY DEF Init, Protocol!ProtocolInit, Pending, Declared, Completed, CallsOf, HasEnded
<1>2. IInv /\ [Next]_vars => [Protocol!ProtocolNext]_(Protocol!protocolVars)
  <2> SUFFICES ASSUME IInv, [Next]_vars
               PROVE  [Protocol!ProtocolNext]_(Protocol!protocolVars)
    OBVIOUS
  <2>1. disk' = disk \/ \E e \in LogEvent : disk' = Append(disk, e) /\ Legal(e, disk)
    BY JournalSteps, FileGrowsLegally DEF IInv, vars
  <2>2. CASE disk' = disk
    BY <2>2 DEF Protocol!protocolVars, Pending, Declared, Completed, CallsOf, HasEnded
  <2>3. ASSUME NEW e \in LogEvent, disk' = Append(disk, e), Legal(e, disk)
        PROVE  [Protocol!ProtocolNext]_(Protocol!protocolVars)
    BY <2>3, LegalImplements DEF IInv, TypeInv
  <2> QED
    BY <2>1, <2>2, <2>3
<1> QED
  BY <1>1, <1>2, EngineSafe, PTL DEF Spec, ImplementsProtocol, Protocol!ProtocolSpec
===============================================================================
