-------------------------- MODULE ContextCompaction --------------------------
(***************************************************************************)
(* What the model is shown of a session, and how the history is replaced   *)
(* by a summary when it no longer fits: ContextService, the coordinator's  *)
(* /compact, and the part of the loop that asks for requests.              *)
(*                                                                         *)
(* An event is known by its position in the log.  Every statement, answer, *)
(* result and summary counts 1 and the parent history of a recovery        *)
(* session 2; texts, hashes, segments and the number of maintenance calls  *)
(* are left out.  A summary is the set of positions it was made from (0 is *)
(* the parent history), a request the positions it shows and the           *)
(* checkpoint it starts from.  A tool batch is one call.                   *)
(***************************************************************************)
EXTENDS Integers, Sequences, FiniteSets, FiniteSetsExt

CONSTANTS
  MaxTurns,   \* turns of the session
  MaxRounds,  \* answers of a turn, the last without tools
  MaxWithdrawn, \* statements the user takes back
  MaxAsks,    \* /compact commands
  MaxFaults,  \* model errors, cancellations, ends of the process, unpaired batches
  Trigger,    \* ContextBudget.should_compact holds from this size
  Limit       \* ContextBudget.input_limit

ASSUME SizeAssumption == Trigger \in Nat /\ Limit \in Nat /\ Trigger <= Limit

VARIABLES
  log,        \* the session's events
  recovered,  \* the session started from a recovery snapshot of another
  lost,       \* commits whose checkpoint object can no longer be read
  phase,      \* where the session's one operation stands
  maintains,  \* that operation is an idle /compact, not a turn
  tries,      \* what the running loop does once: retry a rejected window, repair citations
  service,    \* the ContextService: _requested and _rejected_shape
  floors,     \* turns for which the estimator's floor was raised by 5/4
  pending,    \* the session is in _pending_compactions
  job,        \* the compaction in progress
  sent,       \* the request the model is answering
  asks, faults

vars == <<log, recovered, lost, phase, maintains, tries, service, floors,
          pending, job, sent, asks, faults>>

Event(kind, turn, of, flag, covers) ==
  [kind |-> kind, turn |-> turn, of |-> of, flag |-> flag, covers |-> covers]

User(turn)            == Event("user", turn, 0, FALSE, {})
Assistant(turn, call) == Event("assistant", turn, 0, call, {})
Result(turn, of)      == Event("result", turn, of, FALSE, {})
Revoked(turn, of)     == Event("revoked", turn, of, FALSE, {})
Prepared(turn)        == Event("prepared", turn, 0, FALSE, {})
Committed(turn, through, covers) == Event("committed", turn, through, FALSE, covers)
Failed(turn, cutoff, manual) == Event("failed", turn, cutoff, manual, {})
Ended(turn, completed) == Event("ended", turn, 0, completed, {})

NoRequest == [messages |-> {}, protected |-> {}, checkpoint |-> 0, withdrawn |-> {},
              repair |-> FALSE]
NoJob == [through |-> 0, cutoff |-> 0, manual |-> FALSE, calls |-> 0]
FreshService(requested) == [requested |-> requested, rejected |-> NoRequest]

-------------------------------------------------------------------------------
(* What the service reads in the log.                                      *)

Of(kind) == {i \in DOMAIN log : log[i].kind = kind}

Conversation == Of("user") \cup Of("assistant") \cup Of("result")

Withdrawn == {log[i].of : i \in Of("revoked")}

Live == Of("user") \ Withdrawn

Cutoff == Max({0} \cup Conversation)

Unanswered == {i \in Of("assistant") : log[i].flag} \ {log[i].of : i \in Of("result")}

Closed == Unanswered = {}

\* The newest commit whose object can be read; 0 is no checkpoint.
Checkpoint == Max({0} \cup (Of("committed") \ lost))

Through(checkpoint) == IF checkpoint = 0 THEN 0 ELSE log[checkpoint].of

Covers(checkpoint) == IF checkpoint = 0 THEN {} ELSE log[checkpoint].covers

\* base.metadata["turn_id"]: the turn of the last event.
LastTurn == IF log = <<>> THEN 0 ELSE log[Len(log)].turn

-------------------------------------------------------------------------------
(* The projection of the log that a request shows, and its estimated size. *)

TailFrom(through) == {i \in Conversation : i >= through} \ Withdrawn

TailOf(through) == {i \in Conversation : i > through} \ Withdrawn

\* With an empty tail the latest live statement is shown as the message.
Fallback(through) == IF TailOf(through) = {} /\ Live # {} THEN {Max(Live)} ELSE {}

ProtectedAll(through) == {i \in Of("user") : i <= through} \ Fallback(through)

\* The statements before the tail stay word for word.
Protected(through) == {i \in Live : i <= through} \ Fallback(through)

Summarized(through, checkpoint) ==
  [messages   |-> TailOf(through) \cup Fallback(through),
   protected  |-> Protected(through),
   checkpoint |-> checkpoint,
   withdrawn  |-> Withdrawn,
   repair     |-> FALSE]

Project(checkpoint) ==
  LET through == Through(checkpoint)
  IN  IF checkpoint = 0
        THEN [NoRequest EXCEPT !.messages = TailOf(0), !.withdrawn = Withdrawn]
        ELSE Summarized(through, checkpoint)

ShowsParent(request) == recovered /\ request.checkpoint = 0

Size(request) ==
  Max({1, Cardinality(request.messages)}) + Cardinality(request.protected)
    + (IF request.checkpoint = 0 THEN 0 ELSE 1)
    + (IF ShowsParent(request) THEN 2 ELSE 0)
    + (IF request.repair THEN 1 ELSE 0)

Estimate(request) ==
  IF LastTurn \in floors THEN (5 * Size(request) + 3) \div 4 ELSE Size(request)

-------------------------------------------------------------------------------
(* Ways an operation ends.  Both coordinator operations drop the pending   *)
(* compaction when they end.                                               *)

Init ==
  /\ log = <<>>
  /\ recovered \in BOOLEAN
  /\ lost = {}
  /\ phase = "idle"
  /\ maintains = FALSE
  /\ tries = {}
  /\ service = FreshService(FALSE)
  /\ floors = {}
  /\ pending = FALSE
  /\ job = NoJob
  /\ sent = NoRequest
  /\ asks = 0
  /\ faults = 0

EndWith(events) ==
  /\ log' = log \o events
  /\ phase' = "idle"
  /\ maintains' = FALSE
  /\ pending' = FALSE
  /\ job' = NoJob
  /\ sent' = NoRequest
  /\ UNCHANGED <<recovered, lost, tries, service, asks>>

\* _fail: the open calls are answered, then turn_failed is recorded.
Fail(turn) ==
  EndWith((IF Closed \/ phase # "batch" THEN <<>> ELSE <<Result(turn, Max(Unanswered))>>)
            \o <<Ended(turn, FALSE)>>)

Fault == faults < MaxFaults /\ faults' = faults + 1

-------------------------------------------------------------------------------
(* The coordinator.                                                        *)

Turns == {log[i].turn : i \in Of("user")}

\* TurnCoordinator.send: a new turn with the user's statement, which may
\* withdraw an earlier one ("withdraw constraint C<n>").
Send ==
  /\ phase = "idle"
  /\ Cardinality(Turns) < MaxTurns
  /\ LET turn == Cardinality(Turns) + 1
     IN  \E which \in {0} \cup (IF Cardinality(Withdrawn) < MaxWithdrawn THEN Of("user") ELSE {}) :
           log' = log \o <<User(turn)>>
                    \o (IF which = 0 THEN <<>> ELSE <<Revoked(turn, which)>>)
  /\ phase' = "opening"
  /\ tries' = {}
  /\ UNCHANGED <<recovered, lost, maintains, service, floors, pending, job, sent, asks, faults>>

\* The loop factory makes a new ContextService; a pending /compact is handed over.
EnterLoop ==
  /\ phase = "opening"
  /\ phase' = "top"
  /\ service' = FreshService(pending)
  /\ pending' = FALSE
  /\ UNCHANGED <<log, recovered, lost, maintains, tries, floors, job, sent, asks, faults>>

\* /compact of an idle session runs at once.
CompactNow ==
  /\ phase = "idle"
  /\ log # <<>>
  /\ asks < MaxAsks
  /\ asks' = asks + 1
  /\ phase' = "top"
  /\ maintains' = TRUE
  /\ service' = FreshService(TRUE)
  /\ UNCHANGED <<log, recovered, lost, tries, floors, pending, job, sent, faults>>

\* /compact of a busy session is queued.
QueueCompaction ==
  /\ phase \notin {"idle", "down"}
  /\ asks < MaxAsks
  /\ asks' = asks + 1
  /\ pending' = TRUE
  /\ service' = [service EXCEPT !.requested = TRUE]
  /\ UNCHANGED <<log, recovered, lost, phase, maintains, tries, floors, job, sent, faults>>

-------------------------------------------------------------------------------
(* ContextService.prepare_request.                                         *)

Wanted == service.requested \/ Estimate(Project(Checkpoint)) >= Trigger

Eligible ==
  LET through == Through(Checkpoint)
  IN  Cutoff > through /\ \E i \in Of("assistant") : i > through

HasFailedBefore == \E i \in Of("failed") : log[i].of = Through(Checkpoint)

HasFailed == \E i \in Of("failed") : log[i].of = Cutoff

\* A rejected preparation fails the turn; /compact reports it to the user.
Refuse == IF maintains THEN EndWith(<<>>) ELSE Fail(LastTurn)

\* A batch without all its results cannot be summarised: the request stays.
RefuseOpenBatch ==
  /\ phase = "top"
  /\ Wanted /\ Eligible /\ ~Closed
  /\ Refuse
  /\ UNCHANGED <<floors, faults>>

StartCompaction ==
  /\ phase = "top"
  /\ Wanted /\ Eligible /\ Closed
  /\ service.requested \/ ~HasFailed
  /\ phase' = "summarizing"
  /\ job' = [through |-> Through(Checkpoint), cutoff |-> Cutoff,
             manual |-> service.requested, calls |-> 0]
  /\ service' = [service EXCEPT !.requested = FALSE]
  /\ UNCHANGED <<log, recovered, lost, maintains, tries, floors, pending, sent, asks, faults>>

NoCompaction ==
  /\ phase = "top"
  /\ ~(Wanted /\ Eligible) \/ (Closed /\ ~service.requested /\ HasFailed)
  /\ phase' = "admit"
  /\ service' = [service EXCEPT !.requested = FALSE]
  /\ UNCHANGED <<log, recovered, lost, maintains, tries, floors, pending, job, sent, asks, faults>>

\* A maintenance call is archived before it is made; one stands for up to 8.
Summarize ==
  /\ phase = "summarizing"
  /\ job.calls = 0
  /\ log' = Append(log, Prepared(LastTurn))
  /\ job' = [job EXCEPT !.calls = 1]
  /\ UNCHANGED <<recovered, lost, phase, maintains, tries, service, floors, pending, sent, asks,
                 faults>>

FreshCovers ==
  {i \in Conversation : job.through < i /\ i <= job.cutoff} \ Withdrawn

\* The summary continues the previous one; withdrawn statements are left out.
NewCovers ==
  Covers(Checkpoint)
    \cup ({i \in Conversation : job.through < i /\ i <= job.cutoff} \ Withdrawn)
    \cup (IF recovered /\ job.through = 0 THEN {0} ELSE {})

\* The candidate's projection, which the checkpoint it will become shows.
Candidate == Summarized(job.cutoff, Len(log) + 1)

FreesCapacity ==
  /\ Estimate(Candidate) < Estimate(Project(Checkpoint))
  /\ Estimate(Candidate) < Trigger

\* The object is stored before the event that refers to it is recorded.
Commit ==
  /\ phase = "summarizing"
  /\ job.calls > 0
  /\ FreesCapacity
  /\ log' = Append(log, Committed(LastTurn, job.cutoff, NewCovers))
  /\ phase' = "admit"
  /\ job' = NoJob
  /\ UNCHANGED <<recovered, lost, maintains, tries, service, floors, pending, sent, asks, faults>>

\* No budget, an unusable summary, a provider error, a timeout, no improvement:
\* the cutoff is recorded as failed and the old projection stays.
FailCompaction ==
  /\ phase = "summarizing"
  /\ log' = Append(log, Failed(LastTurn, job.cutoff, job.manual))
  /\ phase' = "admit"
  /\ job' = NoJob
  /\ UNCHANGED <<recovered, lost, maintains, tries, service, floors, pending, sent, asks, faults>>

\* The message that asks for corrected citations comes on top of the projection.
Request == [Project(Checkpoint) EXCEPT !.repair = "repair" \in tries]

Admissible == service.rejected # Request /\ Estimate(Request) <= Limit

\* compact_now needs only the snapshot.
ReportCompaction ==
  /\ phase = "admit"
  /\ maintains
  /\ EndWith(<<>>)
  /\ UNCHANGED <<floors, faults>>

RefuseRequest ==
  /\ phase = "admit"
  /\ ~maintains
  /\ ~Admissible
  /\ Fail(LastTurn)
  /\ UNCHANGED <<floors, faults>>

SendRequest ==
  /\ phase = "admit"
  /\ ~maintains
  /\ Admissible
  /\ sent' = Request
  /\ log' = Append(log, Prepared(LastTurn))
  /\ phase' = "stream"
  /\ UNCHANGED <<recovered, lost, maintains, tries, service, floors, pending, job, asks, faults>>

-------------------------------------------------------------------------------
(* The loop.                                                               *)

Rounds(turn) == Cardinality({i \in Of("assistant") : log[i].turn = turn})

Answer ==
  /\ phase = "stream"
  /\ EndWith(<<Assistant(LastTurn, FALSE), Ended(LastTurn, TRUE)>>)
  /\ UNCHANGED <<floors, faults>>

CallTool ==
  /\ phase = "stream"
  /\ "repair" \notin tries
  /\ Rounds(LastTurn) + 1 < MaxRounds
  /\ log' = Append(log, Assistant(LastTurn, TRUE))
  /\ phase' = "batch"
  /\ sent' = NoRequest
  /\ UNCHANGED <<recovered, lost, maintains, tries, service, floors, pending, job, asks, faults>>

ToolReturns ==
  /\ phase = "batch"
  /\ log' = Append(log, Result(LastTurn, Max(Unanswered)))
  /\ phase' = "top"
  /\ UNCHANGED <<recovered, lost, maintains, tries, service, floors, pending, job, sent, asks,
                 faults>>

\* The provider refuses the window: reject_window, and once per turn a retry.
RejectWindow ==
  /\ phase = "stream"
  /\ tries = {}
  /\ Fault
  /\ floors' = floors \cup {LastTurn}
  /\ service' = [requested |-> TRUE, rejected |-> sent]
  /\ tries' = {"window"}
  /\ phase' = "top"
  /\ sent' = NoRequest
  /\ UNCHANGED <<log, recovered, lost, maintains, pending, job, asks>>

\* An answer with wrong citations is dropped, and asked for once more without tools.
RepairCitations ==
  /\ phase = "stream"
  /\ "repair" \notin tries
  /\ Fault
  /\ tries' = tries \cup {"repair"}
  /\ phase' = "top"
  /\ sent' = NoRequest
  /\ UNCHANGED <<log, recovered, lost, maintains, service, floors, pending, job, asks>>

StreamFails ==
  /\ phase = "stream"
  /\ Fault
  /\ Fail(LastTurn)
  /\ UNCHANGED floors

\* _fail could not answer the open call, and recorded turn_failed all the same.
AbandonBatch ==
  /\ phase = "batch"
  /\ Fault
  /\ EndWith(<<Ended(LastTurn, FALSE)>>)
  /\ UNCHANGED floors

\* Ctrl+C: the context builder lets it through, so that no end is recorded.
Cancel ==
  /\ phase \notin {"idle", "down"}
  /\ Fault
  /\ IF maintains \/ phase \in {"opening", "top", "summarizing", "admit"}
       THEN EndWith(<<>>)
       ELSE Fail(LastTurn)
  /\ UNCHANGED floors

-------------------------------------------------------------------------------
(* The process ends, objects are lost, and the session is resumed.         *)

\* /exit of an idle session, or a crash; a checkpoint object may be gone afterwards.
Stop ==
  /\ phase # "down"
  /\ Fault
  /\ phase' = "down"
  /\ maintains' = FALSE
  /\ service' = FreshService(FALSE)
  /\ floors' = {}
  /\ pending' = FALSE
  /\ job' = NoJob
  /\ sent' = NoRequest
  /\ \E gone \in SUBSET (Of("committed") \ lost) :
       Cardinality(gone) <= 1 /\ lost' = lost \cup gone
  /\ UNCHANGED <<log, recovered, tries, asks>>

LastEnd == Max({0} \cup Of("ended"))

\* The turns of the events after the last end of a turn.
OpenTurns == {log[i].turn : i \in {j \in DOMAIN log : j > LastEnd}}

\* Resuming closes an interrupted turn, and refuses a tail of several turns.
Resume ==
  /\ phase = "down"
  /\ Cardinality(OpenTurns) <= 1
  /\ phase' = "idle"
  /\ LET open    == {i \in Unanswered : log[i].turn \in OpenTurns}
         answers == IF open = {} THEN <<>> ELSE <<Result(log[Max(open)].turn, Max(open))>>
     IN  log' = log \o (IF OpenTurns = {} THEN <<>> ELSE answers \o <<Ended(LastTurn, FALSE)>>)
  /\ UNCHANGED <<recovered, lost, maintains, tries, service, floors, pending, job, sent, asks,
                 faults>>

-------------------------------------------------------------------------------

Service ==
  \/ RefuseOpenBatch
  \/ StartCompaction
  \/ NoCompaction
  \/ Summarize
  \/ Commit
  \/ FailCompaction
  \/ ReportCompaction
  \/ RefuseRequest
  \/ SendRequest

Loop ==
  \/ EnterLoop
  \/ Answer
  \/ CallTool
  \/ ToolReturns
  \/ RejectWindow
  \/ RepairCitations
  \/ StreamFails

Next ==
  \/ Service
  \/ Loop
  \/ Send
  \/ CompactNow
  \/ QueueCompaction
  \/ AbandonBatch
  \/ Cancel
  \/ Stop
  \/ Resume

Spec == Init /\ [][Next]_vars

-------------------------------------------------------------------------------
(* Properties.                                                             *)

Phase == {"idle", "opening", "top", "summarizing", "admit", "stream", "batch", "down"}

EventOK(i) ==
  /\ log[i].kind \in {"user", "assistant", "result", "revoked", "prepared", "committed",
                      "failed", "ended"}
  /\ log[i].turn \in 1..MaxTurns
  /\ log[i].of \in 0..(i - 1)
  /\ log[i].flag \in BOOLEAN
  /\ log[i].covers \subseteq 0..(i - 1)

RequestOK(request) ==
  /\ request.messages \cup request.protected \subseteq Conversation
  /\ request.checkpoint \in {0} \cup Of("committed")
  /\ request.withdrawn \subseteq Of("user")

\* Every event refers to earlier ones only, and the operation's state fits its phase.
TypeOK ==
  /\ \A i \in DOMAIN log : EventOK(i)
  /\ recovered \in BOOLEAN /\ maintains \in BOOLEAN /\ tries \subseteq {"window", "repair"} /\ pending \in BOOLEAN
  /\ lost \subseteq Of("committed")
  /\ phase \in Phase
  /\ service.requested \in BOOLEAN /\ RequestOK(service.rejected)
  /\ floors \subseteq 1..MaxTurns
  /\ job.cutoff \in {0} \cup Conversation
  /\ RequestOK(sent) /\ (sent # NoRequest => phase = "stream")
  /\ asks \in 0..MaxAsks /\ faults \in 0..MaxFaults

\* docs/modules/context.md - whatever was summarised, a request states each of the
\* user's live statements exactly once and word for word, and no withdrawn one.
StatementsKept ==
  phase = "stream" =>
    /\ Live \subseteq sent.messages \cup sent.protected
    /\ sent.messages \cap sent.protected = {}
    /\ (sent.messages \cup sent.protected) \cap Withdrawn = {}

\* Nothing of the conversation is lost between the summary and the messages, also
\* after a checkpoint object was lost; the same for the parent of a recovery session.
NothingForgotten ==
  phase = "stream" =>
    /\ (Conversation \ Withdrawn) \subseteq sent.messages \cup Covers(sent.checkpoint)
    /\ recovered => ShowsParent(sent) \/ 0 \in Covers(sent.checkpoint)

\* A request never shows one half of a tool call, and a checkpoint covers whole
\* tool batches only (context_runtime.py:292).
PairsWhole ==
  /\ phase = "stream" =>
       \A i \in Of("result") : i \in sent.messages <=> log[i].of \in sent.messages
  /\ \A i \in Of("committed"), c \in Of("assistant") :
       c <= log[i].of /\ log[c].flag => \E r \in Of("result") : log[r].of = c /\ r <= log[i].of

\* docs/architecture/v0.5-context-memory.md:210 - a compaction that failed is not
\* attempted again at the same position unless the user asks for it.
TriesOnce ==
  \A i, j \in Of("failed") : i < j /\ log[i].of = log[j].of => log[j].flag

\* application/session_recovery.py:184 - what a resume closes is one incomplete turn.
ResumeClosesOneOpenTurn ==
  phase = "down" =>
    /\ Cardinality(OpenTurns) <= 1
    /\ \A i \in Of("ended") : log[i].turn \notin OpenTurns
===============================================================================
