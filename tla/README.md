# jdagent: a verification development

TLA+ models of jdagent (`src/src/jdagent`), their model-checking
configurations for TLC and proofs checked by TLAPS.  jdagent is a coding agent
that runs on one machine: a user sends inputs to a session, a model answers
with text or tool calls, tools read and write files or run commands, and
everything that happens is appended to an event log from which a later process
resumes.

Contents: 1 inventory, 2 what is modelled, 3 how the model corresponds to the
code, 4 runs, 5 proofs, 6 findings, 7 what is not modelled, 8 plan.

## 1. Inventory

Paths are relative to `src/src/jdagent`.

| Component | State | Operations | Talks to | Correct when |
|---|---|---|---|---|
| Event journal (`eventing.py`) | the log read so far (`_events`), one writer lock | `record`, `emit`, `close_pending_calls` | session store below, observers above | memory is a prefix of the file; every declared call gets one result |
| JSONL session store (`adapters/jsonl_session.py`, `session_lock.py`) | one file per session, a table of leases, an OS lock | `append`, `read`, `acquire`, `release` | worker threads (`to_thread`) | an append has the next sequence or is refused; one process owns a file |
| Turn coordinator (`application/coordinator.py`) | active sessions, pending compaction flags | `send`, `compact` | journal, retrieval, loop, memory | no turn starts on a log whose effects are uncertain; every admitted turn ends |
| Native agent loop (`core/loop.py`) | locals of `run`: ids seen, counters, retry and repair flags | model calls, citation repair, tool batches, replanning | context service, model stream, tool runtime, journal | it ends; a finished turn pairs its calls; an id is executed once |
| Tool runtime (`tools/runtime.py`) | ids executed, rejected invocations | `execute`: checks, permission, start, handler, outcome | permission policy, approval, handlers, journal | start recorded before the handler; an unconfirmed effect is never reported as not executed |
| Permissions (`tools/permissions.py`, `application/approval.py`) | session rules in the log, ceilings | `decide`, grant, revoke | tool runtime, terminal | a rule raises only what may be asked, never a denial |
| Logical recovery (`application/session_recovery.py`) | none but the log | classify, close an interrupted turn, create a recovery session | store, journal, front ends | nothing unknown is forgotten or replayed |
| Physical recovery (`adapters/jsonl_recovery.py`) | the file, backups, a temporary copy | cut a torn last line | store | only an incomplete last line is removed, and a backup holds it |
| Context service (`context_runtime.py`, `context_archive.py`, `context_budget.py`) | checkpoints, compaction flags, context objects | `prepare_request`, compaction, archive | journal, model, memory | a checkpoint summarises a closed prefix that is still the prefix |
| Memory store (`memory_store.py`) | SQLite: intents, versioned records, jobs, budget | accept/apply intent, recall, claim, heartbeat, finish, reserve, settle | memory service | versions move by compare-and-set; one worker per job; budget never exceeded |
| Memory service, maintenance (`memory_service.py`, `maintenance.py`) | one model slot, leases on jobs | run pending jobs, heartbeat, prioritise the foreground | memory store, model | background work gives way and gives the slot back |
| Front ends (`application/interactive.py`, `adapters/terminal.py`, `headless.py`, `host.py`) | the running task, the reader task, a queue of actions, one open question | prompt, answers, Ctrl+C, Ctrl+D, `/new`, `/resume`, `/revoke`, `/compact` | coordinator, recovery, permissions | one operation at a time; an answer answers one question; the end of the input ends the program |
| LangGraph runner (`runtime/langgraph_runner.py`) | the state of one run of the graph | the same turn as a graph of nodes | as the loop | it keeps the turn's protocol on the file, within its step limit |
| Instructions (`instructions.py`) | discovered directory rules | begin, discover, acknowledge | tool runtime, context service | a write under rules not yet shown is replanned |
| Knowledge (`knowledge/`) | catalog, index, object store, operations with stages, leases | add, replace, hide, show, delete, retry, reconcile; freeze and search for a turn | vector index, embedding provider | a turn reads one revision; a file shows entirely or not at all; originals outlive their users |
| Tools (`tools/files.py`, `commands.py`, ...) | the workspace | edits, commands | operating system | an edit is applied or its state is unknown |
| Adapters, configuration, display | - | - | - | - |

**What is hard here.**  Everything runs in one asyncio loop, but appends run in
threads that a cancelled task does not stop; Ctrl+C can strike at every await
point; the process can die between any two writes; a tool's timeout races its
effect; and the only memory across all of that is the event log, read back by
code other than the code that wrote it.  Background memory work shares the
session leases and the model with the running turn.  `PROJECT.json` lists each
hazard at its line, with the properties that are about it.

## 2. What is modelled

The core is one process that drives turns over durable logs, with
cancellations, crashes, restarts and resumes.  Around it stand the file and
its lock, the second turn engine, the context of a request, the console with
its permissions, memory with its background jobs, and knowledge bases.

| Module | What it is |
|---|---|
| `SessionLog` | the event log as data: which calls a log declares, starts and answers, which are uncertain, classification, recovery snapshots and the recovery context |
| `TurnExecution` | coordinator, native loop, tool runtime, journal, late appends, crash and resume as one next-state relation |
| `TurnProtocol` | what any turn engine promises on the session file: declare a batch when none is open, answer open calls, end once when all are answered |
| `GraphRunner` | the LangGraph engine: nodes, edges, recursion limit, `run`'s error handling; implements `TurnProtocol` |
| `SessionLease` | the lease on one session: foreground operations and readings of it as a source by jobs, searches and compactions of several processes, appends under the file lock, late acquires, crashes |
| `JournalFile` | the bytes of one session: lines, payload objects, the cached tail, the repair of a torn line, several processes, death at every step |
| `ContextCompaction` | what requests show of a log that outgrows the window: projection, limits, compaction, checkpoints, withdrawn statements, `/compact`, resume |
| `Console` | the reader task, the main loop, the turn that asks for approval, the session's permission rules |
| `MemoryJobs` | the job table of `memory_store.py` and the maintenance tasks that claim, work on and finish its rows |
| `MemoryRecords` | versioned memories: intents of turns, candidates of jobs, searches that expire, verify and invalidate |
| `KnowledgeCatalog`, `KnowledgeIngestion` | the catalog's tables and leases; management commands step by step over catalog, index and objects, beside a turn that reads |
| `MCTurnExecution`, `MCSessionLease`, `MCJournalFile`, `MCMemoryJobs`, `MCMemoryRecords`, `MCKnowledge` | instances for TLC (symmetry sets, lengths of sequences, the behaviours followed); the other modules need none |
| `TurnExecutionProofs`, `GraphRunnerProofs`, `SessionLeaseProofs`, `JournalFileProofs`, `ContextCompactionProofs`, `ConsoleProofs`, `MemoryProofs`, `KnowledgeIngestionProofs` | the proofs, each about the module it is named after; `MemoryProofs` is about `MemoryJobs` and `MemoryRecords`, which it extends both: that is why the specification of the second is called `RecordsSpec` |

**How they fit.**  `TurnExecution` uses `SessionLog`.  It takes for granted that
one process writes a file and that a restart finds whole lines; the first is
the subject of `SessionLease`, the second of `JournalFile`, whose leases are
taken and dropped at any time, as `SessionLease` allows.  `GraphRunner` and `TurnExecution` are two
engines for the same turn: the first shown to implement `TurnProtocol`, the
second followed over sessions and recovery.  `ContextCompaction` sees a turn
as messages and results, `Console` as questions and effects.  `MemoryJobs`
shares out the work whose results `MemoryRecords` receives as candidates.
`KnowledgeIngestion` extends `KnowledgeCatalog`.

Besides the actions of `Next`, the modules hold a few definitions that no
formula uses (`RetryAppend`, `FailUnpaired`, `CheckOwner`, `AnySequence`,
`GrantedRules`, ...).  Each is a definition of the code gone wrong in one
plausible way, and `PROJECT.json` says which property then fails.

## 3. Model and code

### The turn: `SessionLog`, `TurnExecution`

**State.**  `disk[s]` is the file of session `s` as fsynced; `mem` is
`EventJournal._events` of the running operation; `pc` is the await point it
has reached; `run` holds the locals of `send`, `AgentLoop.run` and
`ToolRuntime.execute` that decide anything; `snapshot` is the recovery
snapshot about to be written or the one a resolution refers to; `cur` is the
session in use; `orphans` are appends whose awaiting task was cancelled while
their thread had already taken them up.  `happened[s][c]` is not state of the
program: it counts how often the handler of call `c` really acted, so that the
logs can be compared with the world.

**Records.**  Most of the program's await points are `journal.record(...)`.
`PendingEvent` and `AfterRecord` are tables by `pc`: what is appended there
and where the operation goes on.  Three actions then serve all of them:
`RecordStep`, `RecordConflict` (the store refuses the sequence because the
file is ahead) and `CancelRecord` (Ctrl+C strikes inside the append).  Which
handler catches the exception depends on the point: the model stream and
`execute` turn it into a failed turn (`InStream`, `InExecute`), resuming is
shielded by `complete_before_cancel` (`InResume`), anywhere else the
operation is over and its turn stays open.  A failure that `AgentLoop.run`
handles inside the `try` around the stream has record points of its own
(`rec_stream_*`, `FailInStream`): an exception there is caught once more,
and the turn's failure recorded again.

**Actions of the turn.**  `Send` opens a journal on an admissible log;
`RejectInput`, `ResolveOperation`, `PrepareKnowledge` and `EnterLoop` are the
rest of `TurnCoordinator.send`.  `PrepareRequest` to `RequestTools` are
the loop up to an assistant message: limits, failed stream, context retry,
citation repair.  `NextCall` to `ReportResult` are the batch and
`execute`: a call is refused, replanned, denied or allowed, started, its
handler acts (`HandlerActs`) and returns or is lost to a timeout or an
exception.  `Fail` closes the open calls of the turn (one
`execution_completed` each) and records `turn_failed`.

**Recovery.**  `Crash` loses everything but `disk`; `ResumeClean`,
`ResumeInterrupted` (one turn is open) and `ResumeUncertain` (creates a
session with a snapshot of the unknown operations) are the three outcomes of
`prepare_session_resume`, at start-up or by `/resume`.  The second reads and
classifies only.  `ResumeReopens` is a later step: it opens the journal anew
(`session_recovery.py:267`) and closes the turn that the first reading found
open.  A late append, the late end of that very turn included, may land
between the two.

**Abstractions.**  An event is its type, turn, calls, effect and, for
snapshots, parent and safe prefix.  A call is its id and whether its tool has
WRITE or EXECUTE risk.  The order in which the calls of one response are
executed is left open.  The three permission records of one decision are one
event.  What a model answers and what a handler does are free choices, except
that a handler of a READ tool does not act on the world and that one which
returns says truthfully whether it acted.

### The LangGraph engine: `TurnProtocol`, `GraphRunner`

`mem`, `disk` and `orphan` are as above, for one turn.  `pc` is the node that
runs next or the await point inside one; `state` is `_TurnState`; `steps` is
LangGraph's own count against `recursion_limit` (`StepLimit`); `finishing` is
`_Execution.finishing`, `raising` says that `run` will re-raise after `fail`.
`GoTo` takes an edge, and ends the turn as `graph_step_limit` when the count
is used up.  A cancellation (`Cancel`) goes to `run`, which fails the turn
once (`Unwind`); an observer that raises (`NodeRaises`) goes to `CatchError`.
The abstract state of `TurnProtocol` is read off the session file: calls
declared and not answered, calls answered, whether the end is there.  A late
append is a step of the file like any other, so the refinement covers it.

### The file: `JournalFile`, `SessionLease`

In `JournalFile`, `file` is the sequence of lines at the path, each with the
event it carries, its sequence number, whether its payload is an object of its
own and whether it is whole; `inode` says which file the path names, `version`
stands for size and modification time.  `kept[p]` is the session's membership
in `_leases` of process `p`, `lock` the OS lock, `tail[p]` the cached
`_tails` entry, `at[p]` and `local[p]` the one storage thread that the file
lock lets run.  Appending is put the object (`PutPayload`), write a part
(`WritePart`), write the rest to the file that was opened (`WriteRest`), fsync
and cache (`Sync`); it can fail or the process can die in between.  Repairing
is read (`ReadTorn`), back up, copy, replace.  `TakeLease` and `DropLease` are
the operations of `SessionLease` as an environment.  An append holds the lease
guard, so neither can happen within it; a repair holds none, and a reader of
sources in its process may drop its lease (`local[p].lost`).  `overrun` is
history: such a repair has put its copy in place.  Not modelled: what a
loss of power does to bytes already written, and opening the file apart from
its first bytes.

In `SessionLease`, `fg[p]` and `bg[p]` are the await points of the foreground
operation (`op[p]`: send, compact or resume) and of the reader of sources
(`MemoryService.source` and the publication of a job, which does the same over
several sessions).  Every process has such a reader: a job where maintenance
runs, and without it `search_memory` of a turn in another session or of the
requests a compaction prepares.  Only `send` enters the session in `active_sessions`
(`active[p]`), so the reader below a compaction reads, and gives back, the
compaction's own session.  `already[p]` is `already_owned` of `ownership`, `late` the
processes whose cancelled acquire is still in a thread; `robbed` is history: the
operations whose lease a reader of their own process has released.  `AppendEvent` is
atomic because the file lock and the lease guard are held throughout; a lease
it takes for itself is gone when it returns, so that another process that
tries meanwhile is refused (`MayBeBusy`) although no lease is kept.

### The context: `ContextCompaction`

`log` is the session's events, reduced to messages (`user`, `assistant`,
`result`), withdrawals, committed and failed compactions, prepared requests
and ends of turns.  `service` is the state of one `ContextService`, a new one
for each turn and each `/compact`; `phase` is the await point; `job` is a
compaction under way; `sent` is the request the provider sees: messages, the
protected statements before them, the checkpoint.  `lost` are checkpoints
whose object cannot be read, `floors` the turns whose window was found smaller
than configured.  `Project` chooses what is shown, `Wanted`, `Eligible` and
`HasFailed` whether to compact, `Commit` and `FailCompaction` how it ends.
Sizes are small numbers: a message, a protected statement and a summary weigh
one, the history of a parent session two.  Texts, token counts of providers
and the archive are left out.

### The console: `Console`

`raw` is a line that `prompt_async` has returned, `queue` the reader's actions,
`line` the future of the open question (its state is `none`, `open`,
`answered`, `eof` or `cancelled`), `app` the main loop, `turn` the turn's task
with its `ToolRuntime` (rejected invocations, projected rules), `log` the
permission facts of each session, `ceiling` the configured permissions.
`Route` is what `_read_input` does with a line: answer, queue, both (Ctrl+C
and Ctrl+D), and it reads whether a question is open at that time only.
`TakeIdle` and `TakeRunning` are the two loops of `InteractiveApplication`.
`Request` to `Resolve` follow `ToolRuntime.execute` through `ScopedApproval`
and the questions of the terminal; a shared command prefix takes three of them.
A rule covers its target only or all targets of its kind (files under a
directory; commands with a prefix).  Calls are to files and commands: the memory
tools, which `tools/runtime.py:186-191` allows without a question when the
user's input stated the intent, are outside.  `Cancelled` closes a cancelled turn
wherever it is, as the LangGraph engine does; the gaps of the native loop are
in `TurnExecution`.  `consents` and `interrupts` count what the user typed.

### Memory: `MemoryJobs`, `MemoryRecords`

`jobs`, `queue`, `done` and `extracted` are the tables: rows, their order,
finished sources, first-stage answers.  A job is <<session, n>>, its n-th
continuation.  `at[w]` and `work[w]` are the await point and the locals of
`run_pending` and `_run` in worker `w`; `late` holds claims and publications
whose task was cancelled or timed out while their transaction was in a thread.
Times are reduced to what they decide: `live` (expires > now) and `ready`
(next_run <= now).  A heartbeat in time then changes nothing, and `Expire` of
a job with a holder is a fault.  `content` counts the changes of a session.
Candidates, evidence and the budget are the choice between an answer and
`StepFails`.

`MemoryRecords` has the records those jobs publish.  `versions[id]` is the
history of a memory, each version with its state, date, dependencies and who
wrote it; `intent[t]` is the accepted request of turn `t` with the version it
expects; `verified[t]` what `update_memory` found out about its dependencies
before the transaction; `search` is one `search_memory` between its
transactions (`Recall`, `CheckDependency`, `InvalidateDependency`, `Show`).
`SourceChanges` makes a dependency bad at any time.  Scopes, statements,
ranking and budgets are left out.

### Knowledge: `KnowledgeCatalog`, `KnowledgeIngestion`

`KnowledgeCatalog` holds the tables (bases with a revision, sources,
versions, operations with their stage, leases, bindings, chunk registrations)
and one operator per transaction.  SQLite makes each transaction atomic; what a
method reads before it is not part of it.  In `KnowledgeIngestion`, `index` and
`objects` are the two stores beside the catalog, `at[w]` and `work[w]` a
management command in its process, `turn` a turn that freezes a base's
revision and searches later.  Every await and every transaction boundary of
`add_file` is a step of its own, from `Receive` to `Finish`; hiding, showing
and deleting close or copy chunks first and commit a revision afterwards.

The lease is taken in two steps, because `acquire_lease` reads in autocommit
(`catalog.py:474-493`) and replaces the row in a later transaction
(`:513-526`), under a lock that other processes do not see: `CheckLease` reads,
`TakeLease` (or `TakeOver`, for `reconcile`) writes, whatever has happened in
between.  So do `Expire` and `List`, the first reads of `reconcile`.  A lease expires
at any time (`LeaseExpires`), since nobody renews it.

`Crash` stops a command anywhere; `ProviderFails` and `IndexFails` make it raise,
the second after a part of its request may have been applied.
`Retry` and `reconcile` go on from the stage that the operation's row says.
`amiss` is history.  It notes when the code has let happen what its lease or its
stages are to prevent: `lease`, two commands have worked under it; `stale`, a
command went on from a row that was no longer so; `adopted`, an addition that replaces
nothing went on over a source that shows a version; `torn`, a command that hides or
shows ended between the index and the commit.  The four have lines of their own in section 6.
A version's chunks are one entry of the index per copy; copies of a version, which
showing a source makes, are numbered.  Parsing, embedding, ranking, evidence
budgets and citations are left out.

## 4. Runs

| Run | Instance | Shows |
|---|---|---|
| `turns` | 2 writing calls, 2 sessions, 2 turns, 2 faults, 1 late append | no effect is lost (`EffectAccounted`) or repeated (`AtMostOnce`) over recovery; nothing follows a turn's end but the one interruption of a resume whose second reading found the end; a recovery session's model is told what is unknown |
| `batch` | a writing and a reading call, 2 sessions, 1 turn, 3 model and 3 tool calls, 1 failure recovery, 2 faults, fairness | starts are durable before handlers act; an ended turn pairs each call with exactly one result; the journal is a prefix of the file; every operation ends |
| `graph` | 2 calls, 3 model and 2 tool calls, 1 failure, 2 cancellations, 1 fault | the engine implements `TurnProtocol`; its step limit suffices; a result means that the end is on file, and only a fault or a second interruption leaves a turn open |
| `lease` | 2 processes, each with a reader of sources, 3 operations that open a journal, 3 lines, 2 faults | the lines of two operations never mix; an operation owns the session throughout, unless a reader of its own process has released the lease |
| `journal` | 2 processes, 3 events, large or small, 2 repairs, 3 faults, leases dropped under a repair | until a repair that lost its lease has replaced the file: only the last line is ever torn; acknowledged events stay; nothing leaves the file before a backup holds it |
| `compaction` | 2 turns of up to 3 answers, 1 withdrawal, 1 `/compact`, 1 fault; compaction from size 5, window of 6 | every live statement is stated once, everything else shown or summarised; tool batches stay whole; a failed compaction is not tried again at its place |
| `console` | 2 sessions, 2 files and 1 command, 4 lines or keys, 3 calls a turn, fairness | what acts was approved or is covered by a rule in force; a rejection holds for its turn; no line approves two calls; Ctrl+D ends the program |
| `jobs` | 2 workers, jobs of 2 of 3 sessions, one of them not clean; batches of 1 source, 2 attempts, 2 continuations, 2 faults | types; one holder at a time; settled jobs stay settled; a valid claim ends with its holder; no source is forgotten |
| `records` | 2 memories, 2 turns, 1 candidate, 1 dependency, 1 passing of time, 2 changes, 2 searches, 4 versions | a source makes one memory; a disabled one is not made active by a correction; what is shown was verified by that search |
| `knowledge` | 2 writers, 1 base, 2 files, 2 contents, 3 operations, 3 versions, 1 fault, any commands at once | until the lease has failed: a turn reads one revision; originals are kept; revisions grow; and until in addition a source was adopted or a command torn, a file shows entirely or not at all |
| `resume_refused` | violated | after `/compact` of an idle session the next resume takes its completed turn for an interrupted one |
| `double_cancel` | violated | one Ctrl+C at a question cancels twice and leaves the turn without an end |

The properties of each run, as its configuration names them:

| Run | Properties |
|---|---|
| `turns` (`Turns.cfg`) | `TypeOK`, `EffectAccounted`, `AtMostOnce`, `TurnEndsOnce`, `RecoveryTellsUnknown` |
| `batch` (`Batch.cfg`) | `WriteAhead`, `EndedTurnIsPaired`, `JournalPrefix`, `OperationEnds` |
| `lease` (`Lease.cfg`) | `TurnsDoNotInterleave`, `OperationOwns` |
| `jobs` (`Jobs.cfg`) | `TypeOK`, `OneHolder`, `NoSourceForgotten`, `SettledIsFinal`, `ClaimEndsWithHolder` |
| `knowledge` (`Knowledge.cfg`) | `EvidenceIsFrozen`, `OriginalsKept`, `AllOrNothing`, `RevisionsGrow` |
| `compaction` (`Compaction.cfg`) | `StatementsKept`, `NothingForgotten`, `PairsWhole`, `TriesOnce` |
| `resume_refused` (`ResumeRefused.cfg`) | `ResumeClosesOneOpenTurn` |
| `graph` (`Graph.cfg`) | `StepLimitSuffices`, `EndIsOnFile`, `ImplementsProtocol` |
| `records` (`Records.cfg`) | `OneMemoryPerSource`, `DisabledStaysDown`, `VerifiedWhenShown` |
| `console` (`Console.cfg`) | `TypeOK`, `EffectIsAllowed`, `RejectedStaysRejected`, `ApprovalsAreAnswered`, `EofEndsTheApp` |
| `journal` (`Journal.cfg`) | `OnlyTailIsTorn`, `AcknowledgedStays`, `NothingIsErased` |
| `double_cancel` (`DoubleCancel.cfg`) | `OneInterruptClosesTheTurn` |

**Bounds.**  `MaxSessions`, `MaxTurns`, `MaxOrphans`, `MaxFaults` and the like
bound counters the program does not bound; limits of the program (`LoopLimits`,
`BatchSize`, `Retries`, the window) are parameters, taken small.  A loss of an
effect needs one turn to act, one fault to interrupt it and a resume that
reads the log: two sessions (the second a recovery session), two turns and
two faults leave room for a fault inside the recovery too; with a second writing
call the parent can go on to a new unknown operation after its recovery
session was made.  Two calls of
different risk are enough for the pairing of a batch, since calls interact
only by being open at the same time.  For `lease`, mixing needs a line of one
operation between two of another: three lines; three operations
leave room for a third party.  For `journal`, a lost line needs one process to
repair while another writes; two repairs and three faults let a repair meet the
remains of a dead one; a third event is there to be acknowledged before.  For `compaction`, three answers in each of two turns let
a second checkpoint build on a first, and the object of the second be lost.
For `console`, a rejection that a wider rule could undo takes a prompt, a
rejection, a grant and a third call.  For `jobs`, three sessions give a job two
sources, so that a batch of one leaves one behind; two continuations let the
second fault hit a continuation.  For `records`, two turns race for one version
while a search runs; four versions hold creation, disabling, expiry and
correction.  For `knowledge`, two writers and three operations let a
replacement, a deletion and a retry meet.  What TLC follows there is cut further
by the constraint `Followed` of `MCKnowledge`, since everything at once is
more than TLC can enumerate in minutes: behaviours end where the lease has failed; a base is
unbound before it has a version or not at all; a turn that has found its
evidence ends before commands go on; and commands overlap through a failure or
through an expiry, not through both.  The proofs have no such constraint.

Larger instances were checked without an error too, too long to repeat each
time: `graph` with 3 calls and 3 tool calls (5.3 million states), `compaction`
with 3 turns of 2 answers (1.8 million), `records` with 3 turns (9.7 million)
or 2 passings of time (5.2 million).  Processes, workers, writers, memories and turns
are symmetric where the configuration says so; sessions of a job are not,
since they are read in order.  Deadlock is not checked: when the bounds are
used up, the model may stop.

**Assumptions of an instance.**  `batch` and `turns` check with
`ReusesIds = FALSE`: the provider does not repeat a call id.  Nothing else is
assumed of the environment.

**What the properties leave open.**  Four places in the code can break what its
documents promise (section 6: the shared lease, the repair that lost its lease, the
two readings of a resume, the catalog's lease).  There the model does what the code does, a
history variable or the log itself says that it has happened, and the property claims what
holds otherwise: that this is the only way.  `OperationOwns` excepts operations that
were `robbed`; the three properties of `JournalFile` end with `overrun`;
`TurnEndsOnce` allows a `turn_interrupted` directly after the end of its turn;
those of `KnowledgeIngestion` end where `amiss` says so.  Each of these
exceptions was seen to be needed: without it TLC finds the property violated.

**Type invariants.**  Every module states `TypeOK`.  Its theorem is part of
every proof module, as `TypeOK` itself or as the first conjunct of the
inductive invariant; for knowledge, see section 5.

**Fairness.**  `FairSpec` of `TurnExecution` asks that a running operation takes
some step.  The model stream and the tools run under timeouts, appends return or
fail, and an approval prompt is taken to be answered.  Nothing is assumed of
cancellations, crashes, restarts or resumes.  `OperationEnds` then depends on
the counters of the loop: context retry, citation repair, replanning and
failure recovery all lead back to its top.  `FairSpec` of `Console` asks that
the reader, the main loop and the turn's task run when they can, as tasks of one
event loop do; the user owes nothing, so a question may stay open for ever.

**Not by construction.**  Each property of a passing run fails when one
definition is changed the way a bug would change it: e.g. a timed-out handler
that reports `none`, a late append that ignores the sequence, an append under a
lost lease that does not compare it, a lease check that forgets the epoch, a
cancelled turn whose question stays open, a revocation that is not projected,
a repair without the lease, a backup that is not made, a summary that forgets what the last one covered.

## 5. Proofs

The theorems hold for every set of calls, every bound and any number of
faults, sessions, turns, late appends, processes, workers, jobs and memories.
Besides the assumptions on constants that the modules declare (types of the
bounds, finitely many calls, distinct names), hypotheses are named in the
column "where".

| Theorem | States | Where |
|---|---|---|
| `TypeCorrect` | `Spec => []TypeOK` of `TurnExecution` | |
| `JournalIsPrefix` | `Spec => []JournalPrefix` | |
| `StartsAreDurable` | `Spec => []WriteAhead` | |
| `CallsActOnce` | `Spec => []AtMostOnce` | |
| `TurnsEndOnce` | `Spec => []TurnEndsOnce` | |
| `EffectsAreAccounted` | `Spec => []EffectAccounted` | `ReusesIds = FALSE` |
| `EndedTurnsArePaired` | `Spec => []EndedTurnIsPaired` | `ReusesIds = FALSE` |
| `RecoveryTells` | `Spec => []RecoveryTellsUnknown` | `ReusesIds = FALSE` |
| `EngineImplementsProtocol` | `Spec => ImplementsProtocol`: `GraphRunner` refines `TurnProtocol` | |
| `ResultsAreOnFile` | `Spec => []EndIsOnFile` | |
| `LimitIsNeverReached` | `Spec => []StepLimitSuffices` | |
| `LinesStayTogether` | `Spec => []TurnsDoNotInterleave` of `SessionLease` | |
| `OwnersAreExclusive` | `Spec => []OperationOwns` | |
| `LeaseTypes` | `Spec => []TypeOK` of `SessionLease` | |
| `TailAloneIsTorn` | `Spec => []OnlyTailIsTorn` of `JournalFile` | |
| `NothingAcknowledgedIsLost` | `Spec => []AcknowledgedStays` | |
| `ErasedIsBackedUp` | `Spec => NothingIsErased` | |
| `StatementsAreKept` | `Spec => []StatementsKept` of `ContextCompaction` | |
| `NothingIsForgotten` | `Spec => []NothingForgotten` | |
| `PairsAreWhole` | `Spec => []PairsWhole` | |
| `FailuresAreNotRepeated` | `Spec => []TriesOnce` | |
| `ConsoleTypes` | `Spec => []TypeOK` of `Console` | |
| `EffectsAreAllowed` | `Spec => []EffectIsAllowed` | |
| `RejectionsStand` | `Spec => []RejectedStaysRejected` | |
| `ApprovalsComeFromLines` | `Spec => []ApprovalsAreAnswered` | |
| `JobTypes` | `Spec => []TypeOK` of `MemoryJobs` | |
| `OneWorkerHolds` | `Spec => []OneHolder` | |
| `SettledJobsStay` | `Spec => SettledIsFinal` | |
| `ClaimsEndWithHolder` | `Spec => ClaimEndsWithHolder` | |
| `NoSourceIsForgotten` | `Spec => []NoSourceForgotten` | |
| `OneMemoryForEachSource` | `RecordsSpec => []OneMemoryPerSource` of `MemoryRecords` | |
| `DisabledStays` | `RecordsSpec => []DisabledStaysDown` | |
| `ShownIsVerified` | `RecordsSpec => []VerifiedWhenShown` | |
| `FrozenEvidence` | `Spec => []EvidenceIsFrozen` of `KnowledgeIngestion` | |
| `OriginalsStay` | `Spec => []OriginalsKept` | |
| `RevisionsOnlyGrow` | `Spec => RevisionsGrow` | |

**The turn** (`TurnExecutionProofs`).  A chain of inductive invariants, each
relative to the ones before:

1. `TypeInv`.  `TypeOK` is not inductive alone: a closing record names a
   pending call, chosen by CHOOSE, so there must be one.
2. `JournalInv`.  `JournalPrefix` does not survive a late append unless the
   late append is known to be at most one line beyond the journal, and,
   once it has landed, every other one is known to be refused.
   While a handler runs nothing can land at all, because the start record was
   just accepted.
3. `StartInv` = logs, world, batch.  Every line about a call, and every late
   append that can still land, finds the call declared in its turn
   (`LogInv`).  The ids the loop has seen contain everything started
   (`BatchInv`), because it enters with all declared ids and adds each call it
   takes up; a batch has no seen id, so the call taken up was never started,
   so it has never acted.  That gives `WriteAhead` and `AtMostOnce`, and it
   does not need unique ids.
4. `EffectInv`.  No result, in a file or able to land, says `none` of a call
   that acted.  For the result of the call itself that follows from what the
   handler reported.  The closing of a batch however looks only for starts
   of the running turn, so the proof needs that a call is declared, started and
   answered in one turn, hence that ids are not declared twice: exactly the
   assumption `ReusesIds = FALSE` without which TLC finds the property
   violated (section 6).  `EffectAccounted` follows: a call that acted was started, so
   without a result it is uncertain, and with results the last of them says
   `applied` or `unknown`.
5. `EndInv`.  An operation records only for a turn that has not ended, and ends
   it once nothing of it is open: the open calls of the running turn are those
   of its batch (`OpenInv`).  A late append fits the file it lands on in the
   same sense (`EndFits`).  A resume is the exception: it records for the turn that
   its first reading found open.  By then the journal it has opened anew is
   either as that reading was or one late append longer, and if that is
   the turn's end, it is the last line (`JustEnded`), so the interruption comes
   directly after it.  Needs nothing of ids.
6. `ResultInv`.  A result answers calls that have none, in the file and where a
   late one would land; with `TurnsEndOnce` an ended turn pairs its calls.
7. `RecoveryInv`.  A snapshot tells what its parent has left unknown for as long
   as it is *standing*: no turn of the parent has ended safely since.  While it
   stands the parent is in use only to be resumed, and a late append to the
   parent can answer a call but not start one, for a start can only be late
   when nothing was unknown.  `RecoveryParts` is a recursive function over the
   sessions; its defining equation is proved for the function that CHOOSE
   selects, by building one session by session.

**The LangGraph engine** (`GraphRunnerProofs`).  `OrderInv`: the file is the
journal or one late append longer, and a late append is legal for the protocol
where it would land.  `NodeInv`: what each node knows of the calls that are
open, e.g. none between batches, the batch itself at `tool`.  Every step
then changes the file by nothing or by one legal event, which is a step of
`TurnProtocol` or none.  `StepInv` counts the nodes entered against the model
and tool calls made (five for an answer, one for a tool, and what the retry and
the repair add once), so the limit the graph is compiled with is not reached.

**The lease and the file** (`SessionLeaseProofs`, `JournalFileProofs`).
`LineInv` says that operations write under different
numbers, that no line has a number not yet given out, and that a turn which
has written was the last to write as far as its journal goes (`WrittenBy`): an
append is accepted only at the end of that journal, so the line before it is
its own or it is its first.  Nothing is said of the lock, which is the point:
the sequence check suffices.  For `OperationOwns` two facts about a step are
enough (`LockMoves`, `OwnerKeeps`): a lock that is held passes to nobody else, and of the
steps that drop it only `ReleaseSource` can be taken while an operation of the
same process relies on it; that step writes `robbed`.
For the file the lock is needed: `OwnerInv` (who appends or repairs has the lock)
makes the lines, the cached tails and what a repair has read stay true
(`LinesInv`, `CacheInv`, `AppendInv`, `RepairInv`).  A repair whose lease was
dropped may copy what another process then appends to.  What it has read is
of no consequence until it replaces the file, so `RepairInv` speaks of repairs that
have their lease, and the invariant is `overrun \/ FileInv`: the replacing
step either has the lock or sets `overrun`, and nothing else disturbs the rest.  `OwnerInv` and
the types hold without exception.

**The context** (`ContextCompactionProofs`).  `LogInv` describes the logs a session can
have: results answer earlier calls once, withdrawals name statements, a
committed checkpoint ends where all calls are answered and its summary has
everything up to there (`Sound`), a failure is repeated on request only.  `Fits` is what an
event needs to be added to such a log, and each action adds events that fit:
for a checkpoint that follows from `JobInv`, what the compaction under way
knows, which nothing can invalidate because `ContextService` works alone.
The properties of a request then hold when it is sent, and nothing is written
while the model answers.

**The console** (`ConsoleProofs`).  Each property says of each fact of a log
that earlier facts justify it, so a step has to justify the fact it adds
(`FactInv`).  `TurnInv` is what the running turn knows: it remembers the
rejections since it began, its rules are granted and not revoked, and when it
starts a call the last fact approves it or a rule covers it.
`ConsentInv` counts approvals in the logs, and the one that is answered but not
yet recorded, against the lines typed; that the sets counted are
finite is part of the invariant, so nothing is assumed of the number of sessions.

**Memory** (`MemoryProofs`).  `JobsStep` lists
once what a step can do to the table, and every argument then goes through
that list.  `HeldAlone` (one row running and alive) is inductive because a
claim looks for such a row in its own transaction, whichever job it is after.
That a settled row stays settled needs no invariant beyond the types: a claim
takes pending or running rows, everything else is behind `_check_lease` or
creates a missing row.  `ClaimsEndWithHolder` needs `FenceInv`: no lease has a
later epoch than its row, no two workers have equal leases, and no worker at
work has the lease of a publication that goes on in a thread.  The owner alone
would not do, since a cancelled worker and its next claim have the same owner.
`NoSourceIsForgotten` rests on `ReadInv` (a worker, and a late publication, has
accounted for every readable source: still to read, read, extracted before or
deferred) and `ChainInv` (a job that succeeded with something deferred has a
continuation).
For the records, `SourceInv` ties each memory to the turn or candidate that made it,
`DownInv` says of all pairs of versions what may follow a disabled one, and
`SearchInv` that a memory without a version the search has not seen is as the
search found it, and does not depend on what the search has found bad.

**Knowledge** (`KnowledgeIngestionProofs`).  What is proved inductive is
`Apart => IInv`, with nothing assumed of the lease: the step that writes the lease finds
the facts its checks stand for, or it marks `amiss`.  `IInv` says at each await point what a
command knows (`Own`): which operation it runs and at which stage
(`Kinds`), that the base and the source it has read are still so (`Current`), that its
version and its original exist (`Stored`), that no chunk of its version is
written yet (`Fresh`).  Most of that is said only of a command *under* the lease, between
having written it and giving it back.  Of the others it says what nobody takes back:
versions, rows of operations, stages that do not return.  `AloneInv` has that two
commands are not both under the lease, and that an operation which cannot be
retried yet has one command.  So no other
command can falsify what one knows: outside the lease a step touches neither index, sources nor
bases, but for a resumed addition that brings its row up to date (`ResumeIndex`), and
inside there is one command.  So what is written begins, and what is
closed ends, at the revision after the current one, and a frozen revision is not later
than the current one (`FrozenInv`); closing and writing at a later revision do not change what
an earlier one shows (`ShowsClosed`, `ShowsGrown`).  Copies of a version are
numbered by counting chunks, so the proof counts them too (`IndexSound`).  A
purge needs that no operation is half done, which it found out when it took
the lease (`RowsSound`, `Kinds`): such an operation could still make its version
current after the original is gone.  Each action has one lemma,
and `WriterStep` derives the invariant from what any of them may do
(`Effects`).

**TLC first.**  Each strengthened invariant was checked by TLC on the instance
of its run before it was proved.

**Only model-checked.**  `OperationEnds` and `EofEndsTheApp`, which are liveness
under fairness and out of reach for TLAPS; `AllOrNothing`, whose proof would have to
say what every source will show after the next commit of each operation that is half done; and
`TypeOK` of `KnowledgeIngestion`, which is proved up to the failure of the lease
(`Shapes`, part of `IInv`).

## 6. Findings and observations

Two findings have a run of their own.

- `resume_refused` (`context_runtime.py:479`, against the line quoted from
  `application/session_recovery.py:249`): `/compact` of an idle session
  records its events under the number of the turn that has completed, after
  that turn's end.  `classify_logical_recovery` then sees an open turn; the next
  resume appends `turn_failed(process_interrupted)` to a completed turn, and if
  the following turn is interrupted, two open turns make the session
  impossible to resume.
- `double_cancel` (`adapters/terminal.py:168`): Ctrl+C at an approval question
  cancels the question and also queues the action that cancels the turn.  The
  second cancellation interrupts the closing of the turn, so its end is not
  recorded, with either engine.

The following were met while modelling; where it says so, the model shows them
with another value of a constant.

*Turns and recovery*
- A Ctrl+C inside the record of an assistant message leaves its calls open and
  the turn without an end, and `send` starts the next turn over them
  (`core/loop.py:445`, against `docs/modules/sessions.md:50-52`).  A second
  interruption leaves two open turns, which `close_interrupted_turn` refuses.
- `recover` classifies one reading of the log, and `close_interrupted_turn` opens
  the journal again (`application/session_recovery.py:139-145`, `:267`).  If the
  turn was cancelled while its end was being appended, that append may land
  in between: then the resume records a second end, `process_interrupted`, for a
  turn that has ended (against `docs/architecture/v0.6-langchain-langgraph.md:241`,
  `docs/modules/runtime.md:69` and the comment at `session_recovery.py:249`).
  It takes a cancellation, then `/resume` in the same process before the thread of the
  append has run.  `TurnEndsOnce` says that this is the only way and that nothing else
  follows a turn's end.
- If a recovery session becomes uncertain before one of its turns has ended, the
  safe prefix of its snapshot ends before its own `RECOVERY_SNAPSHOT`, and the
  next recovery session knows nothing of the first session's unknown operation
  (`application/session_recovery.py:171`).  `RecoveryTellsUnknown` is about the
  parent only.
- A recovery session tells what its parent left unknown when the snapshot was
  taken.  The parent can be resumed and used again; what then becomes unknown
  there is not told.  `RecoveryTellsUnknown` therefore ends with the
  parent's next safe end.
- After a replanned batch the ids of the calls closed as not executed may come
  again in the same turn; if such a call is started and interrupted, the old
  result hides the start (`core/loop.py:497`).  With `ReusesIds = TRUE`, one
  session, three model calls and two tool calls, `EffectAccounted` fails.

*Leases and the file*
- A reader of sources looks at `active_sessions` before it waits for the lease; a
  turn of the same process that begins in between shares the lease, and the
  reader's `finally` drops it (`memory_service.py:87-100`,
  `adapters/jsonl_session.py:683`, against `docs/modules/sessions.md:26`, `:47`).
  A compaction is not in `active_sessions` at all (`coordinator.py:169-190`):
  the search for memories that its own requests make can read the session
  that is being compacted, and gives back the lease of the compaction
  (`memory_service.py:213-221`, `:85-100`), with no maintenance running.
  Another process can then start an operation of its own; by `LinesStayTogether`
  lines do not mix, and the first operation fails at its next append.
- The same can happen to a repair, which holds no guard while it runs, and maintenance
  runs by default.  Another
  process appends, the repair takes its half-written line for a torn one and
  replaces the file, and the rest of the line goes to the old file, whose event
  was acknowledged (against `docs/modules/sessions.md:47`, which makes no
  exception).  This is `overrun`: without it TLC finds `AcknowledgedStays` and
  the other two properties of `JournalFile` violated.
- An empty or torn first line makes a session unrecoverable, and one such
  session, or one that another process owns, makes `/sessions` and every
  `/resume` fail (`application/session_catalog.py:100`).  Listing repairs torn
  files without being asked, though `docs/modules/sessions.md:38` calls the
  repair explicit.  A temporary copy left by a dead repair with the same process
  id makes one repair fail.

*Console*
- A line submitted just before a question opens is taken as its answer, for the
  reader looks at the question when it routes the line, not when it is typed.
  Ctrl+C pressed as a turn finishes ends the idle program; `/exit` typed during a
  turn is dropped as busy.

*Context*
- A `/compact` queued while the last model call of a turn runs is dropped when
  the turn ends (`application/coordinator.py:224`).  A lost segment object makes
  every compaction raise.  A recovery session whose parent's checkpoint cannot
  be read shows statements the user had withdrawn (`context_runtime.py:168`).
  A session with an unanswered call can never be compacted.

*Memory*
- `claim` is awaited outside the `try` that gives a cancelled job back
  (`maintenance.py:149`): a process that closes just then leaves a running row
  that nobody holds, with one attempt gone; on the last attempt the row stays
  running for good (against `docs/modules/memory.md:50-51`).
- A job with a source that can never be read stays pending and is claimed first
  whenever its delay has passed (`maintenance.py:158`).
- A search records an expired version over a disabled one
  (`memory_store.py:350`); a correction with a later date then makes the
  memory active (against `docs/modules/memory.md:42`).  This is why
  `DisabledStaysDown` excepts expired versions.  A source that is merely busy
  counts as an invalid dependency; a date once given cannot be removed.

*Knowledge* (the marks of `amiss` in brackets)
- `acquire_lease` reads its conditions in autocommit and then writes the row with
  `ON CONFLICT DO UPDATE` (`knowledge/catalog.py:474-526`); the lock around it is
  one process's, and no transaction begins before the reads.  Two processes both
  pass the check and the second replaces the lease of the first, which
  `docs/architecture/v0.3-knowledge-retrieval.md:423-432` means to exclude.  Two
  additions then write at one revision, and the slower one changes what a frozen
  revision holds or moves the revision back [lease].  So do a lease that expires
  under a slow command and is deleted by `reconcile`, and two retries of one
  operation, which share its lease (`knowledge/ingestion.py:323`, `catalog.py:601`).
- Commands that hide, show or delete read the base, and additions their source,
  before they have the lease (`knowledge/ingestion.py:339`, `:406`, `:447`): a command in
  between makes what they have read stale, and they move the revision back or show two
  versions of one name [stale].
- A retried addition does not replace.  A deleted file is added again and the
  addition fails early, e.g. because the file is empty; its operation
  has the source's id by then.  The file is mended and added, which works.
  `operation retry` (or `reconcile`) of the failed operation now takes the
  active source for its own (`skip_conflict`, `knowledge/ingestion.py:85-90`),
  writes another version, and, being no replacement, does not close the chunks of
  the current one (`:237`): from then on a search returns both
  versions, until the file is hidden or replaced [adopted], though
  `knowledge/ingestion.py:41` promises a "per-file all-or-nothing ingest".  It
  takes four operations, one more than the run `knowledge` has; the code itself
  was seen to behave so.
- A crash, or an index that fails half way, between closing chunks and the commit of
  `deactivate` hides an active source at the next revision of any file (`:461`);
  one in `reactivate` leaves copies that nobody has registered [torn].
- An addition stopped between its source row and its indexing stage is refused
  as a name conflict whenever it is retried (`knowledge/ingestion.py:111`,
  against AC-027 in `docs/requirements/v0.3-knowledge-retrieval.md:184`).  If
  it stops at the indexing stage before the index has its chunks, because of a crash or because the
  index refused or partly applied the request, it can
  never be retried and blocks the base for good (`:591`).
- `reconcile` stops at the first operation that fails (`:325`); a deletion that
  crashed after its purge cannot be repeated.

## 7. Not modelled

`PROJECT.json` lists every component with its status.  Left out for good: wire
formats of model providers, parsing, chunking and embedding of documents,
offline evaluation, terminal rendering, configuration.  They are conversions
and input or output without a protocol of their own.  Left out so far: the
priority slot of the model and the request budget, the inside of file edits
and commands, discovery of instructions, listing and renaming of sessions,
evidence and citations of a retrieval.  A loss of power is left out: what a file
system keeps of bytes that were not synced, and of a directory entry, is its
own.

## 8. Plan

What is left, in this order.

1. `TurnExecution` shown to implement `TurnProtocol` for each turn it runs, which
   needs a protocol that admits turns left open.
2. `PrioritizedModel` and the request budget: no slot is lost, the background
   makes progress when the foreground pauses.
3. An abstract `EffectLedger` (an operation is proposed, started, and ends as
   applied, not applied or unknown) that `TurnExecution` implements over `disk`
   and `happened`.
