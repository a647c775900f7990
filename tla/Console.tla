------------------------------- MODULE Console --------------------------------
(***************************************************************************)
(* The terminal of an interactive session: one reader task that gets every *)
(* line, the main loop of InteractiveApplication, the task of the running  *)
(* turn, which asks for approval on the same terminal, and the permission  *)
(* facts the session logs keep.                                            *)
(*                                                                         *)
(* A tool call is its target: a file, or a command line of one program in  *)
(* one environment.  The files share a directory and the commands their    *)
(* first argument of two, so a rule covers its target only, or (wide) all  *)
(* targets of its kind.  Prepared arguments, display texts, /compact and   *)
(* the read-only commands are left out, and so are the tools of the        *)
(* memory, for which an explicit request of the user stands for an answer  *)
(* (ToolRuntime.execute, PermissionTargetKind.MEMORY); what a cancelled    *)
(* handler did is known or unknown.                                        *)
(***************************************************************************)
EXTENDS Integers, Sequences, FiniteSets, SequencesExt

CONSTANTS
  Session,    \* ids of sessions
  File,       \* paths a write tool can name
  Command,    \* command lines
  Text,       \* lines the user types that are not commands
  Typed,      \* the slash commands the user types
  MaxInputs,  \* lines and keys the user presses
  MaxCalls    \* tool calls of a turn

NoSession == "none"
Target    == File \cup Command

ASSUME InputAssumption ==
  /\ NoSession \notin Session /\ File \cap Command = {}
  /\ Text \subseteq {"y", "f", "d", "c", "1", "2"}
  /\ Typed \subseteq {"/new", "/resume", "/revoke", "/exit"}
  /\ MaxInputs \in Nat /\ MaxCalls \in Nat

VARIABLES
  app,        \* the main loop: "idle", "running" a turn, or "exited"
  exiting,    \* _exit_requested
  session,    \* the session of the next prompt
  queue,      \* actions the reader has queued
  raw,        \* the line prompt_async has returned and the reader has not routed
  reader,     \* the reader task runs
  line,       \* the future of the open approval question
  turn,       \* the task of the turn
  log,        \* the facts of each session
  ceiling,    \* write_permission, and command_permission under it
  inputs, interrupts, consents   \* what the user typed: all, Ctrl+C, approving lines

vars == <<app, exiting, session, queue, raw, reader, line, turn, log, ceiling,
          inputs, interrupts, consents>>

-------------------------------------------------------------------------------
(* Permission rules and their projection.                                  *)

SameKind(s, t) == {s, t} \subseteq File \/ {s, t} \subseteq Command

Rule(target, wide, id) == [target |-> target, wide |-> wide, id |-> id]

Covers(rule, target) == rule.target = target \/ (rule.wide /\ SameKind(rule.target, target))

NoRule == Rule("none", FALSE, 0)

Fact(type, target, rule) == [type |-> type, target |-> target, rule |-> rule]
Note(type)               == Fact(type, "none", NoRule)

FactsOf(facts, type) == {i \in DOMAIN facts : facts[i].type = type}

Revoked(facts, id) == \E i \in FactsOf(facts, "revoked") : facts[i].rule.id = id

\* Mutant: a revocation is recorded but not projected.
GrantedRules(facts) == {facts[i].rule : i \in FactsOf(facts, "granted")}

\* active_session_rules
ActiveRules(facts) ==
  {r \in {facts[i].rule : i \in FactsOf(facts, "granted")} : ~Revoked(facts, r.id)}

\* DefaultPermissionPolicy: a denied write denies commands too.
Denied(target) == ceiling = "deny" \/ (ceiling = "no_commands" /\ target \in Command)

\* SessionPermissionPolicy.decide
Decision(target, rules) ==
  IF Denied(target) THEN "deny"
  ELSE IF \E r \in rules : Covers(r, target) THEN "allow" ELSE "ask"

\* A turn without its end, and a call whose effect the log does not settle.
IsOpen(facts) ==
  \E i \in FactsOf(facts, "turn") : \A j \in FactsOf(facts, "ended") : j < i

IsUncertain(facts) ==
  \E i \in FactsOf(facts, "started") : i = Len(facts) \/ facts[i + 1].type # "completed"

Unused == {s \in Session : log[s] = <<>>}

-------------------------------------------------------------------------------

NoLine == [state |-> "none", text |-> "none"]
NoTurn ==
  [pc |-> "done", target |-> "none", stage |-> "choice", wide |-> FALSE, grant |-> FALSE,
   approved |-> FALSE, rejected |-> {}, rules |-> {}, calls |-> 0]

Init ==
  /\ app = "idle" /\ exiting = FALSE /\ session = NoSession
  /\ queue = <<>> /\ raw = "none" /\ reader = TRUE
  /\ line = NoLine
  /\ turn = NoTurn
  /\ log = [s \in Session |-> <<>>]
  /\ ceiling \in {"ask", "no_commands", "deny"}
  /\ inputs = 0 /\ interrupts = 0 /\ consents = 0

Counters == <<inputs, interrupts, consents>>

-------------------------------------------------------------------------------
(* The user and the reader task.                                           *)

\* The user submits a line or presses Ctrl+C ("interrupt") or Ctrl+D ("eof").
Submit(input) ==
  /\ reader /\ raw = "none" /\ inputs < MaxInputs
  /\ raw' = input
  /\ inputs' = inputs + 1
  /\ interrupts' = IF input = "interrupt" THEN interrupts + 1 ELSE interrupts
  /\ UNCHANGED <<app, exiting, session, queue, reader, line, turn, log, ceiling, consents>>

Queue(action) == queue' = Append(queue, action)

\* set_result or set_exception of a future that is not done.
Settle(state, text) ==
  line' = IF line.state = "open" THEN [state |-> state, text |-> text] ELSE line

\* Mutant: Ctrl+D at a question only answers the question.
RouteEofToQuestion ==
  /\ raw = "eof"
  /\ Settle("eof", "none")
  /\ IF line.state = "open" THEN UNCHANGED queue ELSE Queue("eof")
  /\ reader' = FALSE
  /\ UNCHANGED consents

RouteEof ==
  /\ raw = "eof"
  /\ Settle("eof", "none")
  /\ Queue("eof")
  /\ reader' = FALSE
  /\ UNCHANGED consents

RouteInterrupt ==
  /\ raw = "interrupt"
  /\ Settle("cancelled", "none")
  /\ Queue("interrupt")
  /\ UNCHANGED <<reader, consents>>

RouteAnswer ==
  /\ raw \in Text
  /\ line.state # "none"
  /\ Settle("answered", raw)
  /\ consents' = IF line.state = "open" /\ raw \in {"y", "f", "d"} THEN consents + 1 ELSE consents
  /\ UNCHANGED <<queue, reader>>

RouteAction ==
  /\ raw \in Typed \/ (raw \in Text /\ line.state = "none")
  /\ Queue(IF raw \in Typed THEN raw ELSE "prompt")
  /\ UNCHANGED <<line, reader, consents>>

\* What _read_input does with the line it has.
Route ==
  /\ raw' = "none"
  /\ RouteEof \/ RouteInterrupt \/ RouteAnswer \/ RouteAction
  /\ UNCHANGED <<app, exiting, session, turn, log, ceiling, inputs, interrupts>>

-------------------------------------------------------------------------------
(* The main loop while no turn runs.                                       *)

\* terminal.close
Leave == app' = "exited" /\ reader' = FALSE

StayIdle == UNCHANGED <<app, exiting, reader, turn>>

TakeExit(action) ==
  /\ action \in {"eof", "interrupt", "/exit"}
  /\ Leave
  /\ UNCHANGED <<exiting, session, turn, log>>

TakeNew(action) ==
  /\ action = "/new"
  /\ session' = NoSession
  /\ StayIdle /\ UNCHANGED log

\* revoke_session_rule of any rule id; an id that is not active is an error.
TakeRevoke(action) ==
  /\ action = "/revoke"
  /\ \/ /\ session # NoSession
        /\ \E r \in ActiveRules(log[session]) :
             log' = [log EXCEPT ![session] = Append(@, Fact("revoked", "none", r))]
     \/ UNCHANGED log
  /\ StayIdle /\ UNCHANGED session

\* prepare_session_resume: an uncertain session is left for a recovery session,
\* an interrupted turn is closed.
Prepared(s, chosen) ==
  IF IsUncertain(log[s])
    THEN /\ chosen \in Unused
         /\ log' = [log EXCEPT ![chosen] = <<Note("recovery")>>]
    ELSE /\ chosen = s
         /\ log' = IF IsOpen(log[s]) THEN [log EXCEPT ![s] = Append(@, Note("ended"))] ELSE log

TakeResume(action) ==
  /\ action = "/resume"
  /\ \/ \E s \in Session \ Unused, chosen \in Session :
          Prepared(s, chosen) /\ session' = chosen
     \/ UNCHANGED <<session, log>>
  /\ StayIdle

\* LoopFactory.create: the turn's policy holds the rules active at its start.
FreshTurn(facts) == [NoTurn EXCEPT !.pc = "model", !.rules = ActiveRules(facts)]

\* _run_prompt; TurnCoordinator.send refuses an uncertain session.
TakePrompt(action) ==
  /\ action = "prompt"
  /\ IF session # NoSession /\ IsUncertain(log[session])
       THEN StayIdle /\ UNCHANGED <<session, log>>
       ELSE \E s \in (IF session = NoSession THEN Unused ELSE {session}) :
              /\ session' = s
              /\ log' = [log EXCEPT ![s] = Append(@, Note("turn"))]
              /\ turn' = FreshTurn(log[s])
              /\ app' = "running"
              /\ UNCHANGED <<exiting, reader>>

\* The sessions the user may open are bounded: the prompt is dropped.
DropPrompt(action) ==
  action = "prompt" /\ session = NoSession /\ Unused = {} /\ StayIdle /\ UNCHANGED <<session, log>>

TakeIdle ==
  /\ app = "idle"
  /\ queue # <<>>
  /\ queue' = Tail(queue)
  /\ LET action == Head(queue)
     IN  \/ TakeExit(action) \/ TakeNew(action) \/ TakeRevoke(action) \/ TakeResume(action)
         \/ TakePrompt(action) \/ DropPrompt(action)
  /\ UNCHANGED <<raw, line, ceiling>> /\ UNCHANGED Counters

-------------------------------------------------------------------------------
(* The main loop while a turn runs: _wait_with_controls.                   *)

\* A CancelledError in the turn's task, as the LangGraph engine takes it: caught
\* wherever the turn is and closed once, another one while fail() runs ends the
\* task at once.  AgentLoop catches it in its model stream and tool calls only
\* (TurnExecution has those gaps).
Cancelled(t) == [t EXCEPT !.pc = IF t.pc \in {"closing", "done"} THEN "done" ELSE "closing"]

\* Mutant: the cancelled question stays open.
CancelTurnOnly == turn' = Cancelled(turn) /\ UNCHANGED line

\* operation.cancel; the question's future is cancelled with the task.
CancelTurn == turn' = Cancelled(turn) /\ line' = NoLine

TakeRunning ==
  /\ app = "running"
  /\ queue # <<>>
  /\ queue' = Tail(queue)
  /\ IF Head(queue) \in {"eof", "interrupt"}
       THEN exiting' = (Head(queue) = "eof") /\ CancelTurn
       ELSE UNCHANGED <<exiting, turn, line>>
  /\ UNCHANGED <<app, session, raw, reader, log, ceiling>> /\ UNCHANGED Counters

\* The task is done: _run_prompt returns.
TurnReturns ==
  /\ app = "running"
  /\ turn.pc = "done"
  /\ IF exiting THEN Leave ELSE app' = "idle" /\ UNCHANGED reader
  /\ UNCHANGED <<exiting, session, queue, raw, line, turn, log, ceiling>>
  /\ UNCHANGED Counters

-------------------------------------------------------------------------------
(* The turn's task.                                                        *)

TurnOnly == UNCHANGED <<app, exiting, session, queue, raw, reader, ceiling>> /\ UNCHANGED Counters

Record(fact) == log' = [log EXCEPT ![session] = Append(@, fact)]

\* The model asks for one more call, or the turn completes.
AskForCall(target) ==
  /\ turn.pc = "model"
  /\ turn.calls < MaxCalls
  /\ turn' = [turn EXCEPT !.pc = "decide", !.target = target, !.calls = @ + 1]
  /\ UNCHANGED <<line, log>>
  /\ TurnOnly

CompleteTurn ==
  /\ turn.pc = "model"
  /\ turn' = [turn EXCEPT !.pc = "done"]
  /\ Record(Note("ended"))
  /\ UNCHANGED line
  /\ TurnOnly

\* An identical invocation already rejected, and a denied one, come back as errors.
Refuse ==
  /\ turn.pc = "decide"
  /\ turn.target \in turn.rejected \/ Decision(turn.target, turn.rules) = "deny"
  /\ turn' = [turn EXCEPT !.pc = "model"]
  /\ UNCHANGED <<line, log>>
  /\ TurnOnly

Allow ==
  /\ turn.pc = "decide"
  /\ turn.target \notin turn.rejected
  /\ Decision(turn.target, turn.rules) = "allow"
  /\ turn' = [turn EXCEPT !.pc = "start"]
  /\ UNCHANGED <<line, log>>
  /\ TurnOnly

Request ==
  /\ turn.pc = "decide"
  /\ turn.target \notin turn.rejected
  /\ Decision(turn.target, turn.rules) = "ask"
  /\ turn' = [turn EXCEPT !.pc = "ask", !.stage = "choice", !.grant = FALSE]
  /\ Record(Fact("requested", turn.target, NoRule))
  /\ UNCHANGED line
  /\ TurnOnly

\* _ask_line: a future of its own for every question.
OpenLine ==
  /\ turn.pc = "ask"
  /\ line = NoLine
  /\ line' = [state |-> "open", text |-> "none"]
  /\ turn' = [turn EXCEPT !.pc = "wait"]
  /\ UNCHANGED log
  /\ TurnOnly

Answered(text) == turn.pc = "wait" /\ line.state = "answered" /\ line.text = text

\* The finally of _ask_line.
TakeAnswer == line' = NoLine /\ UNCHANGED log /\ TurnOnly

AskNext(stage, wide) == turn' = [turn EXCEPT !.pc = "ask", !.stage = stage, !.wide = wide]

Choose(approved, grant, wide) ==
  turn' = [turn EXCEPT !.pc = IF grant THEN "grant" ELSE "resolve",
                       !.approved = approved, !.grant = grant, !.wide = wide]

\* TerminalChoices.request and ScopedApproval.request: what the answer means.
ApproveOnce ==
  /\ turn.stage = "choice" /\ Answered("y")
  /\ Choose(TRUE, FALSE, FALSE)
  /\ TakeAnswer

ApproveFiles ==
  /\ turn.stage = "choice" /\ turn.target \in File
  /\ \/ Answered("f") /\ Choose(TRUE, TRUE, FALSE)
     \/ Answered("d") /\ Choose(TRUE, TRUE, TRUE)
  /\ TakeAnswer

ChoosePrefix ==
  /\ turn.stage = "choice" /\ turn.target \in Command
  /\ Answered("c")
  /\ AskNext("count", FALSE)
  /\ TakeAnswer

CountPrefix ==
  /\ turn.stage = "count"
  /\ \/ Answered("1") /\ AskNext("confirm", TRUE)
     \/ Answered("2") /\ AskNext("confirm", FALSE)
  /\ TakeAnswer

ConfirmPrefix ==
  /\ turn.stage = "confirm" /\ Answered("y")
  /\ Choose(TRUE, TRUE, turn.wide)
  /\ TakeAnswer

Meaningful ==
  CASE turn.stage = "choice" -> {"y"} \cup (IF turn.target \in File THEN {"f", "d"} ELSE {"c"})
    [] turn.stage = "count"  -> {"1", "2"}
    [] OTHER -> {"y"}

\* Mutant: the default of an ended input is to approve.
RejectAnswers ==
  /\ turn.pc = "wait"
  /\ line.state = "eof" \/ (line.state = "answered" /\ line.text \notin Meaningful)
  /\ Choose(line.state = "eof", FALSE, FALSE)
  /\ TakeAnswer

\* Any other answer, and the end of the input, rejects.
Reject ==
  /\ turn.pc = "wait"
  /\ line.state = "eof" \/ (line.state = "answered" /\ line.text \notin Meaningful)
  /\ Choose(FALSE, FALSE, FALSE)
  /\ TakeAnswer

\* Ctrl+C raises CancelledError out of the question.
LineRaises ==
  /\ turn.pc = "wait" /\ line.state = "cancelled"
  /\ turn' = Cancelled(turn)
  /\ TakeAnswer

\* The rule is recorded, then the turn's projection has it.
Grant ==
  /\ turn.pc = "grant"
  /\ LET id   == Cardinality(UNION {FactsOf(log[s], "granted") \X {s} : s \in Session}) + 1
         rule == Rule(turn.target, turn.wide, id)
     IN  /\ Record(Fact("granted", turn.target, rule))
         /\ turn' = [turn EXCEPT !.pc = "resolve", !.rules = @ \cup {rule}]
  /\ UNCHANGED line
  /\ TurnOnly

\* Mutant: a rejection is not remembered.
ResolveOnce ==
  /\ turn.pc = "resolve"
  /\ Record(Fact(IF turn.approved THEN "approved" ELSE "rejected", turn.target, NoRule))
  /\ turn' = [turn EXCEPT !.pc = IF turn.approved THEN "start" ELSE "model"]
  /\ UNCHANGED line
  /\ TurnOnly

Resolve ==
  /\ turn.pc = "resolve"
  /\ Record(Fact(IF turn.approved THEN "approved" ELSE "rejected", turn.target, NoRule))
  /\ turn' = IF turn.approved
               THEN [turn EXCEPT !.pc = "start"]
               ELSE [turn EXCEPT !.pc = "model", !.rejected = @ \cup {turn.target}]
  /\ UNCHANGED line
  /\ TurnOnly

Start ==
  /\ turn.pc = "start"
  /\ Record(Fact("started", turn.target, NoRule))
  /\ turn' = [turn EXCEPT !.pc = "act"]
  /\ UNCHANGED line
  /\ TurnOnly

HandlerReturns ==
  /\ turn.pc = "act"
  /\ Record(Fact("completed", turn.target, NoRule))
  /\ turn' = [turn EXCEPT !.pc = "model"]
  /\ UNCHANGED line
  /\ TurnOnly

\* close_pending_calls answers a started call, whose effect is known or not.
CloseCall ==
  /\ turn.pc = "closing"
  /\ Last(log[session]).type = "started"
  /\ \E type \in {"completed", "unknown"} : Record(Fact(type, turn.target, NoRule))
  /\ UNCHANGED <<turn, line>>
  /\ TurnOnly

EndTurn ==
  /\ turn.pc = "closing"
  /\ Last(log[session]).type # "started"
  /\ Record(Note("ended"))
  /\ turn' = [turn EXCEPT !.pc = "done"]
  /\ UNCHANGED line
  /\ TurnOnly

TurnStep ==
  \/ \E target \in Target : AskForCall(target)
  \/ CompleteTurn \/ Refuse \/ Allow \/ Request \/ OpenLine
  \/ ApproveOnce \/ ApproveFiles \/ ChoosePrefix \/ CountPrefix \/ ConfirmPrefix
  \/ Reject \/ LineRaises \/ Grant \/ Resolve \/ Start \/ HandlerReturns
  \/ CloseCall \/ EndTurn

AppStep == TakeIdle \/ TakeRunning \/ TurnReturns

Next ==
  \/ \E input \in Text \cup Typed \cup {"eof", "interrupt"} : Submit(input)
  \/ Route
  \/ AppStep
  \/ TurnStep

Spec == Init /\ [][Next]_vars

\* The tasks of the event loop run when they can; the user owes nothing.
FairSpec == Spec /\ WF_vars(Route) /\ WF_vars(AppStep) /\ WF_vars(TurnStep)

-------------------------------------------------------------------------------
(* Properties.                                                             *)

LineState == {"none", "open", "answered", "eof", "cancelled"}

Pc == {"model", "decide", "ask", "wait", "grant", "resolve", "start", "act", "closing", "done"}

\* Every variable keeps its type, and only a running turn holds a question.
TypeOK ==
  /\ app \in {"idle", "running", "exited"} /\ exiting \in BOOLEAN /\ reader \in BOOLEAN
  /\ session \in Session \cup {NoSession}
  /\ queue \in Seq(Typed \cup {"prompt", "eof", "interrupt"})
  /\ raw \in Text \cup Typed \cup {"none", "eof", "interrupt"}
  /\ line.state \in LineState /\ line.text \in Text \cup {"none"}
  /\ turn.pc \in Pc /\ turn.rejected \subseteq Target /\ turn.calls \in 0..MaxCalls
  /\ line # NoLine => app = "running" /\ turn.pc = "wait"
  /\ app = "idle" => turn.pc = "done"
  /\ ceiling \in {"ask", "no_commands", "deny"}

\* Where the turn of the i-th fact began.
TurnStart(facts, i) == CHOOSE k \in FactsOf(facts, "turn") :
  k <= i /\ \A j \in FactsOf(facts, "turn") : j <= i => j <= k

\* The user approved this very call, and no other one has used the approval.
ApprovedOnce(facts, i) ==
  \E k \in FactsOf(facts, "approved") :
    /\ TurnStart(facts, i) < k /\ k < i
    /\ facts[k].target = facts[i].target
    /\ \A j \in FactsOf(facts, "started") : ~(k < j /\ j < i)

\* A rule granted in this session covers the call and was not revoked since.
AllowedByRule(facts, i) ==
  \E g \in FactsOf(facts, "granted") :
    /\ g < i /\ Covers(facts[g].rule, facts[i].target)
    /\ \A j \in FactsOf(facts, "revoked") : ~(g < j /\ j < i /\ facts[j].rule = facts[g].rule)

\* No tool acts in a session unless the user approved that call in that turn,
\* or granted this session a rule for it that he has not taken back; a ceiling is
\* never passed.
EffectIsAllowed ==
  \A s \in Session : \A i \in FactsOf(log[s], "started") :
    ~Denied(log[s][i].target) /\ (ApprovedOnce(log[s], i) \/ AllowedByRule(log[s], i))

\* A call the user rejected is neither asked again nor run in the same turn,
\* not even under a wider rule granted for another call after it.
RejectedStaysRejected ==
  \A s \in Session : \A i \in FactsOf(log[s], "rejected") :
    \A j \in FactsOf(log[s], "requested") \cup FactsOf(log[s], "started") :
      j > i /\ log[s][j].target = log[s][i].target => TurnStart(log[s], j) > i

Approvals == UNION {FactsOf(log[s], "approved") \X {s} : s \in Session}

\* No line approves two calls, whatever was typed ahead, late or at a question
\* that a cancellation took away.
ApprovalsAreAnswered == Cardinality(Approvals) <= consents

\* Ctrl+D ends the program, also while it asks, runs or closes a turn and
\* whatever is queued in front of it.
EofEndsTheApp == (raw = "eof") ~> (app = "exited")

\* One Ctrl+C cancels the turn and leaves it with its end in the log.
OneInterruptClosesTheTurn ==
  app = "idle" /\ session # NoSession /\ interrupts <= 1 => ~IsOpen(log[session])
===============================================================================
