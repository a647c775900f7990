----------------------------- MODULE ConsoleProofs -----------------------------
(***************************************************************************)
(* What the permission facts of the session logs guarantee, whatever the   *)
(* user types, when, and wherever a cancellation meets the running turn.   *)
(* Facts are only added to a log, one in a step, so each result is about   *)
(* the fact a step adds and what the running turn knows then.              *)
(***************************************************************************)
EXTENDS Console, WellFoundedInduction, FiniteSetTheorems, TLAPS

Action == Typed \cup {"prompt", "eof", "interrupt"}

FactType == {"turn", "ended", "recovery", "granted", "revoked", "requested", "approved",
             "rejected", "started", "completed", "unknown"}

Rules == [target : Target \cup {"none"}, wide : BOOLEAN, id : Nat]

Facts == [type : FactType, target : Target \cup {"none"}, rule : Rules]

Line == [state : LineState, text : Text \cup {"none"}]

Stages == {"choice", "count", "confirm"}

Turns ==
  [pc : Pc, target : Target \cup {"none"}, stage : Stages, wide : BOOLEAN, grant : BOOLEAN,
   approved : BOOLEAN, rejected : SUBSET Target, rules : SUBSET Rules, calls : 0..MaxCalls]

\* The facts of one type in all the logs.
All(type) == UNION {FactsOf(log[s], type) \X {s} : s \in Session}

\* Where the turn is about a call.
Calling == {"decide", "ask", "wait", "grant", "resolve", "start", "act"}

ShellType ==
  /\ app \in {"idle", "running", "exited"} /\ exiting \in BOOLEAN /\ reader \in BOOLEAN
  /\ session \in Session \cup {NoSession}
  /\ queue \in Seq(Action)
  /\ raw \in Text \cup Typed \cup {"none", "eof", "interrupt"}
  /\ ceiling \in {"ask", "no_commands", "deny"}
  /\ consents \in Nat

LogType ==
  /\ log \in [Session -> Seq(Facts)]
  /\ IsFiniteSet(All("granted")) /\ IsFiniteSet(All("approved"))

TurnType ==
  /\ line \in Line
  /\ line.state = "none" => line = NoLine
  /\ line # NoLine => turn.pc = "wait"
  /\ turn \in Turns
  /\ turn.pc \in Calling => turn.target \in Target
  /\ turn.pc # "done" => app = "running"
  /\ app = "running" => session \in Session

TypeInv == ShellType /\ LogType /\ TurnType

-------------------------------------------------------------------------------
(* What a step adds to the logs.                                           *)

\* A fact is added to the log of a session.
Adds(s, fact) == log' = [log EXCEPT ![s] = Append(@, fact)]

\* The log and the sets of facts after that.
LEMMA AddsOne ==
  ASSUME log \in [Session -> Seq(Facts)], NEW s \in Session, NEW fact \in Facts, Adds(s, fact)
  PROVE  /\ log' \in [Session -> Seq(Facts)]
         /\ log'[s] = Append(log[s], fact)
         /\ \A u \in Session : u # s => log'[u] = log[u]
         /\ \A type : All(type)' = IF fact.type = type THEN All(type) \cup {<<Len(log[s]) + 1, s>>}
                                   ELSE All(type)
<1>1. /\ log[s] \in Seq(Facts) /\ log'[s] = Append(log[s], fact)
      /\ \A u \in Session : u # s => log'[u] = log[u]
  BY DEF Adds
<1>2. Append(log[s], fact) \in Seq(Facts)
  BY <1>1
<1>3. log' \in [Session -> Seq(Facts)]
  BY <1>1, <1>2 DEF Adds
<1>4. ASSUME NEW type
      PROVE  FactsOf(log'[s], type) =
               IF fact.type = type THEN FactsOf(log[s], type) \cup {Len(log[s]) + 1}
               ELSE FactsOf(log[s], type)
  <2>1. /\ DOMAIN log[s] = 1..Len(log[s]) /\ Len(log[s]) \in Nat
        /\ DOMAIN log'[s] = 1..(Len(log[s]) + 1)
        /\ log'[s][Len(log[s]) + 1] = fact
        /\ \A i \in 1..Len(log[s]) : log'[s][i] = log[s][i]
    BY <1>1
  <2> QED
    BY <2>1 DEF FactsOf
<1>5. ASSUME NEW type
      PROVE  All(type)' = IF fact.type = type THEN All(type) \cup {<<Len(log[s]) + 1, s>>}
                          ELSE All(type)
  <2>1. \A x : x \in All(type) <=> \E u \in Session : \E i \in FactsOf(log[u], type) : x = <<i, u>>
    BY DEF All
  <2>2. \A x : x \in All(type)' <=> \E u \in Session : \E i \in FactsOf(log'[u], type) : x = <<i, u>>
    BY DEF All
  <2>3. \A u \in Session : u # s => FactsOf(log'[u], type) = FactsOf(log[u], type)
    BY <1>1
  <2>4. CASE fact.type = type
    <3>1. FactsOf(log'[s], type) = FactsOf(log[s], type) \cup {Len(log[s]) + 1}
      BY <1>4, <2>4
    <3>2. \A x : x \in All(type)' <=> x \in All(type) \/ x = <<Len(log[s]) + 1, s>>
      BY <2>1, <2>2, <2>3, <3>1, Zenon
    <3> QED
      BY <2>4, <3>2
  <2>5. CASE fact.type # type
    <3>1. \A u \in Session : FactsOf(log'[u], type) = FactsOf(log[u], type)
      BY <1>4, <2>3, <2>5
    <3>2. \A x : x \in All(type)' <=> x \in All(type)
      BY <2>1, <2>2, <3>1, Zenon
    <3> QED
      BY <2>5, <3>2
  <2> QED
    BY <2>4, <2>5
<1> QED
  BY <1>1, <1>3, <1>5

\* So the types of the logs stay.
LEMMA LogStays ==
  ASSUME LogType, NEW s \in Session, NEW fact \in Facts, Adds(s, fact)
  PROVE  LogType'
<1>1. /\ log' \in [Session -> Seq(Facts)]
      /\ \A type : All(type)' = IF fact.type = type THEN All(type) \cup {<<Len(log[s]) + 1, s>>}
                                ELSE All(type)
  BY AddsOne DEF LogType
<1>2. \A type : IsFiniteSet(All(type)) => IsFiniteSet(All(type)')
  BY <1>1, FS_AddElement
<1> QED
  BY <1>1, <1>2 DEF LogType

\* Facts about nothing, and about a rule.
LEMMA NotesAre ==
  /\ \A type \in FactType : Note(type) \in Facts /\ Note(type).type = type
  /\ \A type \in FactType, target \in Target :
       /\ Fact(type, target, NoRule) \in Facts
       /\ Fact(type, target, NoRule).type = type /\ Fact(type, target, NoRule).target = target
  /\ \A type \in FactType, target \in Target \cup {"none"}, rule \in Rules :
       /\ Fact(type, target, rule) \in Facts
       /\ Fact(type, target, rule).type = type /\ Fact(type, target, rule).target = target
       /\ Fact(type, target, rule).rule = rule
BY DEF Note, Fact, Facts, Rules, Rule, NoRule

\* The rules of a log are rules.
LEMMA ActiveType ==
  ASSUME NEW facts \in Seq(Facts)
  PROVE  ActiveRules(facts) \subseteq Rules
<1>1. \A i \in DOMAIN facts : facts[i].rule \in Rules
  <2> SUFFICES ASSUME NEW i \in DOMAIN facts PROVE facts[i].rule \in Rules
    OBVIOUS
  <2>1. facts[i] \in Facts
    OBVIOUS
  <2> QED
    BY <2>1 DEF Facts
<1> QED
  BY <1>1 DEF ActiveRules, FactsOf

-------------------------------------------------------------------------------
(* Type correctness.                                                       *)

\* The rule that a grant records.
NewRule ==
  Rule(turn.target, turn.wide,
       Cardinality(UNION {FactsOf(log[s], "granted") \X {s} : s \in Session}) + 1)

LEMMA NewRuleType ==
  ASSUME TypeInv, turn.pc = "grant"
  PROVE  NewRule \in Rules /\ NewRule.target = turn.target /\ NewRule.wide = turn.wide
<1>1. Cardinality(All("granted")) \in Nat
  BY FS_CardinalityType DEF TypeInv, LogType
<1>2. Cardinality(UNION {FactsOf(log[s], "granted") \X {s} : s \in Session}) + 1 \in Nat
  BY <1>1 DEF All
<1>3. turn.target \in Target /\ turn.wide \in BOOLEAN
  BY DEF TypeInv, TurnType, Turns, Calling
<1> QED
  BY <1>2, <1>3 DEF NewRule, Rule, Rules

\* A cancelled turn is closing or done, and otherwise the same.
LEMMA CancelledIs ==
  ASSUME turn \in Turns
  PROVE  /\ Cancelled(turn) \in Turns /\ Cancelled(turn).pc \in {"closing", "done"}
         /\ turn.pc \in {"closing", "done"} => Cancelled(turn).pc = "done"
         /\ Cancelled(turn).rejected = turn.rejected /\ Cancelled(turn).rules = turn.rules
         /\ Cancelled(turn).approved = turn.approved /\ Cancelled(turn).target = turn.target
<1> DEFINE pc == IF turn.pc \in {"closing", "done"} THEN "done" ELSE "closing"
<1>1. pc \in {"closing", "done"} /\ (turn.pc \in {"closing", "done"} => pc = "done")
  OBVIOUS
<1>2. Cancelled(turn) = [turn EXCEPT !.pc = pc]
  BY DEF Cancelled
<1> HIDE DEF pc
<1> QED
  BY <1>1, <1>2 DEF Turns, Pc

\* What an answer, or the end of the input, makes of the turn.
LEMMA AnswerIs ==
  ASSUME TypeInv,
         ApproveOnce \/ ApproveFiles \/ ChoosePrefix \/ CountPrefix \/ ConfirmPrefix \/ Reject
  PROVE  /\ turn.pc = "wait" /\ turn' \in Turns /\ turn'.pc \in {"ask", "grant", "resolve"}
         /\ turn'.target = turn.target /\ turn'.rejected = turn.rejected
         /\ turn'.rules = turn.rules
         /\ line' = NoLine /\ log' = log
         /\ turn'.pc # "ask" /\ turn'.approved =>
              line.state = "answered" /\ line.text \in {"y", "f", "d"}
<1>1. turn \in Turns
  BY DEF TypeInv, TurnType
<1>2. turn.pc = "wait" /\ line' = NoLine /\ log' = log
  BY DEF ApproveOnce, ApproveFiles, ChoosePrefix, CountPrefix, ConfirmPrefix, Reject, Answered,
         TakeAnswer
<1>3. \/ \E stage \in Stages, wide \in BOOLEAN : AskNext(stage, wide)
      \/ \E approved, grant, wide \in BOOLEAN :
           /\ Choose(approved, grant, wide)
           /\ approved => line.state = "answered" /\ line.text \in {"y", "f", "d"}
  BY <1>1 DEF ApproveOnce, ApproveFiles, ChoosePrefix, CountPrefix, ConfirmPrefix, Reject, Answered,
              Stages, Turns
<1>4. ASSUME NEW stage \in Stages, NEW wide \in BOOLEAN, AskNext(stage, wide)
      PROVE  /\ turn' \in Turns /\ turn'.pc = "ask" /\ turn'.target = turn.target
             /\ turn'.rejected = turn.rejected /\ turn'.rules = turn.rules
  BY <1>1, <1>4 DEF AskNext, Turns, Pc
<1>5. ASSUME NEW approved \in BOOLEAN, NEW grant \in BOOLEAN, NEW wide \in BOOLEAN,
             Choose(approved, grant, wide)
      PROVE  /\ turn' \in Turns /\ turn'.pc \in {"grant", "resolve"} /\ turn'.target = turn.target
             /\ turn'.rejected = turn.rejected /\ turn'.rules = turn.rules
             /\ turn'.approved = approved
  <2>1. PICK pc \in {"grant", "resolve"} :
          turn' = [turn EXCEPT !.pc = pc, !.approved = approved, !.grant = grant, !.wide = wide]
    BY <1>5 DEF Choose
  <2> QED
    BY <1>1, <2>1 DEF Turns, Pc
<1> QED
  BY <1>2, <1>3, <1>4, <1>5

\* The turn's other steps: what becomes of the turn.
LEMMA TurnStepTurn ==
  ASSUME TypeInv, TurnStep
  PROVE  turn' \in Turns /\ (turn'.pc \in Calling => turn'.target \in Target) /\ turn.pc # "done"
<1>1. turn \in Turns /\ (turn.pc \in Calling => turn.target \in Target)
  BY DEF TypeInv, TurnType
<1>2. ASSUME NEW target \in Target, AskForCall(target)
      PROVE  turn' \in Turns /\ turn'.target \in Target /\ turn.pc # "done"
  <2>1. turn.calls + 1 \in 0..MaxCalls
    BY <1>1, <1>2, InputAssumption DEF AskForCall, Turns
  <2>2. PICK n \in 0..MaxCalls : turn' = [turn EXCEPT !.pc = "decide", !.target = target, !.calls = n]
    BY <1>2, <2>1 DEF AskForCall
  <2> QED
    BY <1>1, <1>2, <2>2 DEF AskForCall, Turns, Pc
<1>3. CASE CompleteTurn \/ Refuse \/ Allow \/ OpenLine \/ HandlerReturns \/ EndTurn \/ Start
  <2>1. PICK pc \in Pc : /\ turn' = [turn EXCEPT !.pc = pc]
                         /\ pc \in Calling => turn.pc \in Calling
                         /\ turn.pc # "done"
    BY <1>3 DEF CompleteTurn, Refuse, Allow, OpenLine, HandlerReturns, EndTurn, Start, Pc, Calling
  <2> QED
    BY <1>1, <2>1 DEF Turns
<1>4. CASE Request
  BY <1>1, <1>4 DEF Request, Turns, Pc, Stages, Calling
<1>5. CASE ApproveOnce \/ ApproveFiles \/ ChoosePrefix \/ CountPrefix \/ ConfirmPrefix \/ Reject
  BY <1>1, <1>5, AnswerIs DEF Calling
<1>6. CASE LineRaises
  BY <1>1, <1>6, CancelledIs DEF LineRaises, Calling
<1>7. CASE Grant
  <2>1. turn.pc = "grant" /\ turn' = [turn EXCEPT !.pc = "resolve", !.rules = @ \cup {NewRule}]
    BY <1>7 DEF Grant, NewRule
  <2>2. NewRule \in Rules
    BY <2>1, NewRuleType
  <2> QED
    BY <1>1, <2>1, <2>2 DEF Turns, Pc, Calling
<1>8. CASE Resolve
  <2>1. turn.target \in Target
    BY <1>1, <1>8 DEF Resolve, Calling
  <2> QED
    BY <1>1, <1>8, <2>1 DEF Resolve, Turns, Pc, Calling
<1>9. CASE CloseCall
  BY <1>1, <1>9 DEF CloseCall
<1> QED
  BY <1>2, <1>3, <1>4, <1>5, <1>6, <1>7, <1>8, <1>9 DEF TurnStep

\* The turn's steps: what they write.
LEMMA TurnWrites ==
  ASSUME TypeInv, TurnStep
  PROVE  session \in Session /\ (log' = log \/ \E fact \in Facts : Adds(session, fact))
<1>1. session \in Session /\ (turn.pc \in Calling => turn.target \in Target)
      /\ turn.target \in Target \cup {"none"}
  BY TurnStepTurn DEF TypeInv, TurnType, Turns
<1>2. CASE CompleteTurn \/ EndTurn
  BY <1>1, <1>2, NotesAre DEF CompleteTurn, EndTurn, Record, Adds, FactType
<1>3. CASE Request \/ Resolve \/ Start \/ HandlerReturns
  BY <1>1, <1>3, NotesAre DEF Request, Resolve, Start, HandlerReturns, Record, Adds, FactType, Calling
<1>4. CASE CloseCall
  <2>1. NoRule \in Rules
    BY DEF NoRule, Rule, Rules
  <2> QED
    BY <1>1, <1>4, <2>1, NotesAre DEF CloseCall, Record, Adds, FactType
<1>5. CASE Grant
  <2>1. NewRule \in Rules /\ Record(Fact("granted", turn.target, NewRule))
    BY <1>5, NewRuleType DEF Grant, NewRule
  <2> QED
    BY <1>1, <2>1, NotesAre DEF Record, Adds, FactType
<1>6. CASE (\E target \in Target : AskForCall(target)) \/ Refuse \/ Allow \/ OpenLine \/ LineRaises
  BY <1>1, <1>6 DEF AskForCall, Refuse, Allow, OpenLine, LineRaises, TakeAnswer
<1>7. CASE ApproveOnce \/ ApproveFiles \/ ChoosePrefix \/ CountPrefix \/ ConfirmPrefix \/ Reject
  BY <1>1, <1>7, AnswerIs
<1> QED
  BY <1>2, <1>3, <1>4, <1>5, <1>6, <1>7 DEF TurnStep

\* The turn's steps: what becomes of the question.
LEMMA TurnStepLine ==
  ASSUME TypeInv, TurnStep
  PROVE  /\ line' \in Line /\ (line'.state = "none" => line' = NoLine)
         /\ line' # NoLine => turn'.pc = "wait"
<1>1. /\ line \in Line /\ (line.state = "none" => line = NoLine) /\ turn \in Turns
      /\ (line # NoLine => turn.pc = "wait")
  BY DEF TypeInv, TurnType
<1>2. NoLine \in Line /\ NoLine.state = "none"
  BY DEF NoLine, Line, LineState
<1>3. CASE OpenLine
  <2>1. line' = [state |-> "open", text |-> "none"] /\ turn'.pc = "wait"
    BY <1>1, <1>3 DEF OpenLine, Turns
  <2> QED
    BY <2>1 DEF Line, LineState
<1>4. CASE \/ ApproveOnce \/ ApproveFiles \/ ChoosePrefix \/ CountPrefix \/ ConfirmPrefix \/ Reject
           \/ LineRaises
  <2>1. line' = NoLine
    BY <1>4, AnswerIs DEF LineRaises, TakeAnswer
  <2> QED
    BY <1>2, <2>1
<1>5. CASE \/ \E target \in Target : AskForCall(target)
           \/ CompleteTurn \/ Refuse \/ Allow \/ Request \/ Grant \/ Resolve \/ Start
           \/ HandlerReturns \/ CloseCall \/ EndTurn
  <2>1. line' = line /\ turn.pc # "wait"
    BY <1>5 DEF AskForCall, CompleteTurn, Refuse, Allow, Request, Grant, Resolve, Start,
                HandlerReturns, CloseCall, EndTurn
  <2> QED
    BY <1>1, <2>1
<1> QED
  BY <1>3, <1>4, <1>5 DEF TurnStep

\* The turn's steps leave the rest alone.
LEMMA TurnStepShell ==
  ASSUME TurnStep
  PROVE  UNCHANGED <<app, exiting, session, queue, raw, reader, ceiling, inputs, interrupts, consents>>
BY DEF TurnStep, AskForCall, CompleteTurn, Refuse, Allow, Request, OpenLine, ApproveOnce,
       ApproveFiles, ChoosePrefix, CountPrefix, ConfirmPrefix, Reject, LineRaises, Grant, Resolve,
       Start, HandlerReturns, CloseCall, EndTurn, TakeAnswer, TurnOnly, Counters

LEMMA TurnStepTypes == ASSUME TypeInv, TurnStep PROVE TypeInv'
<1>1. ShellType'
  BY TurnStepShell DEF TypeInv, ShellType
<1>2. LogType'
  BY TurnWrites, LogStays DEF TypeInv, LogType, All
<1>3. TurnType'
  <2>1. app = "running" /\ session \in Session
    BY TurnStepTurn DEF TypeInv, TurnType
  <2> QED
    BY <2>1, TurnStepTurn, TurnStepLine, TurnStepShell DEF TurnType
<1> QED
  BY <1>1, <1>2, <1>3 DEF TypeInv

\* A question's future is settled once.
LEMMA SettleIs ==
  ASSUME TypeInv, NEW state \in {"eof", "cancelled", "answered"}, NEW text \in Text \cup {"none"},
         Settle(state, text)
  PROVE  /\ line' \in Line /\ (line'.state = "none" => line' = NoLine)
         /\ line' # NoLine => line # NoLine
         /\ line' = line \/ (line.state = "open" /\ line' = [state |-> state, text |-> text])
<1>1. line \in Line /\ (line.state = "none" => line = NoLine)
  BY DEF TypeInv, TurnType
<1>2. CASE line.state = "open"
  <2>1. line' = [state |-> state, text |-> text] /\ line # NoLine
    BY <1>2 DEF Settle, NoLine
  <2> QED
    BY <1>2, <2>1 DEF Line, LineState
<1>3. CASE line.state # "open"
  <2>1. line' = line
    BY <1>3 DEF Settle
  <2> QED
    BY <1>1, <2>1
<1> QED
  BY <1>2, <1>3

LEMMA RouteTypes == ASSUME TypeInv, Route PROVE TypeInv'
<1>1. UNCHANGED <<app, exiting, session, turn, log, ceiling>> /\ raw' = "none"
  BY DEF Route
<1>2. \/ line' = line
      \/ \E state \in {"eof", "cancelled", "answered"}, text \in Text \cup {"none"} : Settle(state, text)
  BY DEF Route, RouteEof, RouteInterrupt, RouteAnswer, RouteAction
<1>3. queue' = queue \/ \E action \in Action : queue' = Append(queue, action)
  BY DEF Route, RouteEof, RouteInterrupt, RouteAnswer, RouteAction, Queue, Action
<1>4. reader' \in {reader, FALSE} /\ consents' \in {consents, consents + 1}
  BY DEF Route, RouteEof, RouteInterrupt, RouteAnswer, RouteAction
<1>5. ShellType'
  <2>1. queue \in Seq(Action) /\ consents \in Nat
    BY DEF TypeInv, ShellType
  <2>2. queue' \in Seq(Action)
    BY <1>3, <2>1
  <2>3. consents' \in Nat
    BY <1>4, <2>1
  <2> QED
    BY <1>1, <1>4, <2>2, <2>3 DEF TypeInv, ShellType
<1>6. LogType'
  BY <1>1 DEF TypeInv, LogType, All
<1>7. /\ line' \in Line /\ (line'.state = "none" => line' = NoLine)
      /\ line' # NoLine => line # NoLine
  BY <1>2, SettleIs DEF TypeInv, TurnType
<1>8. TurnType'
  BY <1>1, <1>7 DEF TypeInv, TurnType
<1> QED
  BY <1>5, <1>6, <1>8 DEF TypeInv

\* The main loop between turns: what it writes.
LEMMA IdleWrites ==
  ASSUME TypeInv, TakeIdle
  PROVE  \/ log' = log
         \/ \E s \in Session : \E fact \in Facts :
              /\ Adds(s, fact)
              /\ fact.type \in {"turn", "ended", "recovery"} \/ (fact.type = "revoked" /\ UNCHANGED turn)
<1>1. app = "idle" /\ log \in [Session -> Seq(Facts)]
  BY DEF TakeIdle, TypeInv, LogType
<1>2. \A type \in {"turn", "ended", "recovery"} : Note(type) \in Facts /\ Note(type).type = type
  BY NotesAre DEF FactType
<1>3. ASSUME NEW action, TakeRevoke(action)
      PROVE  \/ log' = log
             \/ \E s \in Session : \E fact \in Facts : Adds(s, fact) /\ fact.type = "revoked" /\ UNCHANGED turn
  <2>1. UNCHANGED turn
    BY <1>3 DEF TakeRevoke, StayIdle
  <2>2. CASE log' = log
    BY <2>2
  <2>3. ASSUME session # NoSession, NEW r \in ActiveRules(log[session]),
               log' = [log EXCEPT ![session] = Append(@, Fact("revoked", "none", r))]
        PROVE  \E s \in Session : \E fact \in Facts : Adds(s, fact) /\ fact.type = "revoked"
    <3>1. session \in Session /\ r \in Rules
      BY <1>1, <2>3, ActiveType DEF TypeInv, ShellType
    <3>2. Fact("revoked", "none", r) \in Facts /\ Fact("revoked", "none", r).type = "revoked"
      BY <3>1, NotesAre DEF FactType
    <3> QED
      BY <2>3, <3>1, <3>2 DEF Adds
  <2> QED
    BY <1>3, <2>1, <2>2, <2>3 DEF TakeRevoke
<1>4. ASSUME NEW action, TakeResume(action)
      PROVE  \/ log' = log
             \/ \E s \in Session : \E fact \in Facts : Adds(s, fact) /\ fact.type \in {"ended", "recovery"}
  <2>1. CASE log' = log
    BY <2>1
  <2>2. ASSUME NEW s \in Session, NEW chosen \in Session, Prepared(s, chosen), log' # log
        PROVE  \E u \in Session : \E fact \in Facts : Adds(u, fact) /\ fact.type \in {"ended", "recovery"}
    <3>1. CASE IsUncertain(log[s])
      <4>1. log[chosen] = <<>> /\ log' = [log EXCEPT ![chosen] = <<Note("recovery")>>]
        BY <2>2, <3>1 DEF Prepared, Unused
      <4>2. Append(log[chosen], Note("recovery")) = <<Note("recovery")>>
        BY <4>1
      <4>3. Adds(chosen, Note("recovery"))
        BY <1>1, <4>1, <4>2 DEF Adds
      <4> QED
        BY <1>2, <4>3
    <3>2. CASE ~IsUncertain(log[s])
      <4>1. Adds(s, Note("ended"))
        BY <2>2, <3>2 DEF Prepared, Adds
      <4> QED
        BY <1>2, <4>1
    <3> QED
      BY <3>1, <3>2
  <2> QED
    BY <1>4, <2>1, <2>2 DEF TakeResume
<1>5. ASSUME NEW action, TakePrompt(action)
      PROVE  log' = log \/ \E s \in Session : Adds(s, Note("turn"))
  <2>1. log' = log \/ \E s \in (IF session = NoSession THEN Unused ELSE {session}) : Adds(s, Note("turn"))
    BY <1>5 DEF TakePrompt, Adds
  <2>2. (IF session = NoSession THEN Unused ELSE {session}) \subseteq Session
    BY DEF TypeInv, ShellType, Unused
  <2> QED
    BY <2>1, <2>2
<1>6. ASSUME NEW action, TakeExit(action) \/ TakeNew(action) \/ DropPrompt(action) PROVE log' = log
  BY <1>6 DEF TakeExit, TakeNew, DropPrompt
<1> QED
  BY <1>2, <1>3, <1>4, <1>5, <1>6 DEF TakeIdle

LEMMA IdleTypes == ASSUME TypeInv, TakeIdle PROVE TypeInv'
<1>1. /\ app = "idle" /\ queue \in Seq(Action) /\ queue # <<>> /\ queue' = Tail(queue)
      /\ UNCHANGED <<raw, line, ceiling, consents>>
  BY DEF TakeIdle, TypeInv, ShellType, Counters
<1>2. turn \in Turns /\ turn.pc = "done" /\ line = NoLine /\ line \in Line
  BY <1>1 DEF TypeInv, TurnType
<1>3. LogType'
  <2>1. log' = log \/ \E s \in Session : \E fact \in Facts : Adds(s, fact)
    BY IdleWrites
  <2> QED
    BY <2>1, LogStays DEF TypeInv, LogType, All
<1>4. /\ app' \in {"idle", "running", "exited"} /\ exiting' = exiting
      /\ reader' \in {reader, FALSE} /\ session' \in Session \cup {NoSession}
      /\ app' = "running" => session' \in Session
      /\ app' # "running" => turn' = turn
      /\ turn' = turn \/ \E s \in Session : turn' = FreshTurn(log[s])
  <2>1. session \in Session \cup {NoSession} /\ Unused \subseteq Session
    BY DEF TypeInv, ShellType, Unused
  <2>2. ASSUME NEW action, TakePrompt(action)
        PROVE  /\ app' \in {"idle", "running"} /\ exiting' = exiting /\ reader' = reader
               /\ session' \in Session \cup {NoSession}
               /\ app' = "running" => session' \in Session
               /\ app' # "running" => turn' = turn
               /\ turn' = turn \/ \E s \in Session : turn' = FreshTurn(log[s])
    BY <1>1, <2>1, <2>2 DEF TakePrompt, StayIdle
  <2>3. ASSUME NEW action, TakeExit(action) \/ TakeNew(action) \/ TakeRevoke(action)
                           \/ TakeResume(action) \/ DropPrompt(action)
        PROVE  /\ app' \in {"idle", "exited"} /\ exiting' = exiting /\ reader' \in {reader, FALSE}
               /\ session' \in Session \cup {NoSession} /\ turn' = turn
    BY <1>1, <2>1, <2>3 DEF TakeExit, Leave, TakeNew, TakeRevoke, TakeResume, DropPrompt, StayIdle
  <2> QED
    BY <2>2, <2>3 DEF TakeIdle
<1>5. turn' \in Turns /\ (turn'.pc \in Calling => turn'.target \in Target)
  <2>1. CASE turn' = turn
    BY <1>2, <2>1 DEF Calling
  <2>2. ASSUME NEW s \in Session, turn' = FreshTurn(log[s])
        PROVE  turn' \in Turns /\ turn'.pc = "model"
    <3>1. ActiveRules(log[s]) \subseteq Rules
      BY ActiveType DEF TypeInv, LogType
    <3>2. 0 \in 0..MaxCalls
      BY InputAssumption
    <3> QED
      BY <2>2, <3>1, <3>2 DEF FreshTurn, NoTurn, Turns, Pc, Stages
  <2> QED
    BY <1>4, <2>1, <2>2 DEF Calling
<1>6. ShellType'
  <2>1. queue' \in Seq(Action)
    BY <1>1
  <2> QED
    BY <1>1, <1>4, <2>1 DEF TypeInv, ShellType
<1>7. TurnType'
  BY <1>1, <1>2, <1>4, <1>5 DEF TurnType, NoLine
<1> QED
  BY <1>3, <1>6, <1>7 DEF TypeInv

LEMMA RunningTypes == ASSUME TypeInv, TakeRunning PROVE TypeInv'
<1>1. /\ app = "running" /\ queue \in Seq(Action) /\ queue # <<>> /\ queue' = Tail(queue)
      /\ UNCHANGED <<app, session, raw, reader, log, ceiling, consents>>
      /\ exiting' \in BOOLEAN
      /\ UNCHANGED <<turn, line>> \/ CancelTurn
  BY DEF TakeRunning, TypeInv, ShellType, Counters
<1>2. ShellType'
  <2>1. queue' \in Seq(Action)
    BY <1>1
  <2> QED
    BY <1>1, <2>1 DEF TypeInv, ShellType
<1>3. LogType'
  BY <1>1 DEF TypeInv, LogType, All
<1>4. TurnType'
  <2>1. CASE UNCHANGED <<turn, line>>
    BY <1>1, <2>1 DEF TypeInv, TurnType
  <2>2. CASE CancelTurn
    <3>1. turn' \in Turns /\ turn'.pc \notin Calling /\ line' = NoLine
      BY <2>2, CancelledIs DEF CancelTurn, TypeInv, TurnType, Calling
    <3>2. NoLine \in Line
      BY DEF NoLine, Line, LineState
    <3> QED
      BY <1>1, <3>1, <3>2 DEF TypeInv, TurnType
  <2> QED
    BY <1>1, <2>1, <2>2
<1> QED
  BY <1>2, <1>3, <1>4 DEF TypeInv

\* Every step keeps the types.
LEMMA TypeStep == ASSUME TypeInv, [Next]_vars PROVE TypeInv'
<1>1. ASSUME NEW input \in Text \cup Typed \cup {"eof", "interrupt"}, Submit(input) PROVE TypeInv'
  BY <1>1 DEF Submit, TypeInv, ShellType, LogType, All, TurnType
<1>2. CASE TurnReturns
  <2>1. /\ UNCHANGED <<exiting, session, queue, raw, line, turn, log, ceiling, consents>>
        /\ turn.pc = "done" /\ app' \in {"idle", "exited"} /\ reader' \in {reader, FALSE}
    BY <1>2 DEF TurnReturns, Leave, Counters
  <2> QED
    BY <2>1 DEF TypeInv, ShellType, LogType, All, TurnType
<1>3. CASE UNCHANGED vars
  BY <1>3 DEF vars, TypeInv, ShellType, LogType, All, TurnType
<1> QED
  BY <1>1, <1>2, <1>3, RouteTypes, IdleTypes, RunningTypes, TurnStepTypes DEF Next, AppStep

LEMMA TypeInit == Init => TypeInv
<1> SUFFICES ASSUME Init PROVE TypeInv
  OBVIOUS
<1>1. ShellType
  <2>1. <<>> \in Seq(Action)
    OBVIOUS
  <2> QED
    BY <2>1 DEF Init, ShellType
<1>2. LogType
  <2>1. \A type : All(type) = {}
    BY DEF Init, All, FactsOf
  <2>2. <<>> \in Seq(Facts) /\ IsFiniteSet({})
    BY FS_EmptySet
  <2> QED
    BY <2>1, <2>2 DEF Init, LogType
<1>3. TurnType
  BY InputAssumption DEF Init, TurnType, NoLine, Line, LineState, NoTurn, Turns, Pc, Stages, Calling
<1> QED
  BY <1>1, <1>2, <1>3 DEF TypeInv

\* Every variable keeps its type, and only a running turn holds a question open.
THEOREM ConsoleTypes == Spec => []TypeOK
<1>1. TypeInv /\ [Next]_vars => TypeInv'
  BY TypeStep
<1>2. TypeInv => TypeOK
  <2> SUFFICES ASSUME TypeInv PROVE TypeOK
    OBVIOUS
  <2>1. line.state \in LineState /\ line.text \in Text \cup {"none"}
    BY DEF TypeInv, TurnType, Line
  <2>2. turn.pc \in Pc /\ turn.rejected \subseteq Target /\ turn.calls \in 0..MaxCalls
    BY DEF TypeInv, TurnType, Turns
  <2> QED
    BY <2>1, <2>2 DEF TypeInv, ShellType, TurnType, TypeOK, Action
<1> QED
  BY <1>1, <1>2, TypeInit, PTL DEF Spec

-------------------------------------------------------------------------------
(* What may act.                                                           *)

\* The user's approval of this call: in its turn, and no call has used it.
Approved(facts, i) ==
  \E t \in FactsOf(facts, "turn"), k \in FactsOf(facts, "approved") :
    /\ t < k /\ k < i
    /\ facts[k].target = facts[i].target
    /\ \A j \in FactsOf(facts, "turn") : j < i => j < k
    /\ \A j \in FactsOf(facts, "started") : ~(k < j /\ j < i)

EffectFact(facts, i) ==
  ~Denied(facts[i].target) /\ (Approved(facts, i) \/ AllowedByRule(facts, i))

\* A rejected call is asked again or run after another turn has begun only.
RejectFact(facts, j) ==
  \A i \in FactsOf(facts, "rejected") :
    i < j /\ facts[i].target = facts[j].target =>
      \E k \in FactsOf(facts, "turn") : i < k /\ k < j

FactInv ==
  \A s \in Session :
    /\ \A i \in FactsOf(log[s], "started") : EffectFact(log[s], i)
    /\ \A j \in FactsOf(log[s], "requested") \cup FactsOf(log[s], "started") : RejectFact(log[s], j)

\* What was rejected since the last turn began is among these targets.
Remembers(facts, rejected) ==
  \A i \in FactsOf(facts, "rejected") :
    facts[i].target \in rejected \/ \E k \in FactsOf(facts, "turn") : i < k

\* These rules have been granted and not been revoked since.
Grants(facts, rules) ==
  \A r \in rules : \E g \in FactsOf(facts, "granted") :
    /\ facts[g].rule = r
    /\ \A j \in FactsOf(facts, "revoked") : facts[j].rule = r => j < g

\* The last fact approves this call.
JustApproved(facts, target) ==
  /\ facts # <<>>
  /\ facts[Len(facts)].type = "approved" /\ facts[Len(facts)].target = target
  /\ FactsOf(facts, "turn") # {}

\* The running turn remembers its rejections, its rules are active, and the call it
\* has decided on is neither rejected nor denied.
TurnInv ==
  /\ turn.pc # "done" =>
       /\ Remembers(log[session], turn.rejected)
       /\ Grants(log[session], turn.rules)
       /\ FactsOf(log[session], "turn") # {}
  /\ turn.pc \in {"ask", "wait", "grant", "resolve", "start"} =>
       turn.target \notin turn.rejected /\ ~Denied(turn.target)
  /\ turn.pc = "start" =>
       JustApproved(log[session], turn.target) \/ \E r \in turn.rules : Covers(r, turn.target)

\* An answer that has approved, but is not in a log yet.
Pending ==
  IF \/ turn.pc \in {"grant", "resolve"} /\ turn.approved
     \/ line.state = "answered" /\ line.text \in {"y", "f", "d"}
    THEN 1 ELSE 0

ConsentInv == Cardinality(All("approved")) + Pending <= consents

\* A fact more: what is where.
LEMMA AppendFact ==
  ASSUME NEW facts \in Seq(Facts), NEW fact \in Facts
  PROVE  /\ Len(facts) \in Nat /\ DOMAIN facts = 1..Len(facts)
         /\ Append(facts, fact)[Len(facts) + 1] = fact
         /\ \A i \in 1..Len(facts) : Append(facts, fact)[i] = facts[i]
         /\ \A type : /\ FactsOf(facts, type) \subseteq 1..Len(facts)
                      /\ FactsOf(facts, type) \subseteq FactsOf(Append(facts, fact), type)
                      /\ FactsOf(Append(facts, fact), type) \subseteq
                           FactsOf(facts, type) \cup {Len(facts) + 1}
                      /\ fact.type = type => Len(facts) + 1 \in FactsOf(Append(facts, fact), type)
                      /\ fact.type # type =>
                           FactsOf(Append(facts, fact), type) = FactsOf(facts, type)
         /\ Len(Append(facts, fact)) = Len(facts) + 1 /\ Append(facts, fact) # <<>>
<1> DEFINE new == Append(facts, fact)
<1>1. /\ Len(facts) \in Nat /\ DOMAIN facts = 1..Len(facts)
      /\ DOMAIN new = 1..(Len(facts) + 1) /\ new[Len(facts) + 1] = fact
      /\ \A i \in 1..Len(facts) : new[i] = facts[i]
      /\ Len(new) = Len(facts) + 1 /\ new # <<>>
  OBVIOUS
<1> HIDE DEF new
<1>2. ASSUME NEW type
      PROVE  /\ FactsOf(facts, type) \subseteq 1..Len(facts)
             /\ FactsOf(facts, type) \subseteq FactsOf(new, type)
             /\ FactsOf(new, type) \subseteq FactsOf(facts, type) \cup {Len(facts) + 1}
             /\ fact.type = type => Len(facts) + 1 \in FactsOf(new, type)
             /\ fact.type # type => FactsOf(new, type) = FactsOf(facts, type)
  BY <1>1 DEF FactsOf
<1> QED
  BY <1>1, <1>2 DEF new

\* What made an effect right makes it right when there are more facts.
LEMMA EffectKept ==
  ASSUME NEW facts \in Seq(Facts), NEW fact \in Facts, NEW i \in 1..Len(facts),
         EffectFact(facts, i)
  PROVE  EffectFact(Append(facts, fact), i)
<1> DEFINE new == Append(facts, fact)
           n == Len(facts)
<1>1. /\ n \in Nat /\ \A k \in 1..n : new[k] = facts[k]
      /\ \A type : /\ FactsOf(facts, type) \subseteq 1..n
                   /\ FactsOf(facts, type) \subseteq FactsOf(new, type)
                   /\ FactsOf(new, type) \subseteq FactsOf(facts, type) \cup {n + 1}
  BY AppendFact
<1>2. EffectFact(facts, i) /\ i \in 1..n
  OBVIOUS
<1> HIDE DEF new, n
<1>3. \A type : \A j \in FactsOf(new, type) : j < i => j \in FactsOf(facts, type)
  BY <1>1, <1>2
<1>4. ASSUME Approved(facts, i) PROVE Approved(new, i)
  <2>1. PICK t \in FactsOf(facts, "turn"), k \in FactsOf(facts, "approved") :
          /\ t < k /\ k < i
          /\ facts[k].target = facts[i].target
          /\ \A j \in FactsOf(facts, "turn") : j < i => j < k
          /\ \A j \in FactsOf(facts, "started") : ~(k < j /\ j < i)
    BY <1>4 DEF Approved
  <2>2. t \in FactsOf(new, "turn") /\ k \in FactsOf(new, "approved") /\ new[k].target = new[i].target
    BY <1>1, <1>2, <2>1
  <2> QED
    BY <1>3, <2>1, <2>2 DEF Approved
<1>5. ASSUME AllowedByRule(facts, i) PROVE AllowedByRule(new, i)
  <2>1. PICK g \in FactsOf(facts, "granted") :
          /\ g < i /\ Covers(facts[g].rule, facts[i].target)
          /\ \A j \in FactsOf(facts, "revoked") : ~(g < j /\ j < i /\ facts[j].rule = facts[g].rule)
    BY <1>5 DEF AllowedByRule
  <2>2. g \in FactsOf(new, "granted") /\ new[g] = facts[g] /\ new[i] = facts[i]
    BY <1>1, <1>2, <2>1
  <2>3. ASSUME NEW j \in FactsOf(new, "revoked"), g < j, j < i, new[j].rule = new[g].rule PROVE FALSE
    <3>1. j \in FactsOf(facts, "revoked") /\ new[j] = facts[j]
      BY <1>1, <1>3, <2>3
    <3> QED
      BY <2>1, <2>2, <2>3, <3>1
  <2> QED
    BY <2>1, <2>2, <2>3 DEF AllowedByRule
<1>6. new[i] = facts[i]
  BY <1>1, <1>2
<1> QED
  BY <1>2, <1>4, <1>5, <1>6 DEF EffectFact, new

LEMMA RejectKept ==
  ASSUME NEW facts \in Seq(Facts), NEW fact \in Facts, NEW j \in 1..Len(facts),
         RejectFact(facts, j)
  PROVE  RejectFact(Append(facts, fact), j)
<1> DEFINE new == Append(facts, fact)
           n == Len(facts)
<1>1. /\ n \in Nat /\ \A k \in 1..n : new[k] = facts[k]
      /\ \A type : /\ FactsOf(facts, type) \subseteq 1..n
                   /\ FactsOf(facts, type) \subseteq FactsOf(new, type)
                   /\ FactsOf(new, type) \subseteq FactsOf(facts, type) \cup {n + 1}
  BY AppendFact
<1>2. RejectFact(facts, j) /\ j \in 1..n
  OBVIOUS
<1> HIDE DEF new, n
<1>3. ASSUME NEW i \in FactsOf(new, "rejected"), i < j, new[i].target = new[j].target
      PROVE  \E k \in FactsOf(new, "turn") : i < k /\ k < j
  <2>1. i \in FactsOf(facts, "rejected") /\ facts[i].target = facts[j].target
    BY <1>1, <1>2, <1>3
  <2>2. PICK k \in FactsOf(facts, "turn") : i < k /\ k < j
    BY <1>2, <1>3, <2>1 DEF RejectFact
  <2> QED
    BY <1>1, <2>2
<1> QED
  BY <1>3 DEF RejectFact, new

\* A call that starts now: approved a moment ago, or under an active rule.
LEMMA StartedNow ==
  ASSUME NEW facts \in Seq(Facts), NEW fact \in Facts, fact.type = "started",
         ~Denied(fact.target), NEW rules, Grants(facts, rules),
         JustApproved(facts, fact.target) \/ \E r \in rules : Covers(r, fact.target)
  PROVE  EffectFact(Append(facts, fact), Len(facts) + 1)
<1> DEFINE new == Append(facts, fact)
           n == Len(facts)
           i == n + 1
<1>1. /\ n \in Nat /\ \A k \in 1..n : new[k] = facts[k]
      /\ new[i] = fact /\ DOMAIN facts = 1..n
      /\ \A type : /\ FactsOf(facts, type) \subseteq 1..n
                   /\ FactsOf(facts, type) \subseteq FactsOf(new, type)
                   /\ FactsOf(new, type) \subseteq FactsOf(facts, type) \cup {i}
                   /\ fact.type # type => FactsOf(new, type) = FactsOf(facts, type)
  BY AppendFact
<1> HIDE DEF new
<1>2. ASSUME JustApproved(facts, fact.target) PROVE Approved(new, i)
  <2>1. /\ n \in 1..n /\ facts[n].type = "approved" /\ facts[n].target = fact.target
        /\ n \in FactsOf(facts, "approved")
    BY <1>1, <1>2 DEF JustApproved, FactsOf
  <2>2. PICK t \in FactsOf(facts, "turn") : TRUE
    BY <1>2 DEF JustApproved
  <2>3. \A j \in FactsOf(facts, "turn") : j \in 1..n /\ j # n
    BY <1>1, <2>1 DEF FactsOf
  <2>4. n \in FactsOf(new, "approved") /\ n < i /\ new[n].target = new[i].target
    BY <1>1, <2>1
  <2>5. FactsOf(new, "turn") = FactsOf(facts, "turn")
    BY <1>1
  <2>6. \A j \in FactsOf(new, "turn") : j < n
    BY <1>1, <2>3, <2>5
  <2>7. \A j \in FactsOf(new, "started") : ~(n < j /\ j < i)
    BY <1>1
  <2> QED
    BY <2>2, <2>4, <2>5, <2>6, <2>7 DEF Approved
<1>3. ASSUME NEW r \in rules, Covers(r, fact.target) PROVE AllowedByRule(new, i)
  <2>1. PICK g \in FactsOf(facts, "granted") :
          /\ facts[g].rule = r
          /\ \A j \in FactsOf(facts, "revoked") : facts[j].rule = r => j < g
    BY DEF Grants
  <2>2. g \in FactsOf(new, "granted") /\ g \in 1..n /\ g < i /\ new[g] = facts[g]
    BY <1>1, <2>1
  <2>3. ASSUME NEW j \in FactsOf(new, "revoked"), g < j, j < i, new[j].rule = new[g].rule PROVE FALSE
    <3>1. j \in FactsOf(facts, "revoked") /\ new[j] = facts[j] /\ j \in 1..n
      BY <1>1, <2>3
    <3> QED
      BY <2>1, <2>2, <2>3, <3>1
  <2> QED
    BY <1>1, <1>3, <2>1, <2>2, <2>3 DEF AllowedByRule
<1>4. ~Denied(new[i].target)
  BY <1>1
<1> QED
  BY <1>2, <1>3, <1>4 DEF EffectFact, new

\* A call that is asked or started now has not been rejected in this turn.
LEMMA AskedNow ==
  ASSUME NEW facts \in Seq(Facts), NEW fact \in Facts, fact.type # "rejected",
         NEW rejected, Remembers(facts, rejected), fact.target \notin rejected
  PROVE  RejectFact(Append(facts, fact), Len(facts) + 1)
<1> DEFINE new == Append(facts, fact)
           n == Len(facts)
<1>1. /\ n \in Nat /\ \A k \in 1..n : new[k] = facts[k]
      /\ new[n + 1] = fact
      /\ \A type : /\ FactsOf(facts, type) \subseteq 1..n
                   /\ FactsOf(facts, type) \subseteq FactsOf(new, type)
                   /\ fact.type # type => FactsOf(new, type) = FactsOf(facts, type)
  BY AppendFact
<1> HIDE DEF new, n
<1>2. ASSUME NEW i \in FactsOf(new, "rejected"), new[i].target = new[n + 1].target
      PROVE  \E k \in FactsOf(new, "turn") : i < k /\ k < n + 1
  <2>1. i \in FactsOf(facts, "rejected") /\ facts[i].target = fact.target
    BY <1>1, <1>2
  <2>2. PICK k \in FactsOf(facts, "turn") : i < k
    BY <2>1 DEF Remembers
  <2>3. k \in FactsOf(new, "turn") /\ k < n + 1
    BY <1>1, <2>2
  <2> QED
    BY <2>2, <2>3
<1> QED
  BY <1>2 DEF RejectFact, new, n

\* A fact that neither rejects nor revokes leaves the turn's knowledge true.
LEMMA KnowledgeKept ==
  ASSUME NEW facts \in Seq(Facts), NEW fact \in Facts, NEW rejected, NEW rules,
         fact.type \notin {"rejected", "revoked"},
         Remembers(facts, rejected), Grants(facts, rules), FactsOf(facts, "turn") # {}
  PROVE  /\ Remembers(Append(facts, fact), rejected)
         /\ Grants(Append(facts, fact), rules)
         /\ FactsOf(Append(facts, fact), "turn") # {}
<1> DEFINE new == Append(facts, fact)
           n == Len(facts)
<1>1. /\ \A k \in 1..n : new[k] = facts[k]
      /\ \A type : /\ FactsOf(facts, type) \subseteq 1..n
                   /\ FactsOf(facts, type) \subseteq FactsOf(new, type)
                   /\ fact.type # type => FactsOf(new, type) = FactsOf(facts, type)
  BY AppendFact
<1> HIDE DEF new, n
<1>2. FactsOf(new, "rejected") = FactsOf(facts, "rejected")
      /\ FactsOf(new, "revoked") = FactsOf(facts, "revoked")
  BY <1>1
<1>3. Remembers(new, rejected)
  BY <1>1, <1>2 DEF Remembers
<1>4. Grants(new, rules)
  <2> SUFFICES ASSUME NEW r \in rules
               PROVE  \E g \in FactsOf(new, "granted") :
                        /\ new[g].rule = r
                        /\ \A j \in FactsOf(new, "revoked") : new[j].rule = r => j < g
    BY DEF Grants
  <2>1. PICK g \in FactsOf(facts, "granted") :
          /\ facts[g].rule = r
          /\ \A j \in FactsOf(facts, "revoked") : facts[j].rule = r => j < g
    BY DEF Grants
  <2>2. g \in FactsOf(new, "granted") /\ new[g] = facts[g]
    BY <1>1, <2>1
  <2>3. \A j \in FactsOf(new, "revoked") : new[j] = facts[j] /\ j \in FactsOf(facts, "revoked")
    BY <1>1, <1>2
  <2> QED
    BY <2>1, <2>2, <2>3
<1>5. FactsOf(new, "turn") # {}
  BY <1>1
<1> QED
  BY <1>3, <1>4, <1>5 DEF new

\* A rule granted now is active.
LEMMA GrantedNow ==
  ASSUME NEW facts \in Seq(Facts), NEW fact \in Facts, fact.type = "granted", NEW rules,
         Grants(facts, rules)
  PROVE  Grants(Append(facts, fact), rules \cup {fact.rule})
<1> DEFINE new == Append(facts, fact)
           n == Len(facts)
<1>1. /\ n \in Nat /\ \A k \in 1..n : new[k] = facts[k]
      /\ new[n + 1] = fact /\ n + 1 \in FactsOf(new, "granted")
      /\ FactsOf(new, "revoked") = FactsOf(facts, "revoked")
      /\ FactsOf(facts, "revoked") \subseteq 1..n
      /\ FactsOf(facts, "granted") \subseteq 1..n
      /\ FactsOf(facts, "granted") \subseteq FactsOf(new, "granted")
  BY AppendFact
<1> HIDE DEF new, n
<1>2. ASSUME NEW r \in rules
      PROVE  \E g \in FactsOf(new, "granted") :
               /\ new[g].rule = r
               /\ \A j \in FactsOf(new, "revoked") : new[j].rule = r => j < g
  <2>1. PICK g \in FactsOf(facts, "granted") :
          /\ facts[g].rule = r
          /\ \A j \in FactsOf(facts, "revoked") : facts[j].rule = r => j < g
    BY DEF Grants
  <2>2. g \in FactsOf(new, "granted") /\ new[g] = facts[g]
    BY <1>1, <2>1
  <2>3. \A j \in FactsOf(new, "revoked") : new[j] = facts[j] /\ j \in FactsOf(facts, "revoked")
    BY <1>1
  <2> QED
    BY <2>1, <2>2, <2>3
<1>3. /\ new[n + 1].rule = fact.rule
      /\ \A j \in FactsOf(new, "revoked") : new[j].rule = fact.rule => j < n + 1
  BY <1>1
<1> QED
  BY <1>1, <1>2, <1>3 DEF Grants, new

\* What a turn that begins knows.
LEMMA FreshKnowledge ==
  ASSUME NEW facts \in Seq(Facts), NEW fact \in Facts, fact.type = "turn"
  PROVE  /\ Remembers(Append(facts, fact), {})
         /\ Grants(Append(facts, fact), ActiveRules(facts))
         /\ FactsOf(Append(facts, fact), "turn") # {}
<1> DEFINE new == Append(facts, fact)
           n == Len(facts)
<1>1. /\ n \in Nat /\ \A k \in 1..n : new[k] = facts[k]
      /\ n + 1 \in FactsOf(new, "turn")
      /\ FactsOf(new, "revoked") = FactsOf(facts, "revoked")
      /\ FactsOf(new, "rejected") = FactsOf(facts, "rejected")
      /\ \A type : FactsOf(facts, type) \subseteq 1..n
      /\ FactsOf(facts, "granted") \subseteq FactsOf(new, "granted")
  BY AppendFact
<1> HIDE DEF new, n
<1>2. Remembers(new, {})
  <2>1. \A i \in FactsOf(new, "rejected") : i < n + 1
    BY <1>1
  <2> QED
    BY <1>1, <2>1 DEF Remembers
<1>3. ASSUME NEW r \in ActiveRules(facts)
      PROVE  \E g \in FactsOf(new, "granted") :
               /\ new[g].rule = r
               /\ \A j \in FactsOf(new, "revoked") : new[j].rule = r => j < g
  <2>1. PICK g \in FactsOf(facts, "granted") : facts[g].rule = r /\ ~Revoked(facts, r.id)
    BY DEF ActiveRules
  <2>2. g \in FactsOf(new, "granted") /\ new[g] = facts[g]
    BY <1>1, <2>1
  <2>3. \A j \in FactsOf(new, "revoked") : new[j].rule # r
    BY <1>1, <2>1 DEF Revoked
  <2> QED
    BY <2>1, <2>2, <2>3
<1> QED
  BY <1>1, <1>2, <1>3 DEF Grants, new

\* A rejection recorded now is remembered.
LEMMA RejectedNow ==
  ASSUME NEW facts \in Seq(Facts), NEW fact \in Facts, NEW rejected, NEW rules,
         fact.type = "rejected",
         Remembers(facts, rejected), Grants(facts, rules), FactsOf(facts, "turn") # {}
  PROVE  /\ Remembers(Append(facts, fact), rejected \cup {fact.target})
         /\ Grants(Append(facts, fact), rules)
         /\ FactsOf(Append(facts, fact), "turn") # {}
<1> DEFINE new == Append(facts, fact)
           n == Len(facts)
<1>1. /\ \A k \in 1..n : new[k] = facts[k]
      /\ new[n + 1] = fact
      /\ \A type : /\ FactsOf(facts, type) \subseteq 1..n
                   /\ FactsOf(facts, type) \subseteq FactsOf(new, type)
                   /\ FactsOf(new, type) \subseteq FactsOf(facts, type) \cup {n + 1}
                   /\ fact.type # type => FactsOf(new, type) = FactsOf(facts, type)
  BY AppendFact
<1> HIDE DEF new, n
<1>2. Remembers(new, rejected \cup {fact.target})
  BY <1>1 DEF Remembers
<1>3. Grants(new, rules)
  <2> SUFFICES ASSUME NEW r \in rules
               PROVE  \E g \in FactsOf(new, "granted") :
                        /\ new[g].rule = r
                        /\ \A j \in FactsOf(new, "revoked") : new[j].rule = r => j < g
    BY DEF Grants
  <2>1. PICK g \in FactsOf(facts, "granted") :
          /\ facts[g].rule = r
          /\ \A j \in FactsOf(facts, "revoked") : facts[j].rule = r => j < g
    BY DEF Grants
  <2>2. g \in FactsOf(new, "granted") /\ new[g] = facts[g]
    BY <1>1, <2>1
  <2>3. \A j \in FactsOf(new, "revoked") : new[j] = facts[j] /\ j \in FactsOf(facts, "revoked")
    BY <1>1
  <2> QED
    BY <2>1, <2>2, <2>3
<1>4. FactsOf(new, "turn") # {}
  BY <1>1
<1> QED
  BY <1>2, <1>3, <1>4 DEF new

\* What a turn may know of a log.
Knows(facts, rejected, rules) ==
  Remembers(facts, rejected) /\ Grants(facts, rules) /\ FactsOf(facts, "turn") # {}

Deciding == {"ask", "wait", "grant", "resolve", "start"}

\* What it takes for the invariant of the turn to hold after a step.
LEMMA TurnLearned ==
  ASSUME ceiling' = ceiling,
         turn'.pc # "done" => Knows(log'[session'], turn'.rejected, turn'.rules),
         turn'.pc \in Deciding => turn'.target \notin turn'.rejected /\ ~Denied(turn'.target),
         turn'.pc = "start" =>
           JustApproved(log'[session'], turn'.target) \/ \E r \in turn'.rules : Covers(r, turn'.target)
  PROVE  TurnInv'
BY DEF TurnInv, Knows, Deciding, Denied

\* The steps of the turn keep it.
LEMMA TurnLearns == ASSUME TypeInv, TurnInv, TurnStep PROVE TurnInv'
<1> DEFINE facts == log[session]
<1>1. /\ session \in Session /\ session' = session /\ ceiling' = ceiling
      /\ facts \in Seq(Facts) /\ turn.pc # "done" /\ turn \in Turns
      /\ turn.pc \in Calling => turn.target \in Target
      /\ log \in [Session -> Seq(Facts)]
  BY TurnWrites, TurnStepTurn, TurnStepShell DEF TypeInv, LogType, TurnType
<1>2. Knows(facts, turn.rejected, turn.rules)
  BY <1>1 DEF TurnInv, Knows
<1>3. turn.pc \in Deciding => turn.target \notin turn.rejected /\ ~Denied(turn.target)
  BY DEF TurnInv, Deciding
<1>4. \A fact \in Facts : Adds(session, fact) => log'[session] = Append(facts, fact)
  BY <1>1 DEF Adds
<1>5. ASSUME log' = log \/ \E fact \in Facts : Adds(session, fact) /\ fact.type \notin {"rejected", "revoked"},
             turn'.rejected = turn.rejected, turn'.rules = turn.rules
      PROVE  Knows(log'[session'], turn'.rejected, turn'.rules)
  <2>1. CASE log' = log
    BY <1>1, <1>2, <1>5, <2>1
  <2>2. ASSUME NEW fact \in Facts, Adds(session, fact), fact.type \notin {"rejected", "revoked"}
        PROVE  Knows(log'[session'], turn'.rejected, turn'.rules)
    <3>1. Knows(Append(facts, fact), turn.rejected, turn.rules)
      BY <1>1, <1>2, <2>2, KnowledgeKept DEF Knows
    <3> QED
      BY <1>1, <1>4, <1>5, <2>2, <3>1
  <2> QED
    BY <1>5, <2>1, <2>2
<1>6. ASSUME NEW type \in FactType \ {"rejected", "revoked"}, NEW target \in Target \cup {"none"},
             NEW rule \in Rules, Record(Fact(type, target, rule))
      PROVE  \E fact \in Facts : Adds(session, fact) /\ fact.type \notin {"rejected", "revoked"}
  <2>1. Fact(type, target, rule) \in Facts /\ Fact(type, target, rule).type = type
    BY NotesAre
  <2> QED
    BY <1>6, <2>1 DEF Record, Adds
<1>7. NoRule \in Rules /\ turn.target \in Target \cup {"none"}
  BY <1>1 DEF NoRule, Rule, Rules, Turns
<1>8. CASE (\E target \in Target : AskForCall(target)) \/ Refuse
  <2>1. /\ log' = log /\ turn'.rejected = turn.rejected /\ turn'.rules = turn.rules
        /\ turn'.pc \notin Deciding
    BY <1>1, <1>8 DEF AskForCall, Refuse, Turns, Deciding
  <2> QED
    BY <1>1, <1>5, <2>1, TurnLearned DEF Deciding
<1>9. CASE CompleteTurn \/ EndTurn
  <2>1. turn'.pc = "done"
    BY <1>1, <1>9 DEF CompleteTurn, EndTurn, Turns
  <2> QED
    BY <1>1, <2>1, TurnLearned DEF Deciding
<1>10. CASE Allow
  <2>1. /\ log' = log /\ turn'.rejected = turn.rejected /\ turn'.rules = turn.rules
        /\ turn'.target = turn.target /\ turn.target \notin turn.rejected
        /\ Decision(turn.target, turn.rules) = "allow"
    BY <1>1, <1>10 DEF Allow, Turns
  <2>2. ~Denied(turn.target) /\ \E r \in turn.rules : Covers(r, turn.target)
    BY <2>1 DEF Decision
  <2> QED
    BY <1>1, <1>5, <2>1, <2>2, TurnLearned
<1>11. CASE Request
  <2>1. /\ turn'.rejected = turn.rejected /\ turn'.rules = turn.rules /\ turn'.pc = "ask"
        /\ turn'.target = turn.target /\ turn.target \notin turn.rejected
        /\ Decision(turn.target, turn.rules) = "ask"
        /\ Record(Fact("requested", turn.target, NoRule))
    BY <1>1, <1>11 DEF Request, Turns
  <2>2. ~Denied(turn.target)
    BY <2>1 DEF Decision
  <2> QED
    BY <1>1, <1>5, <1>6, <1>7, <2>1, <2>2, TurnLearned DEF FactType
<1>12. CASE OpenLine
  <2>1. /\ turn.pc = "ask" /\ turn'.rejected = turn.rejected /\ turn'.rules = turn.rules
        /\ turn'.pc = "wait" /\ turn'.target = turn.target /\ log' = log
    BY <1>1, <1>12 DEF OpenLine, Turns
  <2> QED
    BY <1>1, <1>3, <1>5, <2>1, TurnLearned DEF Deciding
<1>13. CASE ApproveOnce \/ ApproveFiles \/ ChoosePrefix \/ CountPrefix \/ ConfirmPrefix \/ Reject
  <2>1. /\ turn.pc = "wait" /\ turn'.rejected = turn.rejected /\ turn'.rules = turn.rules
        /\ turn'.pc \in {"ask", "grant", "resolve"} /\ turn'.target = turn.target /\ log' = log
    BY <1>13, AnswerIs
  <2> QED
    BY <1>1, <1>3, <1>5, <2>1, TurnLearned DEF Deciding
<1>14. CASE LineRaises
  <2>1. /\ turn'.rejected = turn.rejected /\ turn'.rules = turn.rules
        /\ turn'.pc \in {"closing", "done"} /\ log' = log
    BY <1>1, <1>14, CancelledIs DEF LineRaises, TakeAnswer
  <2> QED
    BY <1>1, <1>5, <2>1, TurnLearned DEF Deciding
<1>15. CASE Grant
  <2> DEFINE fact == Fact("granted", turn.target, NewRule)
  <2>1. /\ turn.pc = "grant" /\ Record(fact)
        /\ turn' = [turn EXCEPT !.pc = "resolve", !.rules = @ \cup {NewRule}]
    BY <1>15 DEF Grant, NewRule
  <2>2. NewRule \in Rules
    BY <2>1, NewRuleType
  <2>3. fact \in Facts /\ fact.type = "granted" /\ fact.rule = NewRule
    BY <1>7, <2>2, NotesAre DEF FactType
  <2>4. /\ turn'.rejected = turn.rejected /\ turn'.rules = turn.rules \cup {NewRule}
        /\ turn'.pc = "resolve" /\ turn'.target = turn.target
    BY <1>1, <2>1 DEF Turns
  <2>5. log'[session] = Append(facts, fact)
    BY <1>4, <2>1, <2>3 DEF Record, Adds
  <2> HIDE DEF fact
  <2>6. Knows(Append(facts, fact), turn.rejected, turn.rules \cup {NewRule})
    BY <1>1, <1>2, <2>3, KnowledgeKept, GrantedNow DEF Knows
  <2> QED
    BY <1>1, <1>3, <2>1, <2>4, <2>5, <2>6, TurnLearned DEF Deciding
<1>16. CASE Resolve
  <2> DEFINE fact == Fact(IF turn.approved THEN "approved" ELSE "rejected", turn.target, NoRule)
  <2>1. turn.pc = "resolve" /\ Record(fact) /\ turn.target \in Target
    BY <1>1, <1>16 DEF Resolve, Calling
  <2>2. /\ fact \in Facts /\ fact.target = turn.target
        /\ fact.type = IF turn.approved THEN "approved" ELSE "rejected"
    BY <2>1, NotesAre DEF FactType
  <2>3. log'[session] = Append(facts, fact)
    BY <1>4, <2>1, <2>2 DEF Record, Adds
  <2> HIDE DEF fact
  <2>4. CASE turn.approved
    <3>1. /\ turn'.rejected = turn.rejected /\ turn'.rules = turn.rules
          /\ turn'.pc = "start" /\ turn'.target = turn.target
      BY <1>1, <1>16, <2>4 DEF Resolve, Turns
    <3>2. Knows(Append(facts, fact), turn.rejected, turn.rules)
      BY <1>1, <1>2, <2>2, <2>4, KnowledgeKept DEF Knows
    <3>3. JustApproved(Append(facts, fact), turn.target)
      <4>1. /\ Append(facts, fact) # <<>>
            /\ Append(facts, fact)[Len(Append(facts, fact))] = fact
        BY <1>1, <2>2, AppendFact
      <4> QED
        BY <2>2, <2>4, <3>2, <4>1 DEF JustApproved, Knows
    <3> QED
      BY <1>1, <1>3, <2>1, <2>3, <3>1, <3>2, <3>3, TurnLearned DEF Deciding
  <2>5. CASE ~turn.approved
    <3>1. /\ turn'.rejected = turn.rejected \cup {turn.target} /\ turn'.rules = turn.rules
          /\ turn'.pc = "model"
      BY <1>1, <1>16, <2>5 DEF Resolve, Turns
    <3>2. Knows(Append(facts, fact), turn.rejected \cup {turn.target}, turn.rules)
      BY <1>1, <1>2, <2>2, <2>5, RejectedNow DEF Knows
    <3> QED
      BY <1>1, <2>3, <3>1, <3>2, TurnLearned DEF Deciding
  <2> QED
    BY <2>4, <2>5
<1>17. CASE Start \/ HandlerReturns \/ CloseCall
  <2>1. /\ turn'.rejected = turn.rejected /\ turn'.rules = turn.rules
        /\ turn'.pc \in {"act", "model", "closing"}
        /\ \E type \in {"started", "completed", "unknown"} : Record(Fact(type, turn.target, NoRule))
    BY <1>1, <1>17 DEF Start, HandlerReturns, CloseCall, Turns
  <2> QED
    BY <1>1, <1>5, <1>6, <1>7, <2>1, TurnLearned DEF FactType, Deciding
<1> QED
  BY <1>8, <1>9, <1>10, <1>11, <1>12, <1>13, <1>14, <1>15, <1>16, <1>17 DEF TurnStep

\* A turn that begins knows what it has to.
LEMMA IdleLearns == ASSUME TypeInv, TurnInv, TakeIdle PROVE TurnInv'
<1>1. turn.pc = "done" /\ ceiling' = ceiling /\ log \in [Session -> Seq(Facts)]
  BY DEF TakeIdle, TypeInv, TurnType, LogType
<1>2. ASSUME turn' = turn PROVE TurnInv'
  BY <1>1, <1>2 DEF TurnInv
<1>3. ASSUME NEW action, TakePrompt(action), turn' # turn PROVE TurnInv'
  <2>1. PICK s \in Session :
          /\ session' = s /\ log' = [log EXCEPT ![s] = Append(@, Note("turn"))]
          /\ turn' = FreshTurn(log[s])
    <3>1. (IF session = NoSession THEN Unused ELSE {session}) \subseteq Session
      BY DEF TypeInv, ShellType, Unused
    <3> QED
      BY <1>3, <3>1 DEF TakePrompt, StayIdle
  <2>2. Note("turn") \in Facts /\ Note("turn").type = "turn"
    BY NotesAre DEF FactType
  <2>3. log'[s] = Append(log[s], Note("turn"))
    BY <1>1, <2>1
  <2>4. /\ turn'.rejected = {} /\ turn'.rules = ActiveRules(log[s]) /\ turn'.pc = "model"
    BY <2>1 DEF FreshTurn, NoTurn
  <2>5. Knows(Append(log[s], Note("turn")), {}, ActiveRules(log[s]))
    BY <1>1, <2>2, FreshKnowledge DEF Knows
  <2> QED
    BY <1>1, <2>1, <2>3, <2>4, <2>5, TurnLearned DEF Deciding
<1>4. ASSUME NEW action, TakeExit(action) \/ TakeNew(action) \/ TakeRevoke(action)
                         \/ TakeResume(action) \/ DropPrompt(action)
      PROVE  turn' = turn
  BY <1>4 DEF TakeExit, TakeNew, TakeRevoke, TakeResume, DropPrompt, StayIdle
<1> QED
  BY <1>2, <1>3, <1>4 DEF TakeIdle

\* TurnInv is inductive.
LEMMA TurnInvStep == ASSUME TypeInv, TurnInv, [Next]_vars PROVE TurnInv'
<1>1. CASE UNCHANGED <<session, turn, log, ceiling>>
  BY <1>1 DEF TurnInv, Denied
<1>2. CASE TakeRunning
  <2>1. UNCHANGED <<session, log, ceiling>> /\ (UNCHANGED turn \/ turn' = Cancelled(turn))
    BY <1>2 DEF TakeRunning, CancelTurn
  <2>2. CASE turn' = Cancelled(turn)
    <3>1. /\ turn'.pc \in {"closing", "done"} /\ turn'.rejected = turn.rejected
          /\ turn'.rules = turn.rules /\ (turn.pc = "done" => turn'.pc = "done")
      BY <2>2, CancelledIs DEF TypeInv, TurnType
    <3> QED
      BY <2>1, <3>1 DEF TurnInv
  <2> QED
    BY <1>1, <2>1, <2>2
<1>3. \/ TurnStep \/ TakeIdle \/ TakeRunning
      \/ UNCHANGED <<session, turn, log, ceiling>>
  BY DEF Next, AppStep, vars, Submit, Route, TurnReturns
<1> QED
  BY <1>1, <1>2, <1>3, TurnLearns, IdleLearns

\* What it takes for the facts to stay right when one is added.
LEMMA FactsKept ==
  ASSUME TypeInv, FactInv, ceiling' = ceiling, NEW s \in Session, NEW fact \in Facts, Adds(s, fact),
         fact.type = "started" => EffectFact(Append(log[s], fact), Len(log[s]) + 1),
         fact.type \in {"requested", "started"} =>
           RejectFact(Append(log[s], fact), Len(log[s]) + 1)
  PROVE  FactInv'
<1> DEFINE facts == log[s]
           new == Append(facts, fact)
           n == Len(facts)
<1>1. /\ facts \in Seq(Facts) /\ log'[s] = new
      /\ \A u \in Session : u # s => log'[u] = log[u]
  BY AddsOne DEF TypeInv, LogType
<1>2. /\ n \in Nat
      /\ \A type : /\ FactsOf(facts, type) \subseteq 1..n
                   /\ FactsOf(new, type) \subseteq FactsOf(facts, type) \cup {n + 1}
                   /\ fact.type # type => FactsOf(new, type) = FactsOf(facts, type)
  BY <1>1, AppendFact
<1>3. ASSUME NEW i \in FactsOf(new, "started") PROVE EffectFact(new, i)
  <2>1. CASE i \in FactsOf(facts, "started")
    <3>1. i \in 1..Len(facts) /\ EffectFact(facts, i)
      BY <1>2, <2>1 DEF FactInv
    <3> QED
      BY <1>1, <3>1, EffectKept
  <2>2. CASE i \notin FactsOf(facts, "started")
    BY <1>2, <1>3, <2>2
  <2> QED
    BY <2>1, <2>2
<1>4. ASSUME NEW j \in FactsOf(new, "requested") \cup FactsOf(new, "started") PROVE RejectFact(new, j)
  <2>1. CASE j \in FactsOf(facts, "requested") \cup FactsOf(facts, "started")
    <3>1. j \in 1..Len(facts) /\ RejectFact(facts, j)
      BY <1>2, <2>1 DEF FactInv
    <3> QED
      BY <1>1, <3>1, RejectKept
  <2>2. CASE j \notin FactsOf(facts, "requested") \cup FactsOf(facts, "started")
    BY <1>2, <1>4, <2>2
  <2> QED
    BY <2>1, <2>2
<1> HIDE DEF new
<1>5. ASSUME NEW u \in Session
      PROVE  /\ \A i \in FactsOf(log'[u], "started") : EffectFact(log'[u], i)
             /\ \A j \in FactsOf(log'[u], "requested") \cup FactsOf(log'[u], "started") :
                  RejectFact(log'[u], j)
  <2>1. CASE u = s
    BY <1>1, <1>3, <1>4, <2>1
  <2>2. CASE u # s
    <3>1. log'[u] = log[u]
      BY <1>1, <2>2
    <3> QED
      BY <3>1 DEF FactInv
  <2> QED
    BY <2>1, <2>2
<1> QED
  BY <1>5 DEF FactInv, EffectFact, Denied

\* What the steps of the turn write, by type.
LEMMA TurnFact ==
  ASSUME TypeInv, TurnStep, ~Request, ~Start, ~Resolve
  PROVE  \/ log' = log
         \/ \E fact \in Facts : /\ Adds(session, fact)
                                /\ fact.type \in {"ended", "granted", "completed", "unknown"}
<1>1. NoRule \in Rules /\ turn.target \in Target \cup {"none"}
  BY DEF TypeInv, TurnType, Turns, NoRule, Rule, Rules
<1>2. CASE CompleteTurn \/ EndTurn
  <2>1. Note("ended") \in Facts /\ Note("ended").type = "ended"
    BY NotesAre DEF FactType
  <2> QED
    BY <1>2, <2>1 DEF CompleteTurn, EndTurn, Record, Adds
<1>3. CASE HandlerReturns \/ CloseCall
  <2>1. PICK type \in {"completed", "unknown"} : Record(Fact(type, turn.target, NoRule))
    BY <1>3 DEF HandlerReturns, CloseCall
  <2>2. Fact(type, turn.target, NoRule) \in Facts /\ Fact(type, turn.target, NoRule).type = type
    BY <1>1, NotesAre DEF FactType
  <2> QED
    BY <2>1, <2>2 DEF Record, Adds
<1>4. CASE Grant
  <2>1. NewRule \in Rules /\ Record(Fact("granted", turn.target, NewRule))
    BY <1>4, NewRuleType DEF Grant, NewRule
  <2>2. /\ Fact("granted", turn.target, NewRule) \in Facts
        /\ Fact("granted", turn.target, NewRule).type = "granted"
    BY <1>1, <2>1, NotesAre DEF FactType
  <2> QED
    BY <2>1, <2>2 DEF Record, Adds
<1>5. CASE (\E target \in Target : AskForCall(target)) \/ Refuse \/ Allow \/ OpenLine \/ LineRaises
  BY <1>5 DEF AskForCall, Refuse, Allow, OpenLine, LineRaises, TakeAnswer
<1>6. CASE ApproveOnce \/ ApproveFiles \/ ChoosePrefix \/ CountPrefix \/ ConfirmPrefix \/ Reject
  BY <1>6, AnswerIs
<1> QED
  BY <1>2, <1>3, <1>4, <1>5, <1>6 DEF TurnStep

\* What Request, Start and Resolve write.
LEMMA CallFact ==
  ASSUME TypeInv, Request \/ Start \/ Resolve
  PROVE  \E fact \in Facts :
           /\ Adds(session, fact) /\ fact.target = turn.target
           /\ Request => fact.type = "requested"
           /\ Start => fact.type = "started"
           /\ Resolve => fact.type = IF turn.approved THEN "approved" ELSE "rejected"
<1>1. turn.target \in Target
  BY DEF Request, Start, Resolve, TypeInv, TurnType, Calling
<1>2. PICK type \in {"requested", "started", "approved", "rejected"} :
        /\ Record(Fact(type, turn.target, NoRule))
        /\ Request => type = "requested"
        /\ Start => type = "started"
        /\ Resolve => type = IF turn.approved THEN "approved" ELSE "rejected"
  BY DEF Request, Start, Resolve
<1>3. /\ Fact(type, turn.target, NoRule) \in Facts /\ Fact(type, turn.target, NoRule).type = type
      /\ Fact(type, turn.target, NoRule).target = turn.target
  BY <1>1, NotesAre DEF FactType
<1> QED
  BY <1>2, <1>3 DEF Record, Adds

\* FactInv is inductive.
LEMMA FactStep == ASSUME TypeInv, TurnInv, FactInv, [Next]_vars PROVE FactInv'
<1>1. CASE UNCHANGED <<log, ceiling>>
  BY <1>1 DEF FactInv, EffectFact, Denied
<1>2. ASSUME NEW s \in Session, NEW fact \in Facts, Adds(s, fact), ceiling' = ceiling,
             fact.type \notin {"requested", "started"}
      PROVE  FactInv'
  BY <1>2, FactsKept
<1>3. CASE TurnStep
  <2>1. /\ session \in Session /\ ceiling' = ceiling /\ log[session] \in Seq(Facts)
        /\ turn.pc # "done"
    BY <1>3, TurnWrites, TurnStepTurn, TurnStepShell DEF TypeInv, LogType
  <2>2. CASE ~Request /\ ~Start /\ ~Resolve
    BY <1>1, <1>2, <1>3, <2>1, <2>2, TurnFact
  <2>3. CASE Request \/ Start \/ Resolve
    <3>1. PICK fact \in Facts :
            /\ Adds(session, fact) /\ fact.target = turn.target
            /\ Request => fact.type = "requested"
            /\ Start => fact.type = "started"
            /\ Resolve => fact.type = IF turn.approved THEN "approved" ELSE "rejected"
      BY <2>3, CallFact
    <3>2. CASE Resolve
      BY <1>2, <2>1, <3>1, <3>2
    <3>3. CASE Request \/ Start
      <4>1. Remembers(log[session], turn.rejected) /\ Grants(log[session], turn.rules)
        BY <2>1 DEF TurnInv
      <4>2. turn.target \notin turn.rejected
        BY <3>3 DEF Request, Start, TurnInv
      <4>3. RejectFact(Append(log[session], fact), Len(log[session]) + 1)
        BY <2>1, <3>1, <3>3, <4>1, <4>2, AskedNow
      <4>4. fact.type = "started" => EffectFact(Append(log[session], fact), Len(log[session]) + 1)
        <5> SUFFICES ASSUME fact.type = "started"
                     PROVE  EffectFact(Append(log[session], fact), Len(log[session]) + 1)
          OBVIOUS
        <5>1. turn.pc = "start"
          BY <3>1, <3>3 DEF Start
        <5>2. /\ ~Denied(fact.target)
              /\ JustApproved(log[session], fact.target) \/ \E r \in turn.rules : Covers(r, fact.target)
          BY <3>1, <5>1 DEF TurnInv
        <5> QED
          BY <2>1, <4>1, <5>2, StartedNow
      <4> QED
        BY <2>1, <3>1, <4>3, <4>4, FactsKept
    <3> QED
      BY <2>3, <3>2, <3>3
  <2> QED
    BY <2>2, <2>3
<1>4. CASE TakeIdle
  <2>1. ceiling' = ceiling
    BY <1>4 DEF TakeIdle
  <2>2. log' = log \/ \E s \in Session : \E fact \in Facts :
          Adds(s, fact) /\ fact.type \in {"turn", "ended", "recovery", "revoked"}
    BY <1>4, IdleWrites
  <2> QED
    BY <1>1, <1>2, <2>1, <2>2
<1>5. TurnStep \/ TakeIdle \/ UNCHANGED <<log, ceiling>>
  BY DEF Next, AppStep, vars, Submit, Route, TakeRunning, TurnReturns
<1> QED
  BY <1>1, <1>3, <1>4, <1>5

\* A fact of a turn that has begun has a last beginning before it.
LEMMA TurnStartIs ==
  ASSUME NEW facts \in Seq(Facts), NEW i \in DOMAIN facts,
         \E t \in FactsOf(facts, "turn") : t <= i
  PROVE  /\ TurnStart(facts, i) \in FactsOf(facts, "turn") /\ TurnStart(facts, i) <= i
         /\ \A j \in FactsOf(facts, "turn") : j <= i => j <= TurnStart(facts, i)
<1> DEFINE turns == {t \in FactsOf(facts, "turn") : t <= i}
           below == {i - t : t \in turns}
<1>1. i \in Nat /\ \A t \in turns : t \in Nat /\ i - t \in Nat
  BY DEF FactsOf
<1>2. below \subseteq Nat /\ below # {}
  BY <1>1
<1>3. \E d \in below : \A e \in below : ~ (<<e, d>> \in OpToRel(<, Nat))
  BY <1>2, NatLessThanWellFounded, WFMin
<1>4. PICK d \in below : \A e \in below : ~ (e < d)
  BY <1>2, <1>3 DEF OpToRel
<1>5. PICK m \in turns : d = i - m
  OBVIOUS
<1>6. ASSUME NEW t \in turns PROVE t <= m
  <2>1. i - t \in below
    OBVIOUS
  <2>2. ~ (i - t < i - m)
    BY <1>4, <1>5, <2>1
  <2> QED
    BY <1>1, <2>2
<1>7. m \in FactsOf(facts, "turn") /\ m <= i /\ \A j \in FactsOf(facts, "turn") : j <= i => j <= m
  BY <1>6
<1> QED
  BY <1>7 DEF TurnStart

\* FactInv says what the properties say.
LEMMA FactsAreRight == ASSUME TypeInv, FactInv PROVE EffectIsAllowed /\ RejectedStaysRejected
<1>1. \A s \in Session : log[s] \in Seq(Facts)
  BY DEF TypeInv, LogType
<1>2. ASSUME NEW facts \in Seq(Facts), NEW type PROVE FactsOf(facts, type) \subseteq 1..Len(facts)
  BY DEF FactsOf
<1>3. ASSUME NEW facts \in Seq(Facts), NEW i \in FactsOf(facts, "started"), Approved(facts, i)
      PROVE  ApprovedOnce(facts, i)
  <2>1. PICK t \in FactsOf(facts, "turn"), k \in FactsOf(facts, "approved") :
          /\ t < k /\ k < i
          /\ facts[k].target = facts[i].target
          /\ \A j \in FactsOf(facts, "turn") : j < i => j < k
          /\ \A j \in FactsOf(facts, "started") : ~(k < j /\ j < i)
    BY <1>3 DEF Approved
  <2>2. i \in DOMAIN facts /\ facts[i].type = "started" /\ {i, t, k} \subseteq Nat
    BY <1>2, <2>1 DEF FactsOf
  <2>3. TurnStart(facts, i) \in FactsOf(facts, "turn") /\ TurnStart(facts, i) <= i
    BY <2>1, <2>2, TurnStartIs
  <2>4. TurnStart(facts, i) # i /\ TurnStart(facts, i) \in Nat
    BY <1>2, <2>2, <2>3 DEF FactsOf
  <2>5. TurnStart(facts, i) < k
    BY <2>1, <2>2, <2>3, <2>4
  <2> QED
    BY <2>1, <2>5 DEF ApprovedOnce
<1>4. EffectIsAllowed
  BY <1>1, <1>3 DEF FactInv, EffectFact, EffectIsAllowed
<1>5. ASSUME NEW facts \in Seq(Facts), NEW i \in FactsOf(facts, "rejected"),
             NEW j \in FactsOf(facts, "requested") \cup FactsOf(facts, "started"),
             RejectFact(facts, j), j > i, facts[j].target = facts[i].target
      PROVE  TurnStart(facts, j) > i
  <2>1. PICK k \in FactsOf(facts, "turn") : i < k /\ k < j
    BY <1>2, <1>5 DEF RejectFact
  <2>2. j \in DOMAIN facts /\ {i, j, k} \subseteq Nat /\ k <= j
    BY <1>2, <2>1 DEF FactsOf
  <2>3. k <= TurnStart(facts, j) /\ TurnStart(facts, j) \in FactsOf(facts, "turn")
    BY <2>1, <2>2, TurnStartIs
  <2>4. TurnStart(facts, j) \in Nat
    BY <1>2, <2>3
  <2> QED
    BY <2>1, <2>2, <2>3, <2>4
<1>6. RejectedStaysRejected
  BY <1>1, <1>5 DEF FactInv, RejectedStaysRejected
<1> QED
  BY <1>4, <1>6

LEMMA FactInit == Init => TurnInv /\ FactInv
BY DEF Init, NoTurn, TurnInv, FactInv, FactsOf

\* No call acts unless the user has approved it in its turn, or granted its session a
\* rule for it that is not revoked, and never past the ceiling; for any number of
\* sessions, lines typed, calls and cancellations.
THEOREM EffectsAreAllowed == Spec => []EffectIsAllowed
<1>1. TypeInv /\ TurnInv /\ FactInv /\ [Next]_vars => (TypeInv /\ TurnInv /\ FactInv)'
  BY TypeStep, TurnInvStep, FactStep
<1>2. TypeInv /\ FactInv => EffectIsAllowed
  BY FactsAreRight
<1> QED
  BY <1>1, <1>2, TypeInit, FactInit, PTL DEF Spec

\* What the user has rejected is neither asked again nor run in that turn.
THEOREM RejectionsStand == Spec => []RejectedStaysRejected
<1>1. TypeInv /\ TurnInv /\ FactInv /\ [Next]_vars => (TypeInv /\ TurnInv /\ FactInv)'
  BY TypeStep, TurnInvStep, FactStep
<1>2. TypeInv /\ FactInv => RejectedStaysRejected
  BY FactsAreRight
<1> QED
  BY <1>1, <1>2, TypeInit, FactInit, PTL DEF Spec

-------------------------------------------------------------------------------
(* Approvals and the lines that gave them.                                 *)

\* No approval more, no line more, and no more on its way.
LEMMA ConsentKept ==
  ASSUME TypeInv, ConsentInv, All("approved")' = All("approved"), consents' = consents,
         Pending' <= Pending
  PROVE  ConsentInv'
<1>1. Cardinality(All("approved")) \in Nat /\ consents \in Nat
  BY FS_CardinalityType DEF TypeInv, LogType, ShellType
<1>2. Pending \in {0, 1} /\ Pending' \in {0, 1}
  BY DEF Pending
<1>3. Cardinality(All("approved"))' = Cardinality(All("approved"))
  OBVIOUS
<1> QED
  BY <1>1, <1>2, <1>3 DEF ConsentInv

\* A fact that is no approval adds none.
LEMMA NoApproval ==
  ASSUME TypeInv,
         \/ log' = log
         \/ \E s \in Session : \E fact \in Facts : Adds(s, fact) /\ fact.type # "approved"
  PROVE  All("approved")' = All("approved")
<1>1. CASE log' = log
  BY <1>1 DEF All
<1>2. ASSUME NEW s \in Session, NEW fact \in Facts, Adds(s, fact), fact.type # "approved"
      PROVE  All("approved")' = All("approved")
  BY <1>2, AddsOne DEF TypeInv, LogType
<1> QED
  BY <1>1, <1>2

\* The turn's steps but Resolve: no approval gets on its way without a line's.
LEMMA TurnPending ==
  ASSUME TypeInv, TurnStep, ~Resolve
  PROVE  Pending' <= Pending
<1>1. turn \in Turns
  BY DEF TypeInv, TurnType
<1>2. Pending \in {0, 1} /\ Pending' \in {0, 1}
  BY DEF Pending
<1>3. CASE ApproveOnce \/ ApproveFiles \/ ChoosePrefix \/ CountPrefix \/ ConfirmPrefix \/ Reject
  <2>1. /\ line'.state = "none"
        /\ turn'.pc # "ask" /\ turn'.approved => line.state = "answered" /\ line.text \in {"y", "f", "d"}
    BY <1>3, AnswerIs DEF NoLine
  <2> QED
    BY <1>2, <2>1 DEF Pending
<1>4. CASE OpenLine
  <2>1. turn'.pc = "wait" /\ line'.state = "open"
    BY <1>1, <1>4 DEF OpenLine, Turns
  <2> QED
    BY <1>2, <2>1 DEF Pending
<1>5. CASE LineRaises
  <2>1. turn'.pc \in {"closing", "done"} /\ line'.state = "none"
    BY <1>1, <1>5, CancelledIs DEF LineRaises, TakeAnswer, NoLine
  <2> QED
    BY <1>2, <2>1 DEF Pending
<1>6. CASE Grant
  <2>1. turn.pc = "grant" /\ turn'.approved = turn.approved /\ line' = line
    BY <1>1, <1>6 DEF Grant, Turns
  <2> QED
    BY <1>2, <2>1 DEF Pending
<1>7. CASE \/ \E target \in Target : AskForCall(target)
           \/ CompleteTurn \/ Refuse \/ Allow \/ Request \/ Start \/ HandlerReturns
           \/ CloseCall \/ EndTurn
  <2>1. line' = line /\ turn'.pc \notin {"grant", "resolve"}
    BY <1>1, <1>7 DEF AskForCall, CompleteTurn, Refuse, Allow, Request, Start, HandlerReturns,
                      CloseCall, EndTurn, Turns
  <2> QED
    BY <1>2, <2>1 DEF Pending
<1> QED
  BY <1>3, <1>4, <1>5, <1>6, <1>7 DEF TurnStep

\* Routing a line: it is counted when it approves.
LEMMA RouteConsents ==
  ASSUME TypeInv, ConsentInv, Route
  PROVE  ConsentInv'
<1>1. /\ All("approved")' = All("approved") /\ UNCHANGED turn
      /\ consents \in Nat /\ Cardinality(All("approved")) \in Nat
  BY FS_CardinalityType DEF Route, All, TypeInv, LogType, ShellType
<1>2. Pending \in {0, 1} /\ Pending' \in {0, 1}
  BY DEF Pending
<1>3. ASSUME line.state = "open" PROVE Pending = 0
  <2>1. turn.pc = "wait"
    BY <1>3 DEF TypeInv, TurnType, NoLine
  <2> QED
    BY <1>3, <2>1 DEF Pending
<1>4. CASE RouteEof \/ RouteInterrupt
  <2>1. PICK state \in {"eof", "cancelled"} : Settle(state, "none") /\ consents' = consents
    BY <1>4 DEF RouteEof, RouteInterrupt
  <2>2. line' = line \/ line'.state = state
    BY <2>1 DEF Settle
  <2>3. Pending' <= Pending
    BY <1>1, <1>2, <2>2 DEF Pending
  <2> QED
    BY <1>1, <2>1, <2>3, ConsentKept
<1>5. CASE RouteAnswer
  <2>1. CASE line.state = "open" /\ raw \in {"y", "f", "d"}
    <3>1. consents' = consents + 1
      BY <1>5, <2>1 DEF RouteAnswer
    <3>2. Cardinality(All("approved"))' = Cardinality(All("approved"))
      BY <1>1
    <3> QED
      BY <1>1, <1>2, <1>3, <2>1, <3>1, <3>2 DEF ConsentInv
  <2>2. CASE ~(line.state = "open" /\ raw \in {"y", "f", "d"})
    <3>1. consents' = consents /\ (line' = line \/ line'.text \notin {"y", "f", "d"})
      BY <1>5, <2>2 DEF RouteAnswer, Settle
    <3>2. Pending' <= Pending
      BY <1>1, <1>2, <3>1 DEF Pending
    <3> QED
      BY <1>1, <3>1, <3>2, ConsentKept
  <2> QED
    BY <2>1, <2>2
<1>6. CASE RouteAction
  <2>1. line' = line /\ consents' = consents
    BY <1>6 DEF RouteAction
  <2>2. Pending' <= Pending
    BY <1>1, <1>2, <2>1 DEF Pending
  <2> QED
    BY <1>1, <2>1, <2>2, ConsentKept
<1> QED
  BY <1>4, <1>5, <1>6 DEF Route

\* ConsentInv is inductive.
LEMMA ConsentStep == ASSUME TypeInv, ConsentInv, [Next]_vars PROVE ConsentInv'
<1>1. Pending \in {0, 1} /\ Pending' \in {0, 1}
  BY DEF Pending
<1>2. CASE TurnStep
  <2>1. consents' = consents /\ session \in Session
    BY <1>2, TurnStepShell, TurnWrites
  <2>2. CASE ~Resolve
    <3>1. \/ log' = log
          \/ \E fact \in Facts : Adds(session, fact) /\ fact.type # "approved"
      BY <1>2, <2>2, TurnFact, CallFact
    <3>2. All("approved")' = All("approved")
      BY <2>1, <3>1, NoApproval
    <3> QED
      BY <1>2, <2>1, <2>2, <3>2, TurnPending, ConsentKept
  <2>3. CASE Resolve
    <3>1. PICK fact \in Facts :
            Adds(session, fact) /\ fact.type = IF turn.approved THEN "approved" ELSE "rejected"
      BY <2>3, CallFact
    <3>2. turn.pc = "resolve" /\ turn'.pc \in {"start", "model"} /\ line' = line /\ turn \in Turns
      BY <2>3 DEF Resolve, TypeInv, TurnType, Turns
    <3>3. CASE turn.approved
      <4>1. Pending = 1 /\ Pending' = 0
        BY <3>2, <3>3 DEF Pending, TypeInv, TurnType, NoLine
      <4> DEFINE x == <<Len(log[session]) + 1, session>>
      <4>2. All("approved")' = All("approved") \cup {x}
        BY <2>1, <3>1, <3>3, AddsOne DEF TypeInv, LogType
      <4> HIDE DEF x
      <4>3. /\ IsFiniteSet(All("approved")) /\ Cardinality(All("approved")) \in Nat
            /\ consents \in Nat
        BY FS_CardinalityType DEF TypeInv, LogType, ShellType
      <4>4. Cardinality(All("approved") \cup {x}) \in
              {Cardinality(All("approved")), Cardinality(All("approved")) + 1}
        BY <4>3, FS_AddElement
      <4>5. Cardinality(All("approved"))' = Cardinality(All("approved") \cup {x})
        BY <4>2
      <4> QED
        BY <2>1, <4>1, <4>3, <4>4, <4>5 DEF ConsentInv
    <3>4. CASE ~turn.approved
      <4>1. All("approved")' = All("approved")
        BY <2>1, <3>1, <3>4, NoApproval
      <4>2. Pending' <= Pending
        BY <1>1, <3>2 DEF Pending
      <4> QED
        BY <2>1, <4>1, <4>2, ConsentKept
    <3> QED
      BY <3>3, <3>4
  <2> QED
    BY <2>2, <2>3
<1>3. CASE TakeIdle
  <2>1. consents' = consents /\ line' = line /\ line = NoLine
    BY <1>3 DEF TakeIdle, Counters, TypeInv, TurnType
  <2>2. All("approved")' = All("approved")
    BY <1>3, IdleWrites, NoApproval
  <2>3. turn'.pc \in {"model", "done"}
    <3>1. turn.pc = "done"
      BY <1>3 DEF TakeIdle, TypeInv, TurnType
    <3>2. turn' = turn \/ \E s \in Session \cup {NoSession} : turn' = FreshTurn(log[s])
      BY <1>3 DEF TakeIdle, TakeExit, TakeNew, TakeRevoke, TakeResume, TakePrompt, DropPrompt,
                  StayIdle, Unused, TypeInv, ShellType
    <3> QED
      BY <3>1, <3>2 DEF FreshTurn, NoTurn
  <2>4. Pending' <= Pending
    BY <1>1, <2>1, <2>3 DEF Pending
  <2> QED
    BY <2>1, <2>2, <2>4, ConsentKept
<1>4. CASE TakeRunning
  <2>1. /\ consents' = consents /\ log' = log
        /\ UNCHANGED <<turn, line>> \/ (turn' = Cancelled(turn) /\ line' = NoLine)
    BY <1>4 DEF TakeRunning, CancelTurn, Counters
  <2>2. Cancelled(turn).pc \in {"closing", "done"}
    BY CancelledIs DEF TypeInv, TurnType
  <2>3. Pending' <= Pending
    BY <1>1, <2>1, <2>2 DEF Pending, NoLine
  <2> QED
    BY <2>1, <2>3, NoApproval, ConsentKept
<1>5. CASE UNCHANGED <<turn, line, log, consents>>
  <2>1. Pending' = Pending
    BY <1>5 DEF Pending
  <2> QED
    BY <1>1, <1>5, <2>1, NoApproval, ConsentKept
<1>6. TurnStep \/ TakeIdle \/ TakeRunning \/ Route \/ UNCHANGED <<turn, line, log, consents>>
  BY DEF Next, AppStep, vars, Submit, TurnReturns, Counters
<1> QED
  BY <1>2, <1>3, <1>4, <1>5, <1>6, RouteConsents

LEMMA ConsentInit == Init => ConsentInv
<1> SUFFICES ASSUME Init PROVE ConsentInv
  OBVIOUS
<1>1. All("approved") = {} /\ Pending = 0 /\ consents = 0
  BY DEF Init, All, FactsOf, Pending, NoTurn, NoLine
<1> QED
  BY <1>1, FS_EmptySet DEF ConsentInv

\* Each approval in the logs has an approving line of its own, typed at an open question,
\* whatever is typed ahead or late and wherever a cancellation meets the question.
THEOREM ApprovalsComeFromLines == Spec => []ApprovalsAreAnswered
<1>1. TypeInv /\ ConsentInv /\ [Next]_vars => (TypeInv /\ ConsentInv)'
  BY TypeStep, ConsentStep
<1>2. ASSUME TypeInv, ConsentInv PROVE ApprovalsAreAnswered
  <2>1. /\ Cardinality(All("approved")) \in Nat /\ consents \in Nat
        /\ Cardinality(All("approved")) = Cardinality(Approvals)
    BY <1>2, FS_CardinalityType DEF TypeInv, LogType, ShellType, All, Approvals
  <2>2. Pending \in {0, 1}
    BY DEF Pending
  <2> QED
    BY <1>2, <2>1, <2>2 DEF ConsentInv, ApprovalsAreAnswered
<1> QED
  BY <1>1, <1>2, TypeInit, ConsentInit, PTL DEF Spec

===============================================================================
