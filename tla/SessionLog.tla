------------------------------ MODULE SessionLog ------------------------------
(***************************************************************************)
(* The durable event log of one session, reduced to what recovery, pairing *)
(* and the context builder read of it.  An event keeps its type, its turn, *)
(* the tool calls it is about and, where it has them, the effect reported  *)
(* and the parent a recovery snapshot refers to.  Times, text, token       *)
(* counts and hashes are left out; call arguments are too, so a call is    *)
(* its id, and whether its tool is of WRITE or EXECUTE risk.               *)
(***************************************************************************)
EXTENDS Integers, Sequences, FiniteSets, FiniteSetsExt

CONSTANTS Call,   \* tool call ids a model may choose
          Risky   \* those whose tool has WRITE or EXECUTE risk

ASSUME CallAssumption == IsFiniteSet(Call) /\ Risky \subseteq Call

NoTurn == 0

Effect == {"none", "applied", "unknown"}

EventType ==
  {"session_started", "recovery_snapshot", "user_message", "side_effect_resolved",
   "retrieval_recorded", "request_prepared", "usage_recorded", "assistant_message",
   "call_requested", "permission_resolved", "execution_started",
   "execution_completed", "turn_completed", "turn_failed", "turn_interrupted"}

\* "turn_interrupted" is the TURN_FAILED of category process_interrupted, by which a
\* resume closes the turn of a process that is gone.
TerminalType == {"turn_completed", "turn_failed", "turn_interrupted"}

\* ref and through are the parent session and safe prefix of a recovery snapshot.
Event == [type : EventType, turn : Nat, calls : SUBSET Call, effect : Effect,
          ref : Nat, through : Nat]

NewEvent(type, turn, calls, effect) ==
  [type |-> type, turn |-> turn, calls |-> calls, effect |-> effect,
   ref |-> 0, through |-> 0]

-------------------------------------------------------------------------------
(* What a log says of its calls.                                           *)

CallsOf(log, type) ==
  UNION {log[i].calls : i \in {j \in DOMAIN log : log[j].type = type}}

Declared(log)  == CallsOf(log, "assistant_message")
Started(log)   == CallsOf(log, "execution_started")
Completed(log) == CallsOf(log, "execution_completed")

CallsOfTurn(log, type, turn) ==
  UNION {log[i].calls : i \in {j \in DOMAIN log : log[j].type = type /\ log[j].turn = turn}}

DeclaredIn(log, turn)  == CallsOfTurn(log, "assistant_message", turn)
StartedIn(log, turn)   == CallsOfTurn(log, "execution_started", turn)
CompletedIn(log, turn) == CallsOfTurn(log, "execution_completed", turn)

IsResultOf(event, call) == event.type = "execution_completed" /\ call \in event.calls

\* completed_all is a dict keyed by call id, so a later result replaces an earlier one.
LastResult(log, call, effect) ==
  \E i \in DOMAIN log :
    /\ IsResultOf(log[i], call)
    /\ log[i].effect = effect
    /\ \A j \in DOMAIN log : j > i => ~IsResultOf(log[j], call)

Uncertain(log) ==
  {c \in Call : LastResult(log, c, "unknown")}
    \cup ((Started(log) \cap Risky) \ Completed(log))

\* The calls close_pending_calls still has to answer, and the effect it reports.
PendingCalls(log, turn) == DeclaredIn(log, turn) \ CompletedIn(log, turn)

ClosingEffect(log, turn, call) ==
  IF call \in StartedIn(log, turn) \cap Risky THEN "unknown" ELSE "none"

-------------------------------------------------------------------------------
(* Logical recovery.                                                       *)

TerminalIndexes(log) == {i \in DOMAIN log : log[i].type \in TerminalType}

LastTerminal(log) == Max({0} \cup TerminalIndexes(log))

OpenTail(log) == SubSeq(log, LastTerminal(log) + 1, Len(log))

OpenTurns(log) == {OpenTail(log)[i].turn : i \in DOMAIN OpenTail(log)} \ {NoTurn}

ClassifyLogicalRecovery(log) ==
  LET tail == OpenTail(log)
  IN  CASE Uncertain(log) # {}   -> "uncertain_side_effect"
        [] Uncertain(log) = {} /\ OpenTurns(log) = {} -> "clean"
        [] OTHER -> IF (Started(tail) \cap Risky) \ Completed(tail) # {}
                      THEN "uncertain_side_effect"
                      ELSE "interrupted_safe"

IsUncertain(log) == ClassifyLogicalRecovery(log) = "uncertain_side_effect"

\* The last terminal event whose prefix is not uncertain, else the first event.
SafeIndex(log) ==
  Max({1} \cup {i \in TerminalIndexes(log) : ~IsUncertain(SubSeq(log, 1, i))})

UnansweredOperations(log) == (Started(log) \cap Risky) \ Completed(log)

UnknownOperations(log) ==
  {c \in Started(log) : \/ c \in Risky \ Completed(log)
                        \/ LastResult(log, c, "unknown")}

RecoverySnapshot(parent, log) ==
  [NewEvent("recovery_snapshot", NoTurn, UnknownOperations(log), "none")
     EXCEPT !.ref = parent, !.through = SafeIndex(log)]

SnapshotsIn(log) ==
  {log[i] : i \in {j \in DOMAIN log : log[j].type = "recovery_snapshot"}}

\* The unknown operations, as <<session, call>>, that the context of a recovery
\* session tells the model not to replay.  A parent is read up to "through".
\* A recovery session has a higher number than its parent.
RecoveryParts(logs, first) ==
  LET parts[s \in DOMAIN logs] ==
        [n \in 0..Len(logs[s]) |->
          UNION {{<<e.ref, c>> : c \in e.calls} \cup
                   (IF e.ref < s THEN parts[e.ref][e.through] ELSE {}) :
                 e \in SnapshotsIn(SubSeq(logs[s], 1, n))}]
  IN  parts[first][Len(logs[first])]

===============================================================================
