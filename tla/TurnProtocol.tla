----------------------------- MODULE TurnProtocol -----------------------------
(***************************************************************************)
(* What a turn runner, whichever engine drives it, promises to the readers *)
(* of a session log: the model's calls come in batches, the next batch and *)
(* the end of the turn wait until every call of the batch is answered, and *)
(* after the end the turn says nothing more.                               *)
(***************************************************************************)
CONSTANT Call

VARIABLES
  open,      \* calls the model made that have no answer yet
  answered,  \* calls that have one
  ended      \* the turn has its terminal event

protocolVars == <<open, answered, ended>>

ProtocolInit == open = {} /\ answered = {} /\ ended = FALSE

\* A call id that was answered before counts as answered.
Declare(calls) ==
  /\ ~ended
  /\ open = {}
  /\ open' = calls \ answered
  /\ UNCHANGED <<answered, ended>>

AnswerCall(call) ==
  /\ ~ended
  /\ call \in open
  /\ open' = open \ {call}
  /\ answered' = answered \cup {call}
  /\ UNCHANGED ended

EndTurn ==
  /\ ~ended
  /\ open = {}
  /\ ended' = TRUE
  /\ UNCHANGED <<open, answered>>

ProtocolNext ==
  \/ \E calls \in SUBSET Call : Declare(calls)
  \/ \E call \in Call : AnswerCall(call)
  \/ EndTurn

ProtocolSpec == ProtocolInit /\ [][ProtocolNext]_protocolVars
===============================================================================
