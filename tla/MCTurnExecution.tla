--------------------------- MODULE MCTurnExecution ---------------------------
EXTENDS TurnExecution

===============================================================================
