SPECIFICATION Spec
CONSTANTS
  Session = {"s1", "s2"}
  File = {"a", "b"}
  Command = {"m", "n"}
  Text = {"y", "f", "d", "c", "1", "2"}
  Typed = {"/new", "/resume", "/revoke", "/exit"}
  MaxInputs = 4
  MaxCalls = 3
INVARIANT OneInterruptClosesTheTurn
CHECK_DEADLOCK FALSE
