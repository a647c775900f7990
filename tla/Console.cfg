SPECIFICATION FairSpec
CONSTANTS
  Session = {"s1", "s2"}
  File = {"a", "b"}
  Command = {"m"}
  Text = {"y", "f", "d", "c", "1", "2"}
  Typed = {"/new", "/resume", "/revoke", "/exit"}
  MaxInputs = 4
  MaxCalls = 3
INVARIANTS TypeOK EffectIsAllowed RejectedStaysRejected ApprovalsAreAnswered
PROPERTY EofEndsTheApp
CHECK_DEADLOCK FALSE
