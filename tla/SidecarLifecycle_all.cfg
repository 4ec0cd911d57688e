SPECIFICATION FairSpec
CONSTANTS
  Children = {c1, c2}
  Users = {u1, u2}
  NoChild = NoChild
  MaxCalls = 4
  LateExit = FALSE
  PollsFail = TRUE
INVARIANTS TypeOK AtMostOneLive NoOrphan StopIsFinal
PROPERTIES SuccessIsUndisturbed ImplementsService StartsAnswered StopsReturn
CHECK_DEADLOCK FALSE
