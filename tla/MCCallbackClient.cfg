CONSTANTS
  r1 = r1
  r2 = r2
  Request <- MCRequest
  None = None
  Mine = r1
  MaxMessages = 1
  Throwing = {"onResponse", "success"}
  Faults = {"canceled"}

SPECIFICATION FairSpec

INVARIANT KeepsOneSession
INVARIANT ClosesOnce
INVARIANT OutcomeIsTrue
PROPERTY ErrorReachesItsRequests
PROPERTY SessionsAreReleased
PROPERTY CallsAreAnswered

CHECK_DEADLOCK FALSE
