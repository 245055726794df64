CONSTANT MaxFrames = 4

SPECIFICATION Spec

INVARIANT SuccessIsDeclared
INVARIANT SuccessIsComplete
INVARIANT FailureIsPassedOn

CHECK_DEADLOCK FALSE
