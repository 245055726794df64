CONSTANTS
  MaxMessages = 2
  MaxLength = 2

SPECIFICATION Spec

INVARIANT EmitsWhatWasEnveloped

CHECK_DEADLOCK FALSE
