CONSTANTS
  Zipped <- MCZipped
  ElevenDigits <- MCElevenDigits
  Calls <- MCCalls
  Foreign <- MCForeign
  Replacements <- MCReplacements
  Reasons <- MCReasons

SPECIFICATION Spec

INVARIANT Fidelity
INVARIANT ErrorSurvives
INVARIANT MessagesArrive
INVARIANT NoForgedSuccess
INVARIANT LimitsHold
INVARIANT DeadlineIsUnderstood
INVARIANT UnderstoodOrRefused

CHECK_DEADLOCK FALSE
