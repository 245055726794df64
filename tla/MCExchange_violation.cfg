CONSTANTS
  Zipped <- MCZipped
  ElevenDigits <- MCElevenDigits
  Calls <- MCCalls
  Foreign <- MCForeign
  Replacements <- MCReplacements
  Reasons <- MCReasons

SPECIFICATION Spec

INVARIANT AnyDebugArrives

CHECK_DEADLOCK FALSE
