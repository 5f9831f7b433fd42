\* Safety: two extractions and a correction, any calls that fail,
\* any restarts.
CONSTANTS
  f1 = f1
  f2 = f2
  Fields <- MCOneField
  MaxRows = 2
  MaxCorrections = 1
SPECIFICATION Spec
INVARIANTS TypeOK CompletedAfterARow DeletedLeavesNoRows CompleteIsCorrectable SessionNotNewer
PROPERTIES CompletedOnFields FailedByItsOwnRun
CHECK_DEADLOCK FALSE
