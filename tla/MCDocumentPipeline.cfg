\* Safety and refinement: two documents with two tasks each, a quota of one,
\* one failing call, one restart, one end of a month.
CONSTANTS
  d1 = d1
  d2 = d2
  k1 = k1
  k2 = k2
  k3 = k3
  Docs <- MCDocs
  Slots <- MCSlots
  Limit = 1
  MaxFaults = 1
  MaxCrashes = 1
  MaxMonths = 1
SPECIFICATION Spec
SYMMETRY MCSymmetry
INVARIANTS TypeOK BilledAtMostOnce UsageCountsCharges ReadyHasText InFlightIsServed AckedRowHasFile
PROPERTIES ReadyIsOnlyLostToATask PipelineImplementsLedger
CHECK_DEADLOCK FALSE
