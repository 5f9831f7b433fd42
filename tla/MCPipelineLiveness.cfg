\* Liveness under the fairness of the event loop: one document whose OCR may
\* be retried twice, two failing calls, one restart, one end of a month.
CONSTANTS
  d1 = d1
  d2 = d2
  k1 = k1
  k2 = k2
  k3 = k3
  Docs <- MCOneDoc
  Slots <- MCThreeSlots
  Limit = 1
  MaxFaults = 2
  MaxCrashes = 1
  MaxMonths = 1
SPECIFICATION FairSpec
PROPERTY InFlightEnds
CHECK_DEADLOCK FALSE
