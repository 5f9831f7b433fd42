\* The upload flow, safety and liveness: two uploads in two flows.
CONSTANTS
  MaxUploads = 2
  MaxFlows = 2
  MaxCalls = 1
  MaxFailures = 1
  MaxLeaves = 1
  MaxUpdates = 1
SPECIFICATION FairSpec
CONSTRAINT FewDisturbances
INVARIANTS TypeOK ShowsOneDocument ProgressIsTrue
PROPERTIES EditsAreKept ProcessingEnds
CHECK_DEADLOCK FALSE
