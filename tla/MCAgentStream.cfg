\* Two submissions that may overlap, streams of up to two messages.
CONSTANTS
  Kinds = {"tool", "complete", "error"}
  MaxSubmits = 2
  MaxMessages = 2
SPECIFICATION FairSpec
INVARIANTS TypeOK ShowsItsStream
PROPERTIES StreamingEnds IsFeed
CHECK_DEADLOCK FALSE
