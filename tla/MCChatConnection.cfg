\* Safety and liveness of the chat: two managers, one fault, one card, two missions.
CONSTANTS
  c1 = c1
  Cards <- MCCards
  NoCard = none
  InitialBackoff = 2
  MaxBackoff = 3
  MaxManagers = 2
  MaxFaults = 1
  MaxMissions = 2
  MaxInbox = 2
SPECIFICATION FairSpec
INVARIANTS TypeOK OneWayToBridge ConnectedIsReady CanvasTracksAgent
PROPERTIES ComesBack OneTurnPerBubble
CHECK_DEADLOCK FALSE
