SPECIFICATION TickSpec
CONSTANTS
  FailureThreshold = 2
  EventDwell = 2
  ErrorCodes = {tcp_refused}
  NoError = NoError
  MaxClock = 5
  MaxFailures = 4
  AlarmIds = {fan}
  RefreshSecs = 2
  GateSuppresses = TRUE
  NoHealth = NoHealth
INVARIANTS TickTypeOK HeartbeatConsistent ViewsAgree
PROPERTIES UnreachableFiredRight OutageAnnounced ComponentsImplemented HeartbeatTellsTruth
