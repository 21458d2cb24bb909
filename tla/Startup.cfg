SPECIFICATION FairSpec
CONSTANTS
  ErrorCodes = {tcp_refused, http_timeout}
  InitialCode = tcp_refused
  MaxAttempt = 2
INVARIANTS TypeOK OneLateHeartbeat
PROPERTIES CommandsEventuallyAccepted DiscoveryNeverSilent ShutdownEndsTasks
