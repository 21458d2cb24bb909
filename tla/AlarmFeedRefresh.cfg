SPECIFICATION FeedSpec
CONSTANTS
  AlarmIds = {fan, psu}
  RefreshSecs = 2
  GateSuppresses = FALSE
INVARIANTS NoStaleAlarm
