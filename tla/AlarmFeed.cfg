SPECIFICATION FairFeedSpec
CONSTANTS
  AlarmIds = {fan, psu, sync}
  RefreshSecs = 2
  GateSuppresses = TRUE
INVARIANTS GapsExplained
PROPERTIES NeverToldWrong ChronicAlarmTold
