SPECIFICATION FairSpec
CONSTANTS
  Callers = {poller, command}
  Tokens = {t1, t2, t3, t4}
  NoToken = NoToken
  Rejections = {"error", "bare", "text"}
  MaxExpiries = 1
INVARIANTS TypeOK AtMostOnce OutcomeExplained
PROPERTIES EveryCallEnds SessionsSettle
