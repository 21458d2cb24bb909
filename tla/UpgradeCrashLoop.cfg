SPECIFICATION FairSpec
CONSTANTS
  in1 = in1
  in2 = in2
  on = on
  off = off
  Keys <- MCKeys
  Values <- MCValues
  NoKey = NoKey
  NoValue = NoValue
  Missing = Missing
  Plain = Plain
  Payloads = {Missing}
  Types = {}
  NoType = NoType
  Cards = {{}}
  Nothing = Nothing
  Good = shipped
  Candidates = {new}
  Flaws = {"config"}
  MaxBootAttempts = 2
  StartLimit = 5
  MaxStops = 0
PROPERTY CrashLoopRollsBack
CHECK_DEADLOCK FALSE
