SPECIFICATION FairSpec
CONSTANTS
  in1 = in1
  in2 = in2
  on = on
  off = off
  Keys <- MCKeys
  Values <- MCValues
  NoKey = NoKey
  NoValue = NoValue
  Missing = Missing
  Plain = Plain
  Payloads <- MCPayloads
  Types <- MCTypes
  NoType = NoType
  Cards <- MCCards
  Nothing = Nothing
  Good = shipped
  Candidates = {new, newer}
  Flaws = {"none", "config", "connect", "crash", "mute"}
  MaxBootAttempts = 2
  StartLimit = 4
  MaxStops = 2
INVARIANTS LifecycleTypeOK WritesAsAsked FateKnown IdentityKept
PROPERTIES RevertsAreEarned UpgradeSettles
\* a gateway that lost its credentials and has used its token waits for an operator
CHECK_DEADLOCK FALSE
