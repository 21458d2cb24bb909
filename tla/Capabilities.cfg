SPECIFICATION FairSpec
CONSTANTS
  NumSlots = 2
  NumEntries = 2
  NumVersions = 2
  MaxChanges = 1
  Requests <- MCRequests
INVARIANTS TypeOK  
PROPERTIES DiscoveryEnds
