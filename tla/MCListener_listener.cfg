CONSTANTS
  a = a
  b = b
  Clients <- MCClients
  Careful <- MCCareful
  Readers <- MCReaders
  Ids <- MCIds
  MaxRequests = 3
  Room = 1
SPECIFICATION FairSpec
CHECK_DEADLOCK FALSE
INVARIANT RoundTripSeesGlobals
PROPERTY RoundTripsReturn
PROPERTY CloseEndsRuns
