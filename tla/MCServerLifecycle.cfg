SPECIFICATION FairSpec
CONSTANTS
  HttpRequests = {h1, h2}
  GrpcCalls = {g1, g2, s1}
  Streams = {s1}
  None = None
INVARIANTS TypeOK StoresOutliveRequests GracefulMeansGraceful
PROPERTIES SignalEnds FailureEnds
CHECK_DEADLOCK FALSE
