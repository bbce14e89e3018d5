\* Two workers, four events, a channel of two, and a resolver whose database did not
\* load, so that a worker panics if it comes to look up the one event with an address.
CONSTANTS
  e1 = e1 e2 = e2 e3 = e3 e4 = e4 w1 = w1 w2 = w2
  NoEvent = NoEvent
  Events <- MCEvents
  Workers <- MCWorkers
  Resolvable <- MCResolvable
  QueueSize = 2
  GeoIP = "nil_pointer"
SPECIFICATION FairSpec
INVARIANT PipelineInv
INVARIANT SafeTeardown
PROPERTY ImplementsRelay
PROPERTY ShutdownCompletes
PROPERTY AcceptedIsWritten
