\* A GeoIP database that did not load: is it harmless, as docs/architecture.md:228 says?
CONSTANTS
  e1 = e1 e2 = e2 e3 = e3 e4 = e4 w1 = w1 w2 = w2
  NoEvent = NoEvent
  Events <- MCEvents
  Workers <- MCWorkers
  Resolvable <- MCResolvable
  QueueSize = 2
  GeoIP = "nil_pointer"
SPECIFICATION Spec
INVARIANT GeoIPFailureNonFatal
