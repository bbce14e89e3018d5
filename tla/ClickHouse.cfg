\* Three messages (one cannot be appended), the first two of which may be handed over again
\* after the one restart, with and without a group; a channel of one, batches of two, a
\* pool of three connections, and a server that fails in every way.
CONSTANTS
  N = 5
  Messages = 3
  Events <- MCEvents
  Offset <- MCOffset
  Poison = {2}
  Capacity = 1
  BatchSize = 2
  Conns = 3
  MaxRuns = 2
  Faults = {"migrate", "prepare", "send", "unanswered"}
SPECIFICATION FairSpec
INVARIANT ClickHouseInv
INVARIANT OnlyTheLastAreLost
PROPERTY ImplementsRelay
PROPERTY AcceptedIsSettled
PROPERTY CloseCompletes
