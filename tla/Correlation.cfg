\* One worker, two queries under one key with their responses, and an unreadable
\* response that counts as a query; the ticker fires at every step and the ttl is 2.
CONSTANTS
  q1 = q1 q2 = q2 x = x r1 = r1 r2 = r2 w1 = w1
  NoQuery = NoQuery
  Workers <- OneWorker
  Queries <- MCQueries
  Responses <- MCResponses
  Keys <- MCKeys
  Key <- MCKey
  Answers <- MCAnswers
  Messages <- MCMessages
  Message <- MCMessage
  QueueSize = 1
  TTL = 2
  Period = 1
SPECIFICATION SysSpec
INVARIANT CorrelatorInv
INVARIANT BoundedAge
INVARIANT CorrelationInv
INVARIANT PairsAreAsSent
PROPERTY OrphansExplained
PROPERTY UsesCorrelator
