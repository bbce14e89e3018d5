\* Two messages at the same instant, with and without a group, one restart; a v1
\* server that may have a database of a similar name and may be down, a v2 server
\* whose answers may be lost.
CONSTANTS
  N = 2
  Malformed = {}
  Storages <- MCStorages
  MaxRuns = 2
  Configs <- MCConfigs
  NoConfig = NoConfig
  Polls = 2
  Series <- MCSeries
  Stamp <- MCStamp
  Policy <- MCPolicy
  NoEvent = NoEvent
  Names = {"dns_old"}
  Database = "dns"
  Containing = {"dns", "dns_old"}
  Bucket = TRUE
  Faults1 = {"down"}
  Faults2 = {"unanswered"}
SPECIFICATION SysFairSpec
INVARIANT ProcessInv
INVARIANT DatabasesFollowTopic
PROPERTY MainMovesOn
