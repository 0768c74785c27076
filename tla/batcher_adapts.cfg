SPECIFICATION ServicesSpec
CONSTANTS
  Services = {"batcher"}
  Configs <- AdaptiveConfigs
  MaxCommands = 6
  MaxUpdates = 1
  States = {s1, s2, s3}
  None = None
  Torn = Torn
  Threads = {t1, t2, t3}
  Ids = {i1}
  Ops = {"subscribe", "unsubscribe", "publish", "get_stats", "cleanup"}
  MaxCalls = 4
INVARIANTS AdaptsToTimeouts
CHECK_DEADLOCK FALSE
