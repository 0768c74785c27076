SPECIFICATION ServicesSpec
CONSTANTS
  Services = {"batcher", "files", "bus"}
  Configs <- SmallConfigs
  MaxCommands = 6
  MaxUpdates = 1
  States = {s1, s2, s3}
  None = None
  Torn = Torn
  Threads = {t1, t2, t3}
  Ids = {i1}
  Ops = {"subscribe", "unsubscribe", "publish", "get_stats", "cleanup"}
  MaxCalls = 4
INVARIANTS NothingLost StatsAddUp FlushEmpties NeverTorn NobodyLeftOut
PROPERTIES EveryCommandBatched TaskStops ImplementsStore CallsReturn
CHECK_DEADLOCK FALSE
