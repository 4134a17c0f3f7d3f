SPECIFICATION Spec
CONSTANTS
  Keys <- OneKey
  Shards = 1
  Shard <- OneShard
  Configs <- OneConfig
  MaxAlerts = 2
  MaxTime = 2
INVARIANT FreshBlocksTracked
