SPECIFICATION Spec
CONSTANTS
  Keys <- MCKeys
  Shards = 2
  Shard <- ShardEach
  Configs <- MCConfigs
  MaxAlerts = 2
  MaxTime = 3
INVARIANTS
  TypeOK
  BlocksFollowVerdicts
  SuspectsTracked
PROPERTIES
  AnswersRightUnlessReloaded
  ListingIsSnapshot
  LocksReleased
