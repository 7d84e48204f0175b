\* Every stream of up to two blocks of two shards; anything may fail.
CONSTANTS NumPeers = 1
          Unreliable = {1}
          ShardsPerBlock = 2
          MaxGroups = 2
          MaxWritten = 2
          MaxShardLen = 1
          MaxShards = 3
          StorageFails = TRUE
          Timeouts = TRUE
          Receivers = {"interface", "remotePeerConn"}
          FileName = {"d3f0", "41a7"}
          FileOf <- Names
SPECIFICATION GuardianSpec
INVARIANTS GuardianTypeOK RecordedHasFile NoShardSkipped DiskTellsProgress FlagsAreTrue OkMeansStored
PROPERTIES DoneIsDone ImplementsVault
CHECK_DEADLOCK FALSE
