\* Nothing fails; four shards for three guardians.
CONSTANTS NumPeers = 3
          Unreliable = {}
          MinGuardians = 3
          MaxGuardians = 3
          ShardsPerBlock = 4
          BlockSize = 2
          MaxWritten = 1
          MaxGroups = 1
          MaxShardLen = 1
          MaxShards = 3
          CanFail = {}
          StorageFails = FALSE
          Timeouts = FALSE
          Payloads <- Letters
          Receivers = {"interface"}
          FileName = {"d3f0", "41a7"}
          FileOf <- Names
SPECIFICATION TransferSpec
INVARIANTS EveryGuardianFinalizes
CHECK_DEADLOCK FALSE
