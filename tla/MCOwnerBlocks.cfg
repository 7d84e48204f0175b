\* Several blocks; of four connections two may break at any Send.
CONSTANTS NumPeers = 4
          Unreliable = {1, 3}
          MinGuardians = 3
          MaxGuardians = 4
          ShardsPerBlock = 2
          dataShardNum = 1
          parityShardNum = 1
          BlockSize = 2
          MaxWritten = 3
          MaxGroups = 3
          CanFail = {"open", "setup", "archive", "block"}
          Payloads <- AnyPayload
SPECIFICATION OwnerSpec
INVARIANTS OwnerTypeOK ActiveAreAnnounced StreamGrammar ManifestIsBacked NothingAfterBrokenGroup KeyAfterManifests SharesAreDistinct OkMeansDelivered BlockKeyIsItsPlace
PROPERTIES StreamSpec
CHECK_DEADLOCK FALSE
