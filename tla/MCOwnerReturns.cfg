\* A capsule below one block, all connections may break; a call that returns nil leaves nothing behind.
CONSTANTS NumPeers = 4
          Unreliable = {1, 2, 3, 4}
          MinGuardians = 3
          MaxGuardians = 4
          ShardsPerBlock = 3
          dataShardNum = 2
          parityShardNum = 1
          BlockSize = 3
          MaxWritten = 2
          MaxGroups = 1
          CanFail = {"archive"}
          Payloads <- FourGuardians
SPECIFICATION OwnerSpec
INVARIANTS NothingLeftBehind ArchiveIsRecovered FewerCannotCombine
CHECK_DEADLOCK FALSE
