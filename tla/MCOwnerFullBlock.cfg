\* Archived bytes of one block or more; nothing fails.
CONSTANTS NumPeers = 3
          Unreliable = {}
          MinGuardians = 3
          MaxGuardians = 3
          ShardsPerBlock = 2
          dataShardNum = 1
          parityShardNum = 1
          BlockSize = 2
          MaxWritten = 3
          MaxGroups = 3
          CanFail = {}
          Payloads <- ThreeGuardians
SPECIFICATION OwnerSpec
INVARIANTS FullBlocksAreArchive
CHECK_DEADLOCK FALSE
