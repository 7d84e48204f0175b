\* Five guardians, two of which may not answer, and the default threshold.
CONSTANTS NumPeers = 5
          Unreliable = {2, 4}
          MinGuardians = 3
          MaxGuardians = 5
          ShardsPerBlock = 1
          dataShardNum = 1
          parityShardNum = 0
          BlockSize = 2
          MaxWritten = 1
          MaxGroups = 1
          CanFail = {}
          Payloads <- FiveGuardians
SPECIFICATION OwnerSpec
INVARIANTS KeyIsRecoverable
CHECK_DEADLOCK FALSE
