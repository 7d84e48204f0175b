\* Storage and one connection may fail.
CONSTANTS NumPeers = 3
          Unreliable = {2}
          MinGuardians = 3
          MaxGuardians = 3
          ShardsPerBlock = 3
          BlockSize = 2
          MaxWritten = 1
          MaxGroups = 1
          MaxShardLen = 1
          MaxShards = 3
          CanFail = {}
          StorageFails = TRUE
          Timeouts = FALSE
          Payloads <- Letters
          Receivers = {"interface", "remotePeerConn"}
          FileName = {"d3f0", "41a7"}
          FileOf <- Names
SPECIFICATION TransferSpec
INVARIANTS ReceivedIsWhole GuardiansAgree
CHECK_DEADLOCK FALSE
