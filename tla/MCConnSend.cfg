\* Send against itself and against another goroutine.
CONSTANTS owner = owner
          reader = reader
          Caller = {owner, reader}
          chunkSize = 2
          DataLen <- MCDataLen
          MaxBytes = 6
SPECIFICATION RemoteConnSpec
PROPERTIES SendReturns
CHECK_DEADLOCK FALSE
