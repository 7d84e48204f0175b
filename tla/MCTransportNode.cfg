\* Two connections come in, two guardians are dialled; any dial or handshake may fail.
CONSTANTS c1 = c1
          c2 = c2
          g1 = g1
          g2 = g2
          b1 = b1
          Incoming = {c1, c2}
          Guardians = {g1, g2}
          Bootstrap = b1
          NumBootstrap = 1
          retryMax = 2
SPECIFICATION FairTransportSpec
INVARIANTS TransportTypeOK RegisteredAreOpen WaitGroupsCount ShutdownIsClean FoundAreConnected StopsForAReason RacesEndWithTheStart
PROPERTIES SearchEnds
CHECK_DEADLOCK FALSE
