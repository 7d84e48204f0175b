\* Both handshakes and up to four frames, cut and delivered in every way.
CONSTANTS m1 = m1
          m2 = m2
          Msg = {m1, m2}
          Payload <- MCPayload
          Key <- MCKey
          MaxFrames = 4
SPECIFICATION FairFramingSpec
INVARIANTS FramingTypeOK KeysMatch ClientDoneMeansServerDone LoopEndsWithConnection
PROPERTIES ImplementsChannel HandshakeEnds
CHECK_DEADLOCK FALSE
