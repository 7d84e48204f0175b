\* The first start must create an identity that the later ones find.
CONSTANTS Password = {"right", "wrong"}
          MaxStarts = 3
SPECIFICATION IdentitySpec
INVARIANTS FailsForACause
CHECK_DEADLOCK FALSE
