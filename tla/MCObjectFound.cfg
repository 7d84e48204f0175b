\* Saves that succeed, fail and overwrite each other.
CONSTANTS d1 = d1
          d2 = d2
          d3 = d3
          Data = {d1, d2, d3}
          Name <- MCName
          UserFile = {"a", "b"}
          Existing = {"a"}
SPECIFICATION StoreSpec
INVARIANTS SavedIsFound
CHECK_DEADLOCK FALSE
