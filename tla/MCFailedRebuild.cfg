SPECIFICATION UnlinkingSpec
CONSTANTS
  Dim = 3
  Rows <- MCRows
  Seeds <- MCSeeds
  BatchSizes <- MCBatchSizes
  MaxDocs = 2
  MaxBuilds = 3
  Heap = Heap
  Unbuilt = Unbuilt
INVARIANT KeepsListsValid
