SPECIFICATION PlannedSpec
CONSTANTS
  Dim = 3
  Rows <- MCRows
  Seeds <- MCSeeds
  BatchSizes <- MCBatchSizes
  MaxDocs = 3
  MaxBuilds = 3
  Heap = Heap
  Unbuilt = Unbuilt
  Dims <- MCDims
  Counts <- MCCounts
  Lambdas <- MCLambdas
  AskedSizes <- MCAskedSizes
  CostRatio = 16
INVARIANTS TypeOK NothingStranded ReadableUnlessThrew ChecksNeverFire
INVARIANTS Partition NoUnderflow Balanced
PROPERTY ImplementsWholeBuild
