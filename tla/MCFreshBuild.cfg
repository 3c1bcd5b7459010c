SPECIFICATION Spec
CONSTANTS
  Dim = 1
  MaxDocs = 2
  MaxBlocks = 1
  Nothing = Nothing
INVARIANT FreshBuildIsScored
