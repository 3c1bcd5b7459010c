SPECIFICATION Spec
CONSTANTS
  Inputs <- MCInputs
  Dim = 3
  TermMax = 3
  Chunk = 2
  Widths = {1, 4}
  MaxBatches = 2
INVARIANTS TypeOK RowsAreTheCallers SafeToSearch
