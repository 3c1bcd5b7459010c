SPECIFICATION SectionSpec
CONSTANTS
  Nnz <- MCNnz
  Inputs <- MCInputs
  Widths = {1, 2, 4}
  Pages <- MCPages
  Packed = Packed
  Starts = {0, 12, 13}
  MaxNnz = 4
INVARIANTS SectionTypeOK BlocksInPlace RoundTrip FailClosed
CHECK_DEADLOCK FALSE
