SPECIFICATION FileSpec
CONSTANTS
  Indexes <- MCIndexes
  Cuts = {0, 1, 4}
INVARIANTS FileTypeOK RoundTrip WholeOrRejected
CHECK_DEADLOCK FALSE
