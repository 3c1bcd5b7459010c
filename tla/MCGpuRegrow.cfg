SPECIFICATION Spec
CONSTANTS
  t1 = t1
  t2 = t2
  here = here
  there = there
  Threads <- MCThreads
  Addresses <- MCAddresses
  Corpora <- MCCorpora
  Dim = 2
  IndexMax = 5
  Param <- MCParam
  Mishaps <- MCRegrow
  MaxMishaps = 1
  MaxBuilds = 2
SYMMETRY Symmetric
INVARIANTS MatchesTheCpu
CHECK_DEADLOCK FALSE
