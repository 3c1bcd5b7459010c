SPECIFICATION FairExactSpec
CONSTANTS
  Dim = 3
  Corpora <- MCCorpora
  Queries <- MCQueries
  Ks = {1, 2}
  Selectors <- MCSelectors
  WindowSize = 2
INVARIANTS TypeOK ExactTopK ScratchClean AgreesWithBruteForce
PROPERTIES MonotoneSearch QueryEnds
