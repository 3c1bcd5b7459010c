SPECIFICATION DiskSpec
CONSTANTS
  Dim = 3
  Corpora <- MCCorpora
  Params <- MCParams
  Calls <- MCCalls
  Quantizers <- MCQuantizers
  MaxCode <- MCMaxCode
  Lanes <- MCLanes
  Stray = 7
  Given <- MCGiven
  Questions <- MCQuestions
INVARIANTS TypeOK SoundAnswer WithinFactor LosslessIsNearlyExact ExactWithinBudget
