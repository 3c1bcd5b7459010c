SPECIFICATION Spec
CONSTANTS
  Dim = 2
  MaxDocs = 3
  MaxBlocks = 2
  Nothing = Nothing
INVARIANTS TypeOK ScoresWhatItRanks DirectoryResolves SavedFilesLoad
