SPECIFICATION Spec
CONSTANTS
  Ids <- MCIds
  MaxDocs = 3
  NoId = NoId
  Nothing = Nothing
INVARIANTS TypeOK LabelsAreTheCallers SelectorsAgree CountsEveryRow
CHECK_DEADLOCK FALSE
