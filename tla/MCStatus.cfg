SPECIFICATION Spec
CONSTANTS
  Ids = {A, B}
  Cache = Cache
  MaxRecordCount = 3
  MaxLastErrors = 2
INVARIANTS
  TypeOK
  DownHasNeverWorked
  StatusMatchesRecords
  OverallSumsUp
