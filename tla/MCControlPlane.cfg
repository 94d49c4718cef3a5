SPECIFICATION Spec
CONSTANTS
  Request = {1, 2, 3}
  Scenario <- Scenarios
  None = None
  MaxFailures = 2
  ListLimit = 2
  PageLimit = 2
INVARIANTS
  TypeOK
  RevocationHolds
  CreatedOnce
  ReadsWhole
  ExportWhole
PROPERTIES
  CurationLands
