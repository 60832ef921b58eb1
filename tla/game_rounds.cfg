SPECIFICATION Spec
CONSTANTS
  Clients = {c1, c2}
  MapsMidRound = FALSE
  MaxMaps = 1
  MaxReports = 2
  MaxHasty = 0
  MaxLogins = 2
SYMMETRY Symmetry
INVARIANTS TypeOK ReadyGridIsCurrent UpToDate
PROPERTIES ImplementsRounds
