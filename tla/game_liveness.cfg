SPECIFICATION FairSpec
CONSTANTS
  Clients = {c1}
  MapsMidRound = TRUE
  MaxMaps = 1
  MaxReports = 2
  MaxHasty = 2
  MaxLogins = 1
PROPERTIES EventuallyInRound
