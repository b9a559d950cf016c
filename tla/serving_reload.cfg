SPECIFICATION FairSpec
CONSTANTS
  Servers = {"main", "api"}
  Reloads = {"reload", "next"}
  Startup = "startup"
  MaxGen = 2
  KeyOf <- OwnKeys
  MaxOpen = 1
  MaxFaults = 1
INVARIANTS ServedWhole RunReports
PROPERTIES OnlyOverlapsGoBack CertificateCatchesUp RunEnds
CHECK_DEADLOCK FALSE
