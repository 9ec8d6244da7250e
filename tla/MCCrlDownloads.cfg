SPECIFICATION Spec
CONSTANTS
  u1 = u1
  other = other
  l1 = l1
  l2 = l2
  Url = {u1}
  Link = {l1, l2}
  Points <- SharedPoints
  Lists <- SharedLists
  Policy = "any"
  Hosts = {{"reserved"}}
  HttpErrors = {"status"}
  PerCertificate = 4
  PerPath = 8
  MaxCost = 2
  Refresh = 1
  StaleGrace = 1
  RetryUnit = 1
  RetryMax = 4
  Wait = 1
  MaxEntries = 1
  MaxBytes = 2
  MaxTime = 3
  MaxDownloads = 3
  MaxTokens = 2
  MaxChecks = 4
INVARIANTS
  OneDownloadPerUrl
SYMMETRY Links
CHECK_DEADLOCK FALSE
