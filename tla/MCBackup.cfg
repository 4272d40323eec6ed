\* Exports and imports beside other requests.
SPECIFICATION Spec
CONSTANTS
  s1 = s1
  s2 = s2
  a1 = a1
  a2 = a2
  word = word
  ServerNames = {s1, s2}
  AppNames = {a1, a2}
  Parts = {secret, route}
  Passphrases = {word}
  Procs = {p1, p2}
  FirstServer = s1
  FirstApp = a1
  Uploads <- MCUploads
  None = None
  Faults = {"disk", "crash"}
  MaxRequests = 3
  MaxFaults = 1
SYMMETRY Symmetry
INVARIANTS KeysThere ReplaceRemovesAll ImportedWhole
PROPERTIES ExportNamesServers
CHECK_DEADLOCK FALSE
