\* README.md:494
SPECIFICATION Spec
CONSTANTS
  ServerNames = {s1}
  AppNames = {a1}
  Parts = {}
  Passphrases = {}
  Procs = {p1}
  FirstServer = s1
  FirstApp = a1
  Uploads = {}
  None = None
  Faults = {}
  MaxRequests = 3
  MaxFaults = 0
PROPERTIES RunningSpared
CHECK_DEADLOCK FALSE
