\* Two servers that may share a machine, every request, a restart.
SPECIFICATION Spec
CONSTANTS
  Servers = {s1, s2}
  Hosts = {h1, h2}
  Procs = {p1, p2}
  None = None
  Foreign = {}
  Kinds = {"patch", "edit", "init", "refresh", "delete"}
  Faults = {"disk"}
  MaxRequests = 3
  MaxChanges = 0
  MaxReinstalls = 0
  MaxCrashes = 1
INVARIANTS TypeOK KeyMatchesHost KeyFileKept NoOrphanApps
SYMMETRY Symmetry
CHECK_DEADLOCK FALSE
