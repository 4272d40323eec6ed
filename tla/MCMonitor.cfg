\* The monitor, slow checks, a worker that comes and goes or is reinstalled.
SPECIFICATION FairSpec
CONSTANTS
  Servers = {s1}
  Hosts = {h1}
  Procs = {p1, p2}
  None = None
  Foreign = {}
  Kinds = {"patch", "edit", "init", "refresh", "delete"}
  Faults = {"disk", "docker", "caddy"}
  MaxRequests = 2
  MaxChanges = 2
  MaxReinstalls = 1
  MaxCrashes = 0
PROPERTIES MonitorTracks
CHECK_DEADLOCK FALSE
