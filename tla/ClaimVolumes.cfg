\* service.go:767
SPECIFICATION Spec
CONSTANTS
  Servers = {s1, s2}
  Domains = {d1}
  Composes = {plain, withVols}
  VolComposes = {withVols}
  Procs = {p1}
  Nobody = Nobody
  None = None
  Kinds = {"patch"}
  Drafts = {FALSE}
  FileMoves = {TRUE}
  Faults = {}
  MaxRequests = 2
  MaxCrashes = 0
PROPERTIES VolumesSurviveMove
CHECK_DEADLOCK FALSE
