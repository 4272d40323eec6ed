\* Two processes race on one server; every command there may fail.
SPECIFICATION Spec
CONSTANTS
  Servers = {s1}
  Domains = {d1}
  Composes = {c1, c2}
  VolComposes = {}
  Procs = {p1, p2}
  Nobody = Nobody
  None = None
  Kinds = {"deployWeb", "redeploy", "rollback", "stop", "start", "undeploy",
           "webhook", "patch", "edit", "clear"}
  Drafts = {FALSE}
  FileMoves = {FALSE}
  Faults = {"down", "pull", "up", "route", "exec"}
  MaxRequests = 4
  MaxCrashes = 0
INVARIANTS RunsWhatRowSays RunningIsRouted StoppedMeansDown NothingLeft
SYMMETRY Symmetry
CHECK_DEADLOCK FALSE
