\* One request after the other: drafts, moves with and without files, failures.
SPECIFICATION Spec
CONSTANTS
  Servers = {s1, s2}
  Domains = {d1}
  Composes = {plain, withVols}
  VolComposes = {withVols}
  Procs = {p1}
  Nobody = Nobody
  None = None
  Kinds = {"deployWeb", "redeploy", "rollback", "stop", "start", "undeploy",
           "webhook", "patch", "edit", "clear"}
  Drafts = {TRUE, FALSE}
  FileMoves = {TRUE, FALSE}
  Faults = {"connect", "down", "write", "pull", "up", "route", "copy",
            "exec", "db"}
  MaxRequests = 4
  MaxCrashes = 0
INVARIANTS RunningMeansUp DraftHasNothing AbortedMoveStays
PROPERTIES FolderSurvives OldServerUntouched
SYMMETRY Symmetry
CHECK_DEADLOCK FALSE
