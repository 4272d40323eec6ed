\* Everything at once: two processes, both moves, every failure, a restart.
SPECIFICATION Spec
CONSTANTS
  Servers = {s1, s2}
  Domains = {}
  Composes = {withVols}
  VolComposes = {withVols}
  Procs = {p1, p2}
  Nobody = Nobody
  None = None
  Kinds = {"deployWeb", "redeploy", "rollback", "stop", "start", "undeploy",
           "webhook", "patch", "edit", "clear"}
  Drafts = {TRUE, FALSE}
  FileMoves = {TRUE, FALSE}
  Faults = {"connect", "down", "write", "pull", "up", "route", "copy",
            "restart", "exec", "db", "clean"}
  MaxRequests = 3
  MaxCrashes = 1
INVARIANTS TypeOK LockOwner
PROPERTIES Serializes
SYMMETRY Symmetry
CHECK_DEADLOCK FALSE
