\* The status and progress across races, failures and a restart; no symmetry.
SPECIFICATION FairSpec
CONSTANTS
  Servers = {s1, s2}
  Domains = {}
  Composes = {plain}
  VolComposes = {}
  Procs = {p1, p2}
  Nobody = Nobody
  None = None
  Kinds = {"deployWeb", "rollback", "stop", "undeploy", "webhook", "patch"}
  Drafts = {FALSE}
  FileMoves = {FALSE}
  Faults = {"connect"}
  MaxRequests = 3
  MaxCrashes = 1
INVARIANTS NeverStuck
PROPERTIES EveryRequestReturns DeployingEnds
CHECK_DEADLOCK FALSE
