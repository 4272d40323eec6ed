\* Two apps, two servers; routes and one more rebuilt table.
SPECIFICATION FairSpec
CONSTANTS
  History = {"routes", "dns_records"}
  Apps = {1, 2}
  Servers = {1, 2}
  Names = {"x", "y"}
  Domains = {"d"}
  MaxId = 4
  MaxStops = 2
  MaxEdits = 5
  Legacy <- MCLegacy
INVARIANTS TypeOK Converged Consistent
PROPERTIES IdsNotReused OpenKeepsRows ModeIsOwners ComesUp
CHECK_DEADLOCK FALSE
