CONSTANTS
  Thread = {t1, t2}
  View <- SrlViews
  Requires <- SrlRequires
  Fields <- SrlFields
  MapOf <- SrlMaps
  Offered <- SrlViews
  Releases <- OneRelease
  Replies = {"all"}
  Forcing = {FALSE}
  Kinds = {FALSE}
  ArchiveFails = FALSE
  Expires = FALSE
  Restarts = FALSE
  Watched = {}
  Upgrades = "never"
SPECIFICATION Spec
INVARIANTS RequirementsPerformed
