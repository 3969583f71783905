CONSTANTS
  Thread = {t1, t2}
  View <- TwoViews
  Requires <- TwoRequires
  Fields <- TwoFields
  MapOf <- TwoMaps
  Offered <- TwoViews
  Releases <- TwoReleases
  Replies = {"all", "exception"}
  Forcing = {FALSE}
  Kinds = {TRUE, FALSE}
  ArchiveFails = TRUE
  Expires = TRUE
  Restarts = TRUE
  Watched = {"tokens"}
  Upgrades = "anytime"
SPECIFICATION Spec
INVARIANT NothingStaleServed
SYMMETRY Threads
