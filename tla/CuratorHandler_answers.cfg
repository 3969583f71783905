CONSTANTS
  Thread = {t1, t2}
  View <- TwoViews
  Requires <- TwoRequires
  Fields <- TwoFields
  MapOf <- TwoMaps
  Offered <- TwoViews
  Releases <- OneRelease
  Replies = {"all", "failed", "unavailable", "exception"}
  Forcing = {TRUE, FALSE}
  Kinds = {TRUE, FALSE}
  ArchiveFails = TRUE
  Expires = TRUE
  Restarts = TRUE
  Watched = {}
  Upgrades = "never"
SPECIFICATION FairSpec
PROPERTY EveryRequestIsAnswered
