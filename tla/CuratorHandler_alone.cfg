CONSTANTS
  Thread = {t1}
  View <- PairViews
  Requires <- PairRequires
  Fields <- PairFields
  MapOf <- PairMaps
  Offered <- PairViews
  Releases <- NewName
  Replies = {"all", "failed", "unavailable"}
  Forcing = {TRUE, FALSE}
  Kinds = {TRUE, FALSE}
  ArchiveFails = FALSE
  Expires = FALSE
  Restarts = FALSE
  Watched = {"tokens", "charniak"}
  Upgrades = "quiet"
SPECIFICATION Spec
INVARIANTS RequirementsPerformed ArchiveFitsTogether ProvidesTheView
PROPERTIES NoAnnotationLost NothingLeftOnRemovedViews
