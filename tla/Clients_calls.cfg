CONSTANTS
  Thread = {t1, t2, t3}
  NumHosts = 2
  PerHost = 1
  Legacy = FALSE
  MayFail = {1, 2}
  Record = {r1}
  Sentences = 2
  Rows = 2
  Ends = {"ended", "reset"}
SPECIFICATION ClientsSpec
INVARIANTS
  MutualExclusion BusyIffOwned OpenOnlyInUse
  OwnSentenceOnly RowsUnlessLate
PROPERTIES
  ThrowsOnlyIfAllRefused LendingSpec ClientComesBack
  CallEnds
