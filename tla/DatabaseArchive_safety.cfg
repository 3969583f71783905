CONSTANTS
  Thread = {t1}
  Id = {i1, i2}
  Listener = {l1, l2}
  Maintenance = maintenance
  UpdateCount = 0
  ExpireAge = 1
  MaxTime = 3
  WriteErrors = TRUE
  UpdateErrors = TRUE
  Exceptions = TRUE
SPECIFICATION FairSpec
INVARIANTS NoUseForgotten OneUpdateThread
PROPERTIES ExpiresOnlyLongUnused LongLogIsUpdated
