CONSTANTS
  Thread = {t1, t2}
  NumHosts = 1
  PerHost = 1
  Legacy = FALSE
  MayFail = {}
SPECIFICATION Spec
INVARIANTS NobodySleepsByAvailableClient
