CONSTANTS
  NumThreads = 2
  Increment = 2
  MaxSentences = 2
  MaxRecords = 2
  MayFail = FALSE
SPECIFICATION Spec
INVARIANTS EverySentenceParsed
CHECK_DEADLOCK FALSE
