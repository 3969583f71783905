CONSTANTS
  NumThreads = 3
  Increment = 2
  MaxSentences = 5
  MaxRecords = 2
  MayFail = TRUE
  Length = 3
  Tags <- ThreeWords
  Rules <- SmallRules
  BadPairs <- NoRepeat
  RootTerm = "S1"
  StopTerm = "STOP"
  RuleiTimeouts = {9, 28}
  TimeFactor = 2
SPECIFICATION ParserSpec
INVARIANTS
  EachSentenceOnce ForestComplete
  NoEdgeTwice EveryPairHasMet ChartIsComplete NeedmeIterReaches
PROPERTIES RecordIsAnswered
