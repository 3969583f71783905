CONSTANTS
  Char = {"a", " "}
  Texts <- MCTexts
  RawTexts <- MCRawTexts
  Kind = {"NP", "VP"}
  Parses <- MCParses
  KBest = 2
  Packed <- MCPacked
  NumParses = 5
  Head1 <- MCHead1
  Head2 <- MCHead2
  Tag = {"N", "IN", ","}
  Punctuation = {","}
  Dependencies <- MCDependencies
  MaxDependencies = 3
SPECIFICATION Spec
INVARIANTS SentencesAgree ChunksAreRuns ForestsMirrorParses ForestsCoverTokens DependencyTreesMirror KBestAreBest
CHECK_DEADLOCK FALSE
