CONSTANTS
  Groups <- TwoGroups
  Session = {s1, s2}
  Overlap = FALSE
  Disconnects = TRUE
  MaxProcesses = 2
SPECIFICATION Spec
INVARIANT RefusedKillIsRight
PROPERTIES FirstStartOnly SparesOtherGroups
SYMMETRY Sessions
