SPECIFICATION FairSpec
CONSTANTS
  Programs <- ThePrograms
  MaxClicks = 3
  MaxDepth = 5
INVARIANTS WindowsAreAnswered ConnectedHasHandle KnownCrashes
PROPERTIES WaitEnds QuitEnds
CHECK_DEADLOCK FALSE
