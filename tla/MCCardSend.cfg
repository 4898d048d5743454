SPECIFICATION FairSpec
CONSTANTS
  Commands <- MCCommands
  Totals <- MCTotals
  Announced <- MCAnnounced
  WrongLengthFor <- WithLe
  MaxInterrupts = 2
  NoCommand = NoCommand
INVARIANTS StatusIsFinal ResultIsPrefix SuccessIsComplete
PROPERTIES SendReturns
