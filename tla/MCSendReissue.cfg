SPECIFICATION Spec
CONSTANTS
  Commands <- MCCommands
  Totals <- MCTotals
  Announced <- MCAnnounced
  WrongLengthFor <- MCWithoutLe
  MaxInterrupts = 0
  NoCommand = NoCommand
INVARIANT ReissueOnlyCorrectsLength
