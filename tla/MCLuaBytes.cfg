SPECIFICATION Spec
CONSTANTS
  Vars = {x, y}
  Nil = Nil
  Stale = Stale
  MinAlloc = 2
  MaxLen = 2
  MaxCalls = 3
  Texts <- MCTexts
  Elements <- MCElements
  Blocks <- MCBlocks
  Tags <- MCTags
SYMMETRY Symmetry
INVARIANTS CallsKeepPromises NumbersAreKept TextsAreExact JoinInvertsSplit SplitAdvances
CHECK_DEADLOCK FALSE
