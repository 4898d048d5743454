CONSTANTS
  MaxCalls = 3
  MaxDepth = 3
  MaxSaves = 1
SPECIFICATION ReaderSpec
INVARIANT AnsweredInOrder
INVARIANT RecordedOnce
INVARIANT SavedIsShown
INVARIANT StatusNeverOlder
