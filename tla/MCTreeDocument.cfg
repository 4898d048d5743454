SPECIFICATION Spec
CONSTANTS
  Names <- MCNames
  Characters <- MCCharacters
  Hidden <- MCHidden
  Quoted <- MCQuoted
  FirstColumns <- MCFirstColumns
  Texts <- MCTexts
  Bytestrings <- MCBytestrings
  Item <- MCItem
  OldFiles <- MCOldFiles
  NodeSlots = 1
  ColumnSlots = 1
  None = None
  MaxNodes = 2
  MaxCalls = 4
INVARIANT DocumentTypeOK
PROPERTIES LoadRestores ImportOnlyAdds ScriptsReadBack
CHECK_DEADLOCK FALSE
