SPECIFICATION ScanSpec
CONSTANTS
  Window = 4
  MaxChunk = 2
  MaxText = 6
  MaxKept = 5
  Value <- MCValue
  Layouts <- MCLayouts
  CardDigits <- MCCardDigits
  Phrases <- MCPhrases
  MinLetters = 4
  KeyTail = 2
  Texts <- MCTexts
  Registries <- MCRegistries
INVARIANTS
  ViewIsRecent
  PassedIsClean
CHECK_DEADLOCK FALSE
