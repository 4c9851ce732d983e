CONSTANTS
  Contents = {"x", "y"}
  OldTexts <- MCOldTexts
  NewTexts <- MCNewTexts
  TableSize = 6
  Capacity = 8
  Letters = {"x", "v"}
  Digits = {"1"}
  NumberSigns = {".", "x"}
  Blanks = {" "}
  Quotes = {"'"}
  Codes <- MCCodes
  Keywords <- MCKeywords
  Counted <- MCCounted
  MaxTokens = 5
  ShownKeywords <- MCKeywords
  Operators = {"*", "/"}
  MaxMarks = 4
  Signs <- MCSigns
  Commands <- MCCommands
  Others <- MCOthers
  IdModulus = 16
  DigitValue <- MCDigitValue
  Enables <- MCEnables
  Symbols <- MCSymbols
  Heads <- MCHeads
SPECIFICATION TextsSpec
INVARIANTS
  DiffSpellsTexts
  InsertionsSeen
  TokensTile
  ScannersAgree
  CommandUnderstood
  HeadersFound
PROPERTIES
  TextsEnd
CHECK_DEADLOCK FALSE
