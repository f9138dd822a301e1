SPECIFICATION ExportSpec
CONSTANTS
  Symbols <- SymbolsDef
  a = a
  b = b
  direct = direct
  Space = Space
  Direct <- DirectDef
  Reserved <- ReservedDef
  Default <- DefaultDef
  NoDialer = NoDialer
  MaxChars = 3
  MaxRules = 2
  RuleTexts <- RuleTextsDef
  Keywords = {b}
  Stored <- StoredDef
  Fetched <- FetchedDef
  MaxStored = 3
  MaxFetched = 1
INVARIANTS NamesAreOwn ChainsKept
PROPERTIES StaysUsable
CHECK_DEADLOCK FALSE
