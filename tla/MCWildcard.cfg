SPECIFICATION FairSpec
CONSTANTS
  NUL = "NUL"
  Star = "*"
  AnyOne = "?"
  MaxLen = 4
  Chars <- MCChars
  Patterns <- MCPatterns
  Strings <- MCStrings
CHECK_DEADLOCK FALSE
INVARIANTS
  TypeOK
  WildcardSound
  WildcardComplete
  ComparatorsAgree
  MatchersAgree
PROPERTIES
  Progress
  Termination
