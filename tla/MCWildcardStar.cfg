SPECIFICATION Spec
CONSTANTS
  NUL = "NUL"
  Star = "*"
  AnyOne = "?"
  MaxLen = 2
  Chars <- MCChars
  Patterns <- MCPatterns
  Strings <- MCStrings
CHECK_DEADLOCK FALSE
INVARIANTS
  WildcardMatchesAnything
