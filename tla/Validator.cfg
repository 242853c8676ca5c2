SPECIFICATION Spec
CONSTANTS
  Lines <- MCLines
  Labels <- MCLabels
  Hex <- MCHex
  Dashes <- MCDashes
  Urls <- MCUrls
  Numeral <- MCNumeral
  Decimals <- MCDecimals
  Upper <- MCUpper
  MaxTime = "20"
  MaxSize = "262144"
INVARIANTS
  TokensAreTheWords
  AcceptedIffWellFormed
  ArgsWellFormed
CHECK_DEADLOCK FALSE
