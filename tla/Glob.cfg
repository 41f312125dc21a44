SPECIFICATION Spec
CONSTANTS
  Alphabet <- SomeAlphabet
  PrefixChars <- SomePrefixChars
  Tokens <- SomeTokens
  Strings <- SomeStrings
  MaxPrefix = 1
  MaxTokens = 3
  MaxKey = 3
CHECK_DEADLOCK FALSE
INVARIANTS LevelsMatchMeaning PrefixIsLiteral
