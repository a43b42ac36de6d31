SPECIFICATION Spec
CONSTANTS
  Documented = FALSE
  MaxBeginning = 7
  MaxTokens = 5
  Beginnings <- MCBeginnings
CHECK_DEADLOCK FALSE
INVARIANT ParserTypeOK
INVARIANT AcceptsTheLanguage
INVARIANT ViablePrefix
INVARIANT NullMeansError
PROPERTY ErrorsAreReal
PROPERTY ParserTerminates
