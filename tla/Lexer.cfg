SPECIFICATION Spec
CONSTANTS
  Sources <- MCSources
CHECK_DEADLOCK FALSE
INVARIANT LexTypeOK
INVARIANT OnlyTriviaSkipped
INVARIANT LocationsExact
PROPERTY PeekIsNextConsume
PROPERTY LexerTerminates
