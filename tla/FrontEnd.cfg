SPECIFICATION Spec
CONSTANT Programs <- MCPrograms
CHECK_DEADLOCK FALSE
INVARIANT FrontTypeOK
INVARIANT NamesResolved
INVARIANT ValuesFit
INVARIANT ZirMeansSource
INVARIANT EndsExplained
PROPERTY LaterPassesKeepDeclarations
