SPECIFICATION FairTypingSpec
CONSTANT MaxNotices = 2
INVARIANT TypingTypeOK
INVARIANT NoStatusBetweenLines
PROPERTY StatusGoesAway
CHECK_DEADLOCK FALSE
