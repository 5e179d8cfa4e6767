SPECIFICATION FairTypingSpec
CONSTANT MaxNotices = 2
PROPERTY OldStatusCleared
CHECK_DEADLOCK FALSE
