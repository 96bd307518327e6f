SPECIFICATION MessageSpec
CONSTANTS
  Number = {0, 1, 2}
  IntRange = 2
CHECK_DEADLOCK FALSE
INVARIANTS MessageTypeOK PeerNeverThrows OwnTextsUnderstood AnswerComesBack
