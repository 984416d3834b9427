CONSTANTS
  Messages <- MCMessages
  KnownDigests <- MCKnownDigests
  Word = 1024
  ReadSize = 140
  AesKeys <- MCAesKeys
  Blocks <- MCBlocks
  KnownCiphers <- MCKnownCiphers
  Passwords <- MCPasswords
SPECIFICATION PasswordSpec
INVARIANTS PasswordTypeOK StreamExact PaddingExact RoundsUndo StandardsExact
CHECK_DEADLOCK FALSE
