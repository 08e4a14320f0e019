SPECIFICATION Spec
CONSTANTS
  Mails <- MCMails
  NoMail = NoMail
  NoCursor = NoCursor
  Parts <- MCParts
  Sessions = {w1, w2}
  MaxFaults = 1
  Forwarded <- NoneForwarded
  Handlers = {}
  MaxMailbox = 2
  Syncers = {w1, w2}
  MaxRetries = 1
  MaxConnections = 2
SYMMETRY Interchangeable
INVARIANTS
  TypeOK
  OneReceiptPerAttachment
  CursorPassesHandledMail
PROPERTY CursorMovedByItsOwnJob
CHECK_DEADLOCK FALSE
