SPECIFICATION Spec
CONSTANTS
  Mails <- MCMails
  NoMail = NoMail
  NoCursor = NoCursor
  Parts <- MCParts
  Sessions = {w1}
  MaxFaults = 0
  Forwarded <- NoneForwarded
  Handlers = {}
  MaxMailbox = 2
  Syncers = {w1}
  MaxRetries = 1
  MaxConnections = 1
INVARIANT AttachmentsAreIndependent
CHECK_DEADLOCK FALSE
