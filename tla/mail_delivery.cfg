SPECIFICATION FairSpec
CONSTANTS
  Mails <- MCMails
  NoMail = NoMail
  NoCursor = NoCursor
  Parts <- MCParts
  Sessions = {h1, h2, w1}
  MaxFaults = 1
  Forwarded <- MCForwarded
  Handlers = {h1, h2}
  MaxMailbox = 1
  Syncers = {w1}
  MaxRetries = 1
  MaxConnections = 1
INVARIANT AcceptedMailIsHandled
PROPERTIES
  PushedMailIsHandled
  ForwardedMailIsAccepted
CHECK_DEADLOCK FALSE
