SPECIFICATION FairSpec
CONSTANTS
  Games = {g1, g2}
  MaxCommands = 3
  MaxEvents = 2
  MaxUnread = 2
  None = None
INVARIANTS
  TypeOK
  ReceiptAsked
  NoReceiptFails
  ClientKnowsItsGames
  
PROPERTIES
  ShutsDown
CHECK_DEADLOCK FALSE
