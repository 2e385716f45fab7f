SPECIFICATION FairNetSpec
CONSTANTS
  Exchanges <- Both
  Window = 6
  NoMessage = NoMessage
INVARIANT MessagesArrive
PROPERTIES
  ExchangeEnds
  ImplementsDialogue
CHECK_DEADLOCK FALSE
