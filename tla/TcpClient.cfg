\* Three requests: one in exchange, one that arrives meanwhile and one after a
\* failure.  The transaction ids wrap with the third.
SPECIFICATION FairSpec
CONSTANTS
  MaxMessages = 3
  TidMod = 3
INVARIANTS
  TypeOK
  AnswerMatches
  AnswersInOrder
  ExchangeOwnsSocket
  ConnectedHasSocket
  WedgedOnlyByShortFrame
PROPERTIES
  ExchangeEnds
  QueueMoves
  QueueAbandonedOnlyOnError
  ImplementsService
\* No more requests arrive after the last one and the actor rests.
CHECK_DEADLOCK FALSE
