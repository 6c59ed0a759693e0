\* Three requests: one in exchange, one that arrives meanwhile and one after a
\* failure.
SPECIFICATION FairSpec
CONSTANT MaxMessages = 3
INVARIANTS
  TypeOK
  MatchesUntilAbandoned
  AnswersInOrder
  ExchangeOwnsPort
  WedgedOnlyByShortFrame
PROPERTIES
  ExchangeEnds
  QueueMoves
  QueueAbandonedOnlyOnError
  ImplementsService
\* No more requests arrive after the last one and the actor rests.
CHECK_DEADLOCK FALSE
