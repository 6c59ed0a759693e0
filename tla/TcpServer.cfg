\* Two clients and ids to reuse; three requests with two transaction ids allow
\* a pipelined request, a retry and a request of the other client.
SPECIFICATION FairSpec
CONSTANTS
  MaxClients = 2
  MaxRequests = 3
  ActorIds = {1, 2}
  Tids = {1, 2}
INVARIANTS
  TypeOK
  RegistryAgrees
  ForeignAnswerNeedsReuse
PROPERTIES
  DisconnectCleansUp
  LatestRequestAnswered
\* Clients leave and the bounded number of requests is used up.
CHECK_DEADLOCK FALSE
