\* A TCP and an RTU master; two clients with two ids to reuse; a request each,
\* or two of one client, with the same transaction id or not.
SPECIFICATION Spec
CONSTANTS
  MaxClients = 2
  MaxRequests = 2
  ActorIds = {1, 2}
  Tids = {1, 2}
  Masters = {tcp, rtu}
  ExactMasters = {tcp}
INVARIANT
  GetsItsAnswer
\* Clients leave and the bounded number of requests is used up.
CHECK_DEADLOCK FALSE
