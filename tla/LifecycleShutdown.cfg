\* One actor of each kind; the regular end.
SPECIFICATION Spec
CONSTANTS
  Masters = {tcpMaster, rtuMaster}
  Throwing = {rtuMaster}
  Slaves = {tcpSlave, rtuSlave}
  TcpServers = {tcpSlave}
  Clients = {c1}
INVARIANT ActorsDieBeforeContext
\* main returns.
CHECK_DEADLOCK FALSE
