\* A TCP and an RTU master, two TCP slaves and an RTU slave, two connections.
SPECIFICATION FairSpec
CONSTANTS
  Masters = {tcpMaster, rtuMaster}
  Throwing = {rtuMaster}
  Slaves = {tcpSlave, tcpSlave2, rtuSlave}
  TcpServers = {tcpSlave, tcpSlave2}
  Clients = {c1, c2}
INVARIANTS
  TypeOK
  DanglingOnlyAfterSignal
  NothingLeft
  FailureReported
PROPERTY SignalEnds
\* main returns.
CHECK_DEADLOCK FALSE
