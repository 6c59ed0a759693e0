-------------------------- MODULE ModbusTcpServer --------------------------
(***************************************************************************)
(* The TCP slave side: one ModbusTcpServer, its ModbusTcpConnections and   *)
(* the part of the exchange that routes answers back to them               *)
(* (transport/modbus_tcp_server.cpp, transport/modbus_tcp_connection.cpp). *)
(*                                                                         *)
(* The server accepts clients.  Each accepted client becomes an actor of   *)
(* the exchange under an id from IdGeneratorReuse, reads requests, stamps  *)
(* them with its actor id and the client's transaction id, and sends them  *)
(* to a master.  An answer comes back as a message to that actor id, much  *)
(* later and perhaps never; the actor compares both ids with what it       *)
(* waits for.  exchange->Send calls Receive of the addressee directly, so  *)
(* a handler and everything it sends is one action.                        *)
(*                                                                         *)
(* The masters appear as the set of requests they still hold: there are    *)
(* several, so that answers come back in any order, at most one each.      *)
(***************************************************************************)
EXTENDS Naturals, Sequences, FiniteSets

CONSTANTS
  MaxClients,     \* clients that ever connect
  MaxRequests,    \* requests ever sent by all of them
  ActorIds,       \* the ids of the exchange, without the server's and the masters'
  Tids            \* transaction ids clients use

ASSUME ServerAssumption ==
  /\ MaxClients \in Nat \ {0}
  /\ MaxRequests \in Nat \ {0}
  /\ ActorIds \subseteq Nat \ {0}
  /\ Tids \subseteq Nat \ {0}

VARIABLES
  phase,      \* client -> where its connection is in its life
  peer,       \* client -> what the socket will report when it is read empty
  actorId,    \* client -> id_ of its ModbusTcpConnection (the last one, once gone)
  pending,    \* client -> syncRequestInfo_: a transaction id, 0 when empty
  recvOp,     \* client -> its outstanding async_receive
  received,   \* client -> the request read, 0 for bytes that make no request
  toServer,   \* client -> requests in the socket, not yet read
  backlog,    \* clients the kernel has accepted for async_accept
  storage,    \* the exchange: actor id -> client, 0 when the id is free
  clientDb,   \* clientDb_ of the server: actor id -> client, 0 when absent
  request,    \* request -> [client, tid], as the client sent it
  source,     \* request -> source id of its ModbusMessageInfo, 0 before it is read
  atMasters,  \* requests the masters hold
  written,    \* history: answers sent to clients
  running     \* the io_context is still run (no exception left a handler)

vars == <<phase, peer, actorId, pending, recvOp, received, toServer, backlog, storage,
          clientDb, request, source, atMasters, written, running>>

Clients  == 1..MaxClients
Requests == 1..MaxRequests

TypeOK ==
  /\ phase \in [Clients -> {"new", "backlog", "open", "gone"}]
  /\ peer \in [Clients -> {"up", "failed", "closed"}]
  /\ actorId \in [Clients -> ActorIds \cup {0}]
  /\ pending \in [Clients -> Tids \cup {0}]
  /\ recvOp \in [Clients -> {"none", "pending", "done", "eof", "error"}]
  /\ received \in [Clients -> Requests \cup {0}]
  /\ toServer \in [Clients -> Seq(Requests)]
  /\ backlog \in Seq(Clients)
  /\ storage \in [ActorIds -> Clients \cup {0}]
  /\ clientDb \in [ActorIds -> Clients \cup {0}]
  /\ request \in Seq([client : Clients, tid : Tids])
  /\ source \in [Requests -> ActorIds \cup {0}]
  /\ atMasters \subseteq 1..Len(request)
  /\ written \in Seq([client : Clients, req : Requests])
  /\ running \in BOOLEAN

Init ==
  /\ phase = [c \in Clients |-> "new"]
  /\ peer = [c \in Clients |-> "up"]
  /\ actorId = [c \in Clients |-> 0]
  /\ pending = [c \in Clients |-> 0]
  /\ recvOp = [c \in Clients |-> "none"]
  /\ received = [c \in Clients |-> 0]
  /\ toServer = [c \in Clients |-> <<>>]
  /\ backlog = <<>>
  /\ storage = [i \in ActorIds |-> 0]
  /\ clientDb = [i \in ActorIds |-> 0]
  /\ request = <<>>
  /\ source = [r \in Requests |-> 0]
  /\ atMasters = {}
  /\ written = <<>>
  /\ running = TRUE
-----------------------------------------------------------------------------
(***************************************************************************)
(* ModbusTcpServer.                                                        *)
(***************************************************************************)

(* The handler of async_accept, without an error: the new actor gets some  *)
(* free id, which may have belonged to an earlier client, and starts to    *)
(* read.  An error of async_accept only starts another.  remote_endpoint() *)
(* throws if the client has already reset the connection, here and in      *)
(* ModbusTcpConnection::Start.                                             *)
AcceptTask ==
  /\ running
  /\ backlog # <<>>
  /\ LET c == Head(backlog)
     IN /\ backlog' = Tail(backlog)
        /\ \/ \E i \in ActorIds :
                /\ storage[i] = 0
                /\ storage' = [storage EXCEPT ![i] = c]
                /\ clientDb' = [clientDb EXCEPT ![i] = c]
                /\ actorId' = [actorId EXCEPT ![c] = i]
                /\ phase' = [phase EXCEPT ![c] = "open"]
                /\ recvOp' = [recvOp EXCEPT ![c] = "pending"]
                /\ UNCHANGED running
           \/ /\ peer[c] # "up"
              /\ running' = FALSE
              /\ phase' = [phase EXCEPT ![c] = "gone"]
              /\ UNCHANGED <<storage, clientDb, actorId, recvOp>>
  /\ UNCHANGED <<peer, pending, received, toServer, request, source, atMasters, written>>

(* Variant: the exchange keeps the actor. *)
ClientDisconnectKeepsActor(i) ==
  /\ clientDb' = [clientDb EXCEPT ![i] = 0]
  /\ UNCHANGED storage

(* Receive of a ClientDisconnectMessage: the exchange and clientDb_ forget *)
(* the actor, whose destructor closes the socket.                          *)
ClientDisconnect(i) ==
  /\ storage' = [storage EXCEPT ![i] = 0]
  /\ clientDb' = [clientDb EXCEPT ![i] = 0]
-----------------------------------------------------------------------------
(***************************************************************************)
(* ModbusTcpConnection.                                                    *)
(***************************************************************************)

(* Variant: the connection waits for a number of its own, as the RTU slave  *)
(* does, and not for the id the client used.                               *)
RequestReceivedOwnNumber(c) ==
  /\ running
  /\ recvOp[c] = "done"
  /\ received[c] # 0
  /\ recvOp' = [recvOp EXCEPT ![c] = "pending"]
  /\ pending' = [pending EXCEPT ![c] = received[c]]
  /\ source' = [source EXCEPT ![received[c]] = actorId[c]]
  /\ atMasters' \in {atMasters, atMasters \cup {received[c]}}
  /\ UNCHANGED <<phase, peer, actorId, received, toServer, backlog, storage, clientDb,
                 request, written, running>>

(* The handler of async_receive, with a request in the buffer.             *)
(* MakeRequest stamps it with the ids, the stamp replaces whatever was     *)
(* waited for, and the request goes to the master the router names, if it  *)
(* names one.                                                              *)
RequestReceived(c) ==
  /\ running
  /\ recvOp[c] = "done"
  /\ received[c] # 0
  /\ recvOp' = [recvOp EXCEPT ![c] = "pending"]
  /\ pending' = [pending EXCEPT ![c] = request[received[c]].tid]
  /\ source' = [source EXCEPT ![received[c]] = actorId[c]]
  /\ atMasters' \in {atMasters, atMasters \cup {received[c]}}
  /\ UNCHANGED <<phase, peer, actorId, received, toServer, backlog, storage, clientDb,
                 request, written, running>>

(* Bytes that MakeRequest refuses, or an error that does not end the       *)
(* connection: the handler only starts to read again.                      *)
ReceiveAgain(c) ==
  /\ running
  /\ \/ recvOp[c] = "done" /\ received[c] = 0
     \/ recvOp[c] = "error"
  /\ recvOp' = [recvOp EXCEPT ![c] = "pending"]
  /\ UNCHANGED <<phase, peer, actorId, pending, received, toServer, backlog, storage,
                 clientDb, request, source, atMasters, written, running>>

(* Variant: the server is not told. *)
DisconnectedSilently(c) ==
  /\ running
  /\ recvOp[c] = "eof"
  /\ recvOp' = [recvOp EXCEPT ![c] = "none"]
  /\ UNCHANGED <<phase, peer, actorId, pending, received, toServer, backlog, storage,
                 clientDb, request, source, atMasters, written, running>>

(* The connection has ended: the server is told. *)
Disconnected(c) ==
  /\ running
  /\ recvOp[c] = "eof"
  /\ recvOp' = [recvOp EXCEPT ![c] = "none"]
  /\ ClientDisconnect(actorId[c])
  /\ phase' = [phase EXCEPT ![c] = "gone"]
  /\ toServer' = [toServer EXCEPT ![c] = <<>>]
  /\ UNCHANGED <<peer, actorId, pending, received, backlog, request, source, atMasters,
                 written, running>>

(* Variant: transaction ids are not compared. *)
SendAnyTid(c, r) ==
  IF actorId[c] = source[r] /\ pending[c] # 0
  THEN /\ pending' = [pending EXCEPT ![c] = 0]
       /\ written' = Append(written, [client |-> c, req |-> r])
  ELSE UNCHANGED <<pending, written>>

(* Variant: the connection still waits after the answer. *)
SendWithoutReset(c, r) ==
  IF actorId[c] = source[r] /\ pending[c] = request[r].tid
  THEN UNCHANGED pending /\ written' = Append(written, [client |-> c, req |-> r])
  ELSE UNCHANGED <<pending, written>>

(* Variant: the reset comes before the comparison. *)
SendResetsFirst(c, r) ==
  /\ pending' = [pending EXCEPT ![c] = 0]
  /\ IF actorId[c] = source[r] /\ pending[c] = request[r].tid
     THEN written' = Append(written, [client |-> c, req |-> r])
     ELSE UNCHANGED written

(* MakeResponse and StartSendTask of connection c on the answer to r. *)
StartSendTask(c, r) ==
  IF actorId[c] = source[r] /\ pending[c] = request[r].tid
  THEN /\ pending' = [pending EXCEPT ![c] = 0]
       /\ written' = Append(written, [client |-> c, req |-> r])
  ELSE UNCHANGED <<pending, written>>

(* A master answers r: exchange->Send to the source id of its message,     *)
(* which finds the actor registered under that id now, or nobody.          *)
MasterAnswers(r) ==
  /\ running
  /\ r \in atMasters
  /\ atMasters' = atMasters \ {r}
  /\ IF storage[source[r]] = 0
     THEN UNCHANGED <<pending, written>>
     ELSE StartSendTask(storage[source[r]], r)
  /\ UNCHANGED <<phase, peer, actorId, recvOp, received, toServer, backlog, storage,
                 clientDb, request, source, running>>

(* A master gives a request up: it says nothing to the slave. *)
MasterGivesUp(r) ==
  /\ running
  /\ r \in atMasters
  /\ atMasters' = atMasters \ {r}
  /\ UNCHANGED <<phase, peer, actorId, pending, recvOp, received, toServer, backlog,
                 storage, clientDb, request, source, written, running>>
-----------------------------------------------------------------------------
(***************************************************************************)
(* The clients and the kernel.                                             *)
(***************************************************************************)
ClientConnects(c) ==
  /\ phase[c] = "new"
  /\ phase' = [phase EXCEPT ![c] = "backlog"]
  /\ backlog' = Append(backlog, c)
  /\ UNCHANGED <<peer, actorId, pending, recvOp, received, toServer, storage, clientDb,
                 request, source, atMasters, written, running>>

(* A client may send before the answer to its last request, and may use a  *)
(* transaction id again (a retry does).                                    *)
ClientSends(c, t) ==
  /\ phase[c] \in {"backlog", "open"}
  /\ peer[c] = "up"
  /\ Len(request) < MaxRequests
  /\ request' = Append(request, [client |-> c, tid |-> t])
  /\ toServer' = [toServer EXCEPT ![c] = Append(@, Len(request) + 1)]
  /\ UNCHANGED <<phase, peer, actorId, pending, recvOp, received, backlog, storage,
                 clientDb, source, atMasters, written, running>>

(* The client closes or resets the connection, or is no longer reachable,  *)
(* which an error reports before the end of the connection.                *)
ClientLeaves(c) ==
  /\ phase[c] \in {"backlog", "open"}
  /\ peer[c] = "up"
  /\ peer' \in {[peer EXCEPT ![c] = "closed"], [peer EXCEPT ![c] = "failed"]}
  /\ toServer' \in {toServer, [toServer EXCEPT ![c] = <<>>]}
  /\ UNCHANGED <<phase, actorId, pending, recvOp, received, backlog, storage, clientDb,
                 request, source, atMasters, written, running>>

(* One read returns one request; or bytes that MakeRequest refuses: a      *)
(* spoilt request, or several at once.                                     *)
KernelReceives(c) ==
  /\ running
  /\ recvOp[c] = "pending"
  /\ \/ \E n \in 1..Len(toServer[c]) :
          /\ \/ n = 1 /\ received' = [received EXCEPT ![c] = Head(toServer[c])]
             \/ received' = [received EXCEPT ![c] = 0]
          /\ toServer' = [toServer EXCEPT ![c] = SubSeq(@, n + 1, Len(@))]
          /\ recvOp' = [recvOp EXCEPT ![c] = "done"]
          /\ UNCHANGED peer
     \/ /\ toServer[c] = <<>>
        /\ peer[c] = "closed"
        /\ recvOp' = [recvOp EXCEPT ![c] = "eof"]
        /\ UNCHANGED <<received, toServer, peer>>
     \/ /\ toServer[c] = <<>>
        /\ peer[c] = "failed"
        /\ recvOp' = [recvOp EXCEPT ![c] = "error"]
        /\ peer' = [peer EXCEPT ![c] = "closed"]
        /\ UNCHANGED <<received, toServer>>
  /\ UNCHANGED <<phase, actorId, pending, backlog, storage, clientDb, request, source,
                 atMasters, written, running>>
-----------------------------------------------------------------------------
Connection(c) ==
  \/ RequestReceived(c) \/ ReceiveAgain(c) \/ Disconnected(c)

Client(c) ==
  \/ ClientConnects(c)
  \/ \E t \in Tids : ClientSends(c, t)
  \/ ClientLeaves(c)

Next ==
  \/ AcceptTask
  \/ \E c \in Clients : Connection(c) \/ KernelReceives(c) \/ Client(c)
  \/ \E r \in Requests : MasterAnswers(r) \/ MasterGivesUp(r)

Spec == Init /\ [][Next]_vars

(***************************************************************************)
(* The io_context runs every handler that is ready and the kernel reports  *)
(* data and the end of a connection.  Clients and masters promise nothing. *)
(***************************************************************************)
FairSpec ==
  /\ Spec
  /\ WF_vars(AcceptTask)
  /\ \A c \in Clients : WF_vars(Connection(c)) /\ WF_vars(KernelReceives(c))
-----------------------------------------------------------------------------
(***************************************************************************)
(* Properties.                                                             *)
(***************************************************************************)

(* The exchange and clientDb_ know the same clients, each under its own id *)
(* and no other, and each of them has a receive on its way: AcceptTask,    *)
(* ClientDisconnect and the handler of async_receive, which either starts  *)
(* another receive or disconnects.                                         *)
RegistryAgrees ==
  running =>
    /\ storage = clientDb
    /\ \A i \in ActorIds, c \in Clients :
         storage[i] = c <=> phase[c] = "open" /\ actorId[c] = i
    /\ \A c \in Clients : phase[c] = "open" <=> recvOp[c] # "none"

(* The checks of MakeResponse let a foreign answer through only when the   *)
(* asker is gone, its actor id was given to the connection, and both used  *)
(* the same transaction id.                                                *)
ForeignAnswerNeedsReuse ==
  \A k \in 1..Len(written) :
    LET c == written[k].client
        r == written[k].req
    IN  c # request[r].client =>
          /\ phase[request[r].client] = "gone"
          /\ source[r] = actorId[c]
          /\ \E q \in 1..Len(request) : request[q].client = c /\ request[q].tid = request[r].tid

(* The answer to the last request read from a client still connected is    *)
(* written, unless an answer with its transaction id has been taken for    *)
(* it: late answers to earlier requests do not make the connection forget  *)
(* what it waits for (the order of the checks in MakeResponse).            *)
LatestRequestAnswered ==
  [][ \A r \in Requests :
        LET c == request[r].client IN
        /\ MasterAnswers(r)
        /\ phase[c] = "open"
        /\ \A q \in (r + 1)..Len(request) : ~(request[q].client = c /\ source[q] # 0)
        /\ \A k \in 1..Len(written) :
             ~(written[k].client = c /\ request[written[k].req].tid = request[r].tid)
        => written' # written ]_vars

(* A client that has gone is forgotten, and its id freed: otherwise every  *)
(* reconnection would leak an actor and a socket.                          *)
DisconnectCleansUp ==
  \A c \in Clients :
    (phase[c] = "open" /\ peer[c] # "up") ~> (phase[c] = "gone" \/ ~running)
=============================================================================
