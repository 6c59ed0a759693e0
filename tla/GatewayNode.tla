---------------------------- MODULE GatewayNode ----------------------------
(***************************************************************************)
(* A gateway with a TCP slave and several masters: ModbusTcpServer, whose  *)
(* requests go to the masters through Router and exchange, and one         *)
(* MasterService for each master, the service the TCP and the RTU master   *)
(* are shown to implement.  What a slave sees of the masters is here what  *)
(* they do, and an answer has a content: the request it is the answer to.  *)
(*                                                                         *)
(* exchange->Send calls Receive of the addressee directly: a request       *)
(* arrives at its master in the step that reads it, and an answer at the   *)
(* connection in the step of the master that makes it.                     *)
(***************************************************************************)
EXTENDS Naturals, Sequences, FiniteSets

CONSTANTS
  MaxClients, MaxRequests, ActorIds, Tids,   \* of ModbusTcpServer
  Masters,        \* actors of the masters
  ExactMasters    \* those whose transport has transaction ids: TCP

ASSUME NodeAssumption ==
  /\ {MaxClients, MaxRequests} \subseteq Nat \ {0}
  /\ ActorIds \cup Tids \subseteq Nat \ {0}
  /\ ExactMasters \subseteq Masters

VARIABLES
  phase, peer, actorId, pending, recvOp, received, toServer, backlog, storage,
  clientDb, request, source, atMasters, written, running,   \* ModbusTcpServer
  line,      \* master -> the requests submitted to it, by arrival
  status,    \* master -> status of its MasterService
  answer,    \* master -> answer of its MasterService
  got        \* history: what the clients got, one entry for each of written

slaveVars  == <<phase, peer, actorId, pending, recvOp, received, toServer, backlog,
                storage, clientDb, request, source, atMasters, written, running>>
masterVars == <<line, status, answer>>
vars       == <<slaveVars, masterVars, got>>

Requests == 1..MaxRequests

Slave == INSTANCE ModbusTcpServer

Master(k) == INSTANCE MasterService WITH
  MaxMessages <- MaxRequests,
  Exact       <- k \in ExactMasters,
  status      <- status[k],
  answer      <- answer[k]

Init ==
  /\ Slave!Init
  /\ line = [k \in Masters |-> <<>>]
  /\ status = [k \in Masters |-> [n \in Requests |-> "new"]]
  /\ answer = [k \in Masters |-> [n \in Requests |-> 0]]
  /\ got = <<>>
-----------------------------------------------------------------------------
(* Master k takes a step of its service, in which request n gets answer q. *)
MasterStep(k, n, q) ==
  /\ running
  /\ \E s \in [Requests -> Master(k)!Statuses] : status' = [status EXCEPT ![k] = s]
  /\ answer' = IF q = 0 THEN answer ELSE [answer EXCEPT ![k][n] = q]
  /\ Master(k)!ServiceNext

(* The arrivals at master k are the requests submitted to it.              *)
Arrived(k) == \A n \in Requests : status'[k][n] = "new" <=> n > Len(line'[k])

(* Router::Route names master k for the unit id of the request, and        *)
(* exchange->Send finds it; the master queues it, or puts it on the wire.  *)
Forwarded(c, k) ==
  /\ Slave!RequestReceived(c)
  /\ atMasters' # atMasters
  /\ line' = [line EXCEPT ![k] = Append(@, received[c])]
  /\ MasterStep(k, 0, 0)
  /\ Arrived(k)
  /\ UNCHANGED got

(* The router has no master for the unit id: exchange->Send finds nobody   *)
(* and the client is not told.                                             *)
NotForwarded(c) ==
  /\ UNCHANGED <<atMasters, masterVars, got>>
  /\ Slave!RequestReceived(c)

(* Requests of client c whose MakeRequest has been done; the connection    *)
(* waits for the last.                                                     *)
LatestOf(c) ==
  CHOOSE r \in 1..Len(request) :
    /\ request[r].client = c /\ source[r] # 0
    /\ \A q \in 1..Len(request) : request[q].client = c /\ source[q] # 0 => q <= r

(* Master k answers its request n with the answer to its request q: the    *)
(* message carries the ids of n.                                           *)
Answered(k, n, q) ==
  /\ n \in DOMAIN line[k] /\ q \in DOMAIN line[k]
  /\ MasterStep(k, n, q)
  /\ status'[k][n] # status[k][n]
  /\ UNCHANGED line
  /\ Arrived(k)
  /\ Slave!MasterAnswers(line[k][n])
  /\ IF written' = written THEN UNCHANGED got
     ELSE LET w == written'[Len(written')]
          IN  got' = Append(got, [master  |-> k,
                                  asked   |-> LatestOf(w.client),
                                  content |-> line[k][q]])

(* A master takes the next request, drops what has expired, or gives up:   *)
(* the slave is not told.                                                  *)
Works(k) ==
  /\ MasterStep(k, 0, 0)
  /\ UNCHANGED line
  /\ Arrived(k)
  /\ UNCHANGED <<slaveVars, got>>

Others ==
  /\ \/ Slave!AcceptTask
     \/ \E c \in Slave!Clients :
          \/ Slave!ReceiveAgain(c) \/ Slave!Disconnected(c)
          \/ Slave!KernelReceives(c) \/ Slave!Client(c)
  /\ UNCHANGED <<masterVars, got>>

Next ==
  \/ \E c \in Slave!Clients : NotForwarded(c) \/ \E k \in Masters : Forwarded(c, k)
  \/ \E k \in Masters : Works(k) \/ \E n, q \in Requests : Answered(k, n, q)
  \/ Others

Spec == Init /\ [][Next]_vars
-----------------------------------------------------------------------------
(***************************************************************************)
(* Properties.                                                             *)
(***************************************************************************)

(* The client that got entry i, and the request whose ids the answer had.  *)
Client(i) == written[i].client
Stamp(i)  == written[i].req

HasLost(k) == \E n \in DOMAIN line[k] : status[k][n] = "lost"

(* From end to end: a client gets the answer to the request it waits for,  *)
(* once, with two exceptions.  The ids of an answer may be those of another      *)
(* request with the same transaction id, an earlier one of the client or   *)
(* one of a client that has gone and left it its actor id; and a master    *)
(* without transaction ids may mistake an answer, once it has lost a       *)
(* request.                                                                *)
GetsItsAnswer ==
  \A i \in 1..Len(got) :
    /\ \A j \in 1..(i - 1) : got[j].asked # got[i].asked
    /\ Stamp(i) # got[i].asked =>
         /\ request[Stamp(i)].tid = request[got[i].asked].tid
         /\ \/ request[Stamp(i)].client = Client(i)
            \/ source[Stamp(i)] = actorId[Client(i)] /\ phase[request[Stamp(i)].client] = "gone"
    /\ got[i].content # Stamp(i) => got[i].master \notin ExactMasters /\ HasLost(got[i].master)
=============================================================================
