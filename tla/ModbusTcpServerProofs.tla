----------------------- MODULE ModbusTcpServerProofs ------------------------
(***************************************************************************)
(* Theorems about the TCP slave, for any number of clients, requests and   *)
(* ids.                                                                    *)
(***************************************************************************)
EXTENDS ModbusTcpServer, TLAPS, SequenceTheorems

USE ServerAssumption DEF ServerAssumption, Clients, Requests

Sent      == 1..Len(request)
Accepted  == {"open", "gone"}

(* The clients that wait for async_accept are there once each.             *)
BacklogInv ==
  /\ \A k \in 1..Len(backlog) : phase[backlog[k]] = "backlog"
  /\ \A j, k \in 1..Len(backlog) : j # k => backlog[j] # backlog[k]

RegistryInv ==
  /\ RegistryAgrees
  /\ running => \A c \in Clients : phase[c] = "open" => actorId[c] \in ActorIds

(* What a connection has read, has still to read and waits for was sent by *)
(* its own client.                                                         *)
RequestInv ==
  /\ Len(request) <= MaxRequests
  /\ \A c \in Clients :
       /\ \A k \in 1..Len(toServer[c]) :
            toServer[c][k] \in Sent /\ request[toServer[c][k]].client = c
       /\ received[c] # 0 => received[c] \in Sent /\ request[received[c]].client = c
       /\ pending[c] # 0 =>
            \E q \in Sent : request[q].client = c /\ request[q].tid = pending[c]

(* A request that was read carries the id its client's actor has or had.   *)
SourceInv ==
  /\ \A r \in Sent :
       source[r] # 0 => /\ phase[request[r].client] \in Accepted
                        /\ source[r] = actorId[request[r].client]
  /\ \A r \in Requests : r \notin Sent => source[r] = 0
  /\ \A r \in atMasters : source[r] # 0

(* What was written.                                                       *)
WrittenInv ==
  /\ \A k \in 1..Len(written) :
       /\ written[k].req \in Sent
       /\ source[written[k].req] # 0
       /\ phase[written[k].client] \in Accepted
  /\ ForeignAnswerNeedsReuse

ServerInv == TypeOK /\ BacklogInv /\ RegistryInv /\ RequestInv /\ SourceInv /\ WrittenInv
-----------------------------------------------------------------------------
(* The types of the sequences.                                             *)
LEMMA Typed ==
  ASSUME TypeOK
  PROVE  /\ Len(request) \in Nat /\ Len(written) \in Nat /\ Len(backlog) \in Nat
         /\ \A r \in Sent : request[r] \in [client : Clients, tid : Tids]
                            /\ request[r].client \in Clients /\ request[r].tid \in Tids
         /\ \A k \in 1..Len(written) : written[k] \in [client : Clients, req : Requests]
                                       /\ written[k].client \in Clients
                                       /\ written[k].req \in Requests
         /\ \A k \in 1..Len(backlog) : backlog[k] \in Clients
         /\ \A c \in Clients : toServer[c] \in Seq(Requests) /\ Len(toServer[c]) \in Nat
<1>1. request \in Seq([client : Clients, tid : Tids])
      /\ written \in Seq([client : Clients, req : Requests]) /\ backlog \in Seq(Clients)
  BY DEF TypeOK
<1>2. \A r \in Sent : request[r] \in [client : Clients, tid : Tids]
  BY <1>1, ElementOfSeq DEF Sent
<1>3. \A k \in 1..Len(written) : written[k] \in [client : Clients, req : Requests]
  BY <1>1, ElementOfSeq
<1>4. \A k \in 1..Len(backlog) : backlog[k] \in Clients
  BY <1>1, ElementOfSeq
<1>5. \A c \in Clients : toServer[c] \in Seq(Requests) /\ Len(toServer[c]) \in Nat
  BY LenProperties DEF TypeOK
<1> QED BY <1>1, <1>2, <1>3, <1>4, <1>5, LenProperties

LEMMA ServerStart == Init => ServerInv
<1> SUFFICES ASSUME Init PROVE ServerInv
  OBVIOUS
<1>1. TypeOK
  BY DEF Init, TypeOK
<1>2. BacklogInv /\ RequestInv /\ SourceInv
  BY DEF Init, BacklogInv, RequestInv, SourceInv, Sent
<1>3. RegistryInv
  BY DEF Init, RegistryInv, RegistryAgrees
<1>4. WrittenInv
  BY DEF Init, WrittenInv, ForeignAnswerNeedsReuse
<1> QED BY <1>1, <1>2, <1>3, <1>4 DEF ServerInv

(* The handler of async_accept.                                            *)
LEMMA AcceptStep ==
  ASSUME ServerInv, AcceptTask
  PROVE  ServerInv'
<1> DEFINE c == Head(backlog)
<1>0. /\ UNCHANGED <<peer, pending, received, toServer, request, source, atMasters, written>>
      /\ running /\ backlog # <<>> /\ backlog' = Tail(backlog)
  BY DEF AcceptTask
<1>1. /\ backlog \in Seq(Clients) /\ Len(backlog) \in Nat
      /\ c = backlog[1] /\ 1 \in 1..Len(backlog) /\ c \in Clients /\ phase[c] = "backlog"
  <2>1. backlog \in Seq(Clients) /\ Len(backlog) \in Nat
    BY LenProperties DEF ServerInv, TypeOK
  <2>2. c = backlog[1] /\ 1 \in 1..Len(backlog)
    BY <1>0, <2>1
  <2> HIDE DEF c
  <2> QED BY <2>1, <2>2, ElementOfSeq DEF ServerInv, BacklogInv
<1>2. \/ \E i \in ActorIds :
            /\ storage[i] = 0
            /\ storage' = [storage EXCEPT ![i] = c]
            /\ clientDb' = [clientDb EXCEPT ![i] = c]
            /\ actorId' = [actorId EXCEPT ![c] = i]
            /\ phase' = [phase EXCEPT ![c] = "open"]
            /\ recvOp' = [recvOp EXCEPT ![c] = "pending"]
            /\ UNCHANGED running
      \/ /\ running' = FALSE
         /\ phase' = [phase EXCEPT ![c] = "gone"]
         /\ UNCHANGED <<storage, clientDb, actorId, recvOp>>
  BY DEF AcceptTask
<1>3. /\ Len(backlog') = Len(backlog) - 1
      /\ \A k \in 1..(Len(backlog) - 1) : backlog'[k] = backlog[k + 1] /\ k + 1 \in 1..Len(backlog)
      /\ backlog' \in Seq(Clients)
  BY <1>0, <1>1
<1> HIDE DEF c
<1>4. /\ phase' \in [Clients -> {"new", "backlog", "open", "gone"}]
      /\ phase'[c] \in Accepted
      /\ \A d \in Clients : d # c => phase'[d] = phase[d] /\ actorId'[d] = actorId[d]
  BY <1>1, <1>2 DEF ServerInv, TypeOK, Accepted
<1>5. TypeOK'
  <2>1. /\ storage' \in [ActorIds -> Clients \cup {0}]
        /\ clientDb' \in [ActorIds -> Clients \cup {0}]
        /\ actorId' \in [Clients -> ActorIds \cup {0}]
        /\ recvOp' \in [Clients -> {"none", "pending", "done", "eof", "error"}]
        /\ running' \in BOOLEAN
    <3>1. CASE running' = FALSE /\ UNCHANGED <<storage, clientDb, actorId, recvOp>>
      BY <3>1 DEF ServerInv, TypeOK
    <3>2. ASSUME NEW i \in ActorIds,
                 storage' = [storage EXCEPT ![i] = c],
                 clientDb' = [clientDb EXCEPT ![i] = c],
                 actorId' = [actorId EXCEPT ![c] = i],
                 recvOp' = [recvOp EXCEPT ![c] = "pending"],
                 running' = running
          PROVE  /\ storage' \in [ActorIds -> Clients \cup {0}]
                 /\ clientDb' \in [ActorIds -> Clients \cup {0}]
                 /\ actorId' \in [Clients -> ActorIds \cup {0}]
                 /\ recvOp' \in [Clients -> {"none", "pending", "done", "eof", "error"}]
                 /\ running' \in BOOLEAN
      BY <1>1, <3>2 DEF ServerInv, TypeOK
    <3> QED BY <1>2, <3>1, <3>2
  <2> QED BY <1>0, <1>3, <1>4, <2>1 DEF ServerInv, TypeOK
<1>6. BacklogInv'
  <2>1. ASSUME NEW k \in 1..(Len(backlog) - 1)
        PROVE  /\ backlog'[k] # c /\ backlog'[k] \in Clients
               /\ phase[backlog'[k]] = "backlog"
    <3>1. k + 1 \in 1..Len(backlog) /\ k + 1 # 1
      BY <1>1
    <3>2. backlog[k + 1] # backlog[1] /\ phase[backlog[k + 1]] = "backlog"
      BY <1>1, <3>1 DEF ServerInv, BacklogInv
    <3>3. backlog[k + 1] \in Clients
      BY <1>1, <3>1, ElementOfSeq
    <3> QED BY <1>1, <1>3, <3>2, <3>3
  <2>2. \A k \in 1..Len(backlog') : phase'[backlog'[k]] = "backlog"
    BY <1>3, <1>4, <2>1
  <2>3. \A j, k \in 1..Len(backlog') : j # k => backlog'[j] # backlog'[k]
    <3>1. SUFFICES ASSUME NEW j \in 1..(Len(backlog) - 1),
                          NEW k \in 1..(Len(backlog) - 1), j # k
                   PROVE  backlog'[j] # backlog'[k]
      BY <1>3
    <3>2. j + 1 \in 1..Len(backlog) /\ k + 1 \in 1..Len(backlog) /\ j + 1 # k + 1
      BY <1>1, <3>1
    <3>3. backlog[j + 1] # backlog[k + 1]
      BY <3>2 DEF ServerInv, BacklogInv
    <3> QED BY <1>3, <3>3
  <2> QED BY <2>2, <2>3 DEF BacklogInv
<1>7. RegistryInv'
  <2>1. CASE running' = FALSE
    BY <2>1 DEF RegistryInv, RegistryAgrees
  <2>2. ASSUME NEW i \in ActorIds,
               storage[i] = 0,
               storage' = [storage EXCEPT ![i] = c],
               clientDb' = [clientDb EXCEPT ![i] = c],
               actorId' = [actorId EXCEPT ![c] = i],
               phase' = [phase EXCEPT ![c] = "open"],
               recvOp' = [recvOp EXCEPT ![c] = "pending"],
               running' = running
        PROVE  RegistryInv'
    <3>1. storage' = clientDb'
      BY <1>0, <2>2 DEF ServerInv, RegistryInv, RegistryAgrees
    <3>2. ASSUME NEW j \in ActorIds, NEW d \in Clients
          PROVE  storage'[j] = d <=> phase'[d] = "open" /\ actorId'[d] = j
      BY <1>0, <1>1, <2>2, SMTT(40) DEF ServerInv, RegistryInv, RegistryAgrees, TypeOK
    <3>3. \A d \in Clients : phase'[d] = "open" <=> recvOp'[d] # "none"
      BY <1>0, <1>1, <2>2 DEF ServerInv, RegistryInv, RegistryAgrees, TypeOK
    <3>4. \A d \in Clients : phase'[d] = "open" => actorId'[d] \in ActorIds
      BY <1>0, <1>1, <2>2 DEF ServerInv, RegistryInv, TypeOK
    <3> QED BY <3>1, <3>2, <3>3, <3>4 DEF RegistryInv, RegistryAgrees
  <2> QED BY <1>2, <2>1, <2>2
<1>8. RequestInv'
  BY <1>0 DEF ServerInv, RequestInv, Sent
<1>9. ASSUME NEW d \in Clients, phase[d] \in Accepted
      PROVE  phase'[d] = phase[d] /\ actorId'[d] = actorId[d]
  BY <1>1, <1>4, <1>9 DEF Accepted
<1>10. SourceInv'
  BY <1>0, <1>9, Typed DEF ServerInv, SourceInv, Sent
<1>11. WrittenInv'
  <2>1. \A k \in 1..Len(written) :
          /\ written[k].req \in Sent /\ source[written[k].req] # 0
          /\ phase[written[k].client] \in Accepted
          /\ phase[request[written[k].req].client] \in Accepted
          /\ written[k].client \in Clients /\ request[written[k].req].client \in Clients
    BY Typed DEF ServerInv, WrittenInv, SourceInv
  <2> QED BY <1>0, <1>9, <2>1, SMTT(40) DEF ServerInv, WrittenInv, ForeignAnswerNeedsReuse, Sent
<1> QED BY <1>5, <1>6, <1>7, <1>8, <1>10, <1>11 DEF ServerInv

(* An open connection is registered under its id.                          *)
LEMMA Registered ==
  ASSUME ServerInv, running
  PROVE  \A c \in Clients :
           recvOp[c] # "none" =>
             phase[c] = "open" /\ actorId[c] \in ActorIds /\ storage[actorId[c]] = c
BY DEF ServerInv, RegistryInv, RegistryAgrees

(* What the exchange finds under an id is the open connection that has it. *)
LEMMA Addressee ==
  ASSUME ServerInv, running, NEW i \in ActorIds, storage[i] # 0
  PROVE  /\ storage[i] \in Clients
         /\ phase[storage[i]] = "open" /\ actorId[storage[i]] = i
<1>1. storage[i] \in Clients
  BY DEF ServerInv, TypeOK
<1>2. \A c \in Clients : storage[i] = c => phase[c] = "open" /\ actorId[c] = i
  BY DEF ServerInv, RegistryInv, RegistryAgrees
<1> QED BY <1>1, <1>2

LEMMA RequestReceivedStep ==
  ASSUME ServerInv, NEW c \in Clients, RequestReceived(c)
  PROVE  ServerInv'
<1> DEFINE r == received[c]
<1>0. /\ UNCHANGED <<phase, peer, actorId, received, toServer, backlog, storage, clientDb,
                     request, written, running>>
      /\ running /\ recvOp[c] = "done" /\ r # 0
      /\ recvOp' = [recvOp EXCEPT ![c] = "pending"]
      /\ pending' = [pending EXCEPT ![c] = request[r].tid]
      /\ source' = [source EXCEPT ![r] = actorId[c]]
      /\ atMasters' \in {atMasters, atMasters \cup {r}}
  BY DEF RequestReceived
<1>1. phase[c] = "open" /\ actorId[c] \in ActorIds /\ actorId[c] # 0
  BY <1>0, Registered
<1>2. r \in Sent /\ r \in Requests /\ request[r].client = c /\ request[r].tid \in Tids
  <2>1. r \in Sent /\ request[r].client = c
    BY <1>0 DEF ServerInv, RequestInv
  <2>2. r \in Requests
    BY <1>0 DEF ServerInv, TypeOK
  <2> QED BY <2>1, <2>2, Typed DEF ServerInv
<1> HIDE DEF r
<1>3. TypeOK'
  <2>1. atMasters' \subseteq 1..Len(request)
    BY <1>0, <1>2 DEF ServerInv, TypeOK, Sent
  <2> QED BY <1>0, <1>1, <1>2, <2>1 DEF ServerInv, TypeOK
<1>4. BacklogInv'
  BY <1>0 DEF ServerInv, BacklogInv
<1>5. RegistryInv'
  BY <1>0, <1>1, SMTT(40) DEF ServerInv, RegistryInv, RegistryAgrees, TypeOK
<1>6. RequestInv'
  BY <1>0, <1>2, ZenonT(40) DEF ServerInv, RequestInv, TypeOK, Sent
<1>7. \A q \in Requests : source'[q] = IF q = r THEN actorId[c] ELSE source[q]
  BY <1>0, <1>2 DEF ServerInv, TypeOK
<1>8. Sent \subseteq Requests
  BY Typed DEF ServerInv, RequestInv, Sent
<1>9. SourceInv'
  BY <1>0, <1>1, <1>2, <1>7, <1>8 DEF ServerInv, SourceInv, Accepted, Sent
<1>10. WrittenInv'
  <2>1. \A q \in Sent : source[q] # 0 => source'[q] = source[q]
    BY <1>2, <1>7, <1>8 DEF ServerInv, SourceInv
  <2> QED BY <1>0, <2>1 DEF ServerInv, WrittenInv, ForeignAnswerNeedsReuse, Sent
<1> QED BY <1>3, <1>4, <1>5, <1>6, <1>9, <1>10 DEF ServerInv

LEMMA ReceiveAgainStep ==
  ASSUME ServerInv, NEW c \in Clients, ReceiveAgain(c)
  PROVE  ServerInv'
<1>0. /\ UNCHANGED <<phase, peer, actorId, pending, received, toServer, backlog, storage,
                     clientDb, request, source, atMasters, written, running>>
      /\ recvOp[c] # "none" /\ recvOp' = [recvOp EXCEPT ![c] = "pending"]
  BY DEF ReceiveAgain
<1>1. TypeOK'
  BY <1>0 DEF ServerInv, TypeOK
<1>2. RegistryInv'
  BY <1>0 DEF ServerInv, RegistryInv, RegistryAgrees, TypeOK
<1>3. BacklogInv' /\ RequestInv' /\ SourceInv' /\ WrittenInv'
  BY <1>0 DEF ServerInv, BacklogInv, RequestInv, SourceInv, WrittenInv,
              ForeignAnswerNeedsReuse, Sent
<1> QED BY <1>1, <1>2, <1>3 DEF ServerInv

(* The end of a connection takes it out of both registries.                *)
LEMMA DisconnectedStep ==
  ASSUME ServerInv, NEW c \in Clients, Disconnected(c)
  PROVE  ServerInv'
<1> DEFINE i == actorId[c]
<1>0. /\ UNCHANGED <<peer, actorId, pending, received, backlog, request, source, atMasters,
                     written, running>>
      /\ running /\ recvOp[c] # "none"
      /\ recvOp' = [recvOp EXCEPT ![c] = "none"]
      /\ storage' = [storage EXCEPT ![i] = 0]
      /\ clientDb' = [clientDb EXCEPT ![i] = 0]
      /\ phase' = [phase EXCEPT ![c] = "gone"]
      /\ toServer' = [toServer EXCEPT ![c] = <<>>]
  BY DEF Disconnected, ClientDisconnect
<1>1. phase[c] = "open" /\ i \in ActorIds /\ storage[i] = c
  BY <1>0, Registered
<1>2. TypeOK'
  <2>1. <<>> \in Seq(Requests)
    OBVIOUS
  <2> QED BY <1>0, <1>1, <2>1 DEF ServerInv, TypeOK
<1>3. \A d \in Clients : phase'[d] = IF d = c THEN "gone" ELSE phase[d]
  BY <1>0 DEF ServerInv, TypeOK
<1>4. BacklogInv'
  <2>1. \A k \in 1..Len(backlog) : backlog[k] \in Clients /\ phase[backlog[k]] = "backlog"
    BY Typed DEF ServerInv, BacklogInv
  <2> QED BY <1>0, <1>1, <1>3, <2>1 DEF ServerInv, BacklogInv
<1>5. RegistryInv'
  <2>1. storage' = clientDb'
    BY <1>0 DEF ServerInv, RegistryInv, RegistryAgrees
  <2>2. ASSUME NEW j \in ActorIds, NEW d \in Clients
        PROVE  storage'[j] = d <=> phase'[d] = "open" /\ actorId'[d] = j
    <3>1. storage[j] = d <=> phase[d] = "open" /\ actorId[d] = j
      BY <1>0 DEF ServerInv, RegistryInv, RegistryAgrees
    <3>2. storage'[j] = IF j = i THEN 0 ELSE storage[j]
      BY <1>0 DEF ServerInv, TypeOK
    <3> QED BY <1>0, <1>1, <1>3, <3>1, <3>2
  <2>3. \A d \in Clients : phase'[d] = "open" <=> recvOp'[d] # "none"
    BY <1>0, <1>3 DEF ServerInv, RegistryInv, RegistryAgrees, TypeOK
  <2>4. \A d \in Clients : phase'[d] = "open" => actorId'[d] \in ActorIds
    BY <1>0, <1>3 DEF ServerInv, RegistryInv
  <2> QED BY <2>1, <2>2, <2>3, <2>4 DEF RegistryInv, RegistryAgrees
<1>6. RequestInv'
  <2>1. \A d \in Clients : toServer'[d] = toServer[d] \/ toServer'[d] = <<>>
    BY <1>0 DEF ServerInv, TypeOK
  <2> QED BY <1>0, <2>1 DEF ServerInv, RequestInv, Sent
<1>7. \A d \in Clients : phase[d] \in Accepted => phase'[d] \in Accepted
  BY <1>3 DEF Accepted
<1>8. \A d \in Clients : phase[d] = "gone" => phase'[d] = "gone"
  BY <1>3
<1>9. SourceInv'
  BY <1>0, <1>7, Typed DEF ServerInv, SourceInv, Sent
<1>10. WrittenInv'
  <2>1. \A k \in 1..Len(written) :
          written[k].client \in Clients /\ request[written[k].req].client \in Clients
    BY Typed DEF ServerInv, WrittenInv
  <2> QED BY <1>0, <1>7, <1>8, <2>1 DEF ServerInv, WrittenInv, ForeignAnswerNeedsReuse, Sent
<1> QED BY <1>2, <1>4, <1>5, <1>6, <1>9, <1>10 DEF ServerInv

(* An answer: the addressee is the actor that has the asker's id now.      *)
LEMMA MasterAnswersStep ==
  ASSUME ServerInv, NEW r \in Requests, MasterAnswers(r)
  PROVE  ServerInv'
<1> DEFINE i == source[r]
           c == storage[i]
<1>0. /\ UNCHANGED <<phase, peer, actorId, recvOp, received, toServer, backlog, storage,
                     clientDb, request, source, running>>
      /\ running /\ r \in atMasters /\ atMasters' = atMasters \ {r}
      /\ \/ UNCHANGED <<pending, written>>
         \/ /\ c # 0
            /\ actorId[c] = i /\ pending[c] = request[r].tid
            /\ pending' = [pending EXCEPT ![c] = 0]
            /\ written' = Append(written, [client |-> c, req |-> r])
  BY DEF MasterAnswers, StartSendTask
<1>1. r \in Sent /\ i # 0 /\ i \in ActorIds
  BY <1>0 DEF ServerInv, SourceInv, TypeOK, Sent
<1>2. c # 0 => c \in Clients /\ phase[c] = "open" /\ actorId[c] = i
  BY <1>0, <1>1, Addressee
<1>3. /\ request[r].client \in Clients /\ request[r].tid \in Tids /\ request[r].tid # 0
      /\ phase[request[r].client] \in Accepted /\ i = actorId[request[r].client]
  BY <1>1, Typed DEF ServerInv, SourceInv
<1>4. BacklogInv' /\ RegistryInv' /\ SourceInv'
  <2>1. BacklogInv'
    BY <1>0 DEF ServerInv, BacklogInv
  <2>2. RegistryInv'
    BY <1>0 DEF ServerInv, RegistryInv, RegistryAgrees
  <2>3. SourceInv'
    BY <1>0 DEF ServerInv, SourceInv, Sent
  <2> QED BY <2>1, <2>2, <2>3
<1>5. CASE UNCHANGED <<pending, written>>
  <2>1. TypeOK'
    BY <1>0, <1>5 DEF ServerInv, TypeOK
  <2>2. RequestInv' /\ WrittenInv'
    BY <1>0, <1>5, SMTT(40) DEF ServerInv, RequestInv, WrittenInv, ForeignAnswerNeedsReuse, Sent
  <2> QED BY <1>4, <2>1, <2>2 DEF ServerInv
<1>6. CASE /\ c # 0
           /\ pending[c] = request[r].tid
           /\ pending' = [pending EXCEPT ![c] = 0]
           /\ written' = Append(written, [client |-> c, req |-> r])
  <2> HIDE DEF c, i
  <2>1. c \in Clients /\ phase[c] = "open" /\ actorId[c] = i
    BY <1>2, <1>6
  <2>2. /\ written \in Seq([client : Clients, req : Requests]) /\ Len(written) \in Nat
        /\ [client |-> c, req |-> r] \in [client : Clients, req : Requests]
    BY <2>1, Typed DEF ServerInv, TypeOK
  <2>3. /\ Len(written') = Len(written) + 1
        /\ written'[Len(written) + 1] = [client |-> c, req |-> r]
        /\ \A k \in 1..Len(written) : written'[k] = written[k]
        /\ written' \in Seq([client : Clients, req : Requests])
    BY <1>6, <2>2
  <2>4. TypeOK'
    BY <1>0, <1>6, <2>1, <2>3 DEF ServerInv, TypeOK
  <2>5. RequestInv'
    BY <1>0, <1>6, <2>1, ZenonT(40) DEF ServerInv, RequestInv, TypeOK, Sent
  <2>6. c # request[r].client =>
          /\ phase[request[r].client] = "gone"
          /\ \E q \in Sent : request[q].client = c /\ request[q].tid = request[r].tid
    <3>1. \E q \in Sent : request[q].client = c /\ request[q].tid = request[r].tid
      BY <1>3, <1>6, <2>1 DEF ServerInv, RequestInv
    <3>2. c # request[r].client => phase[request[r].client] # "open"
      BY <1>0, <1>1, <1>3, <2>1, ZenonT(40) DEF ServerInv, RegistryInv, RegistryAgrees, c, i
    <3> QED BY <1>3, <3>1, <3>2 DEF Accepted
  <2>7. ASSUME NEW k \in 1..Len(written')
        PROVE  /\ written'[k].req \in Sent
               /\ source[written'[k].req] # 0
               /\ phase[written'[k].client] \in Accepted
               /\ written'[k].client # request[written'[k].req].client =>
                    /\ phase[request[written'[k].req].client] = "gone"
                    /\ source[written'[k].req] = actorId[written'[k].client]
                    /\ \E q \in Sent : /\ request[q].client = written'[k].client
                                       /\ request[q].tid = request[written'[k].req].tid
    <3>1. CASE k \in 1..Len(written)
      <4>1. written'[k] = written[k]
        BY <2>3, <3>1
      <4>2. /\ written[k].req \in Sent
            /\ source[written[k].req] # 0
            /\ phase[written[k].client] \in Accepted
        BY <3>1 DEF ServerInv, WrittenInv
      <4>3. written[k].client # request[written[k].req].client =>
              /\ phase[request[written[k].req].client] = "gone"
              /\ source[written[k].req] = actorId[written[k].client]
              /\ \E q \in Sent : /\ request[q].client = written[k].client
                                 /\ request[q].tid = request[written[k].req].tid
        BY <3>1 DEF ServerInv, WrittenInv, ForeignAnswerNeedsReuse, Sent
      <4> QED BY <4>1, <4>2, <4>3
    <3>2. CASE k = Len(written) + 1
      <4>1. written'[k].client = c /\ written'[k].req = r
        BY <2>3, <3>2
      <4>2. source[r] # 0 /\ source[r] = actorId[c] /\ phase[c] \in Accepted
        BY <1>1, <2>1 DEF Accepted, i
      <4> QED BY <1>1, <2>6, <4>1, <4>2
    <3> QED BY <2>2, <2>3, <3>1, <3>2
  <2>8. WrittenInv'
    BY <1>0, <2>7 DEF WrittenInv, ForeignAnswerNeedsReuse, Sent
  <2> QED BY <1>4, <2>4, <2>5, <2>8 DEF ServerInv
<1> QED BY <1>0, <1>5, <1>6

LEMMA MasterGivesUpStep ==
  ASSUME ServerInv, NEW r \in Requests, MasterGivesUp(r)
  PROVE  ServerInv'
<1>0. /\ UNCHANGED <<phase, peer, actorId, pending, recvOp, received, toServer, backlog,
                     storage, clientDb, request, source, written, running>>
      /\ atMasters' \subseteq atMasters
  BY DEF MasterGivesUp
<1>1. TypeOK'
  BY <1>0 DEF ServerInv, TypeOK
<1>2. BacklogInv' /\ RegistryInv' /\ RequestInv' /\ SourceInv' /\ WrittenInv'
  BY <1>0 DEF ServerInv, BacklogInv, RegistryInv, RegistryAgrees, RequestInv, SourceInv,
              WrittenInv, ForeignAnswerNeedsReuse, Sent
<1> QED BY <1>1, <1>2 DEF ServerInv

LEMMA ClientConnectsStep ==
  ASSUME ServerInv, NEW c \in Clients, ClientConnects(c)
  PROVE  ServerInv'
<1>0. /\ UNCHANGED <<peer, actorId, pending, recvOp, received, toServer, storage, clientDb,
                     request, source, atMasters, written, running>>
      /\ phase[c] = "new"
      /\ phase' = [phase EXCEPT ![c] = "backlog"]
      /\ backlog' = Append(backlog, c)
  BY DEF ClientConnects
<1>1. \A d \in Clients : phase'[d] = IF d = c THEN "backlog" ELSE phase[d]
  BY <1>0 DEF ServerInv, TypeOK
<1>2. /\ Len(backlog) \in Nat /\ Len(backlog') = Len(backlog) + 1
      /\ backlog'[Len(backlog) + 1] = c
      /\ \A k \in 1..Len(backlog) : backlog'[k] = backlog[k]
      /\ backlog' \in Seq(Clients)
  BY <1>0, Typed, SMTT(40) DEF ServerInv, TypeOK
<1>3. TypeOK'
  BY <1>0, <1>2 DEF ServerInv, TypeOK
<1>4. BacklogInv'
  <2>1. \A k \in 1..Len(backlog) :
          backlog[k] \in Clients /\ backlog[k] # c /\ phase'[backlog[k]] = "backlog"
    BY <1>0, <1>1, Typed DEF ServerInv, BacklogInv
  <2>2. \A k \in 1..Len(backlog') : k \in 1..Len(backlog) \/ k = Len(backlog) + 1
    BY <1>2
  <2>3. \A k \in 1..Len(backlog') : phase'[backlog'[k]] = "backlog"
    BY <1>1, <1>2, <2>1, <2>2
  <2>4. \A j, k \in 1..Len(backlog') : j # k => backlog'[j] # backlog'[k]
    BY <1>2, <2>1, <2>2 DEF ServerInv, BacklogInv
  <2> QED BY <2>3, <2>4 DEF BacklogInv
<1>5. RegistryInv'
  BY <1>0, <1>1 DEF ServerInv, RegistryInv, RegistryAgrees
<1>6. RequestInv'
  BY <1>0 DEF ServerInv, RequestInv, Sent
<1>7. \A d \in Clients : phase[d] \in Accepted => phase'[d] = phase[d]
  BY <1>0, <1>1 DEF Accepted
<1>8. SourceInv'
  BY <1>0, <1>7, Typed DEF ServerInv, SourceInv, Sent
<1>9. WrittenInv'
  <2>1. \A k \in 1..Len(written) :
          /\ written[k].client \in Clients /\ request[written[k].req].client \in Clients
          /\ phase[request[written[k].req].client] \in Accepted
    BY Typed DEF ServerInv, WrittenInv, SourceInv
  <2> QED BY <1>0, <1>7, <2>1 DEF ServerInv, WrittenInv, ForeignAnswerNeedsReuse, Sent
<1> QED BY <1>3, <1>4, <1>5, <1>6, <1>8, <1>9 DEF ServerInv

LEMMA ClientSendsStep ==
  ASSUME ServerInv, NEW c \in Clients, NEW t \in Tids, ClientSends(c, t)
  PROVE  ServerInv'
<1> DEFINE n == Len(request) + 1
<1>0. /\ UNCHANGED <<phase, peer, actorId, pending, recvOp, received, backlog, storage,
                     clientDb, source, atMasters, written, running>>
      /\ Len(request) < MaxRequests
      /\ request' = Append(request, [client |-> c, tid |-> t])
      /\ toServer' = [toServer EXCEPT ![c] = Append(toServer[c], n)]
  BY DEF ClientSends
<1>1. /\ n \in Nat /\ n \in Requests /\ n \notin Sent /\ Len(request') = n
      /\ request'[n].client = c
      /\ \A r \in Sent : request'[r] = request[r] /\ r \in 1..n
      /\ request' \in Seq([client : Clients, tid : Tids])
  <2>1. /\ request \in Seq([client : Clients, tid : Tids]) /\ Len(request) \in Nat
        /\ [client |-> c, tid |-> t] \in [client : Clients, tid : Tids]
    BY Typed DEF ServerInv, TypeOK
  <2>2. /\ Len(request') = n /\ request'[n] = [client |-> c, tid |-> t]
        /\ \A r \in 1..Len(request) : request'[r] = request[r]
        /\ request' \in Seq([client : Clients, tid : Tids])
    BY <1>0, <2>1
  <2>3. n \in Nat /\ n \in Requests /\ n \notin Sent /\ \A r \in Sent : r \in 1..n
    BY <1>0, <2>1 DEF Sent
  <2> HIDE DEF n
  <2> QED BY <2>2, <2>3 DEF Sent
<1>2. 1..n = Sent \cup {n}
  BY <1>0, Typed DEF ServerInv, Sent
<1>3. \A d \in Clients :
        toServer'[d] = IF d = c THEN Append(toServer[c], n) ELSE toServer[d]
  BY <1>0 DEF ServerInv, TypeOK
<1> HIDE DEF n
<1>4. TypeOK'
  <2>1. toServer' \in [Clients -> Seq(Requests)]
    <3>1. Append(toServer[c], n) \in Seq(Requests)
      BY <1>1, Typed DEF ServerInv
    <3> QED BY <1>0, <3>1 DEF ServerInv, TypeOK
  <2>2. atMasters' \subseteq 1..Len(request')
    BY <1>0, <1>1 DEF ServerInv, TypeOK, Sent
  <2> QED BY <1>0, <1>1, <2>1, <2>2 DEF ServerInv, TypeOK
<1>5. BacklogInv' /\ RegistryInv'
  BY <1>0 DEF ServerInv, BacklogInv, RegistryInv, RegistryAgrees
<1>6. RequestInv'
  <2>1. ASSUME NEW d \in Clients, NEW k \in 1..Len(toServer'[d])
        PROVE  toServer'[d][k] \in 1..n /\ request'[toServer'[d][k]].client = d
    <3>1. CASE k \in 1..Len(toServer[d]) /\ toServer'[d][k] = toServer[d][k]
      <4>1. toServer[d][k] \in Sent /\ request[toServer[d][k]].client = d
        BY <3>1 DEF ServerInv, RequestInv
      <4> QED BY <1>1, <3>1, <4>1
    <3>2. CASE d = c /\ toServer'[d][k] = n
      BY <1>1, <1>2, <3>2
    <3>3. \/ k \in 1..Len(toServer[d]) /\ toServer'[d][k] = toServer[d][k]
          \/ d = c /\ toServer'[d][k] = n
      <4>1. CASE d = c
        <5>1. /\ toServer[c] \in Seq(Requests) /\ Len(toServer[c]) \in Nat
              /\ toServer'[c] = Append(toServer[c], n)
          BY <1>3, Typed DEF ServerInv
        <5>2. /\ Len(toServer'[c]) = Len(toServer[c]) + 1
              /\ toServer'[c][Len(toServer[c]) + 1] = n
              /\ \A j \in 1..Len(toServer[c]) : toServer'[c][j] = toServer[c][j]
          BY <5>1
        <5> QED BY <4>1, <5>1, <5>2
      <4>2. CASE d # c
        BY <1>3, <4>2
      <4> QED BY <4>1, <4>2
    <3> QED BY <3>1, <3>2, <3>3
  <2>2. \A d \in Clients :
          /\ received[d] # 0 => received[d] \in 1..n /\ request'[received[d]].client = d
          /\ pending[d] # 0 =>
               \E q \in 1..n : request'[q].client = d /\ request'[q].tid = pending[d]
    <3>1. ASSUME NEW d \in Clients, received[d] # 0
          PROVE  received[d] \in 1..n /\ request'[received[d]].client = d
      BY <1>1, <3>1 DEF ServerInv, RequestInv
    <3>2. ASSUME NEW d \in Clients, pending[d] # 0
          PROVE  \E q \in 1..n : request'[q].client = d /\ request'[q].tid = pending[d]
      <4>1. PICK q \in Sent : request[q].client = d /\ request[q].tid = pending[d]
        BY <3>2 DEF ServerInv, RequestInv
      <4> QED BY <1>1, <4>1
    <3> QED BY <3>1, <3>2
  <2>3. n <= MaxRequests
    BY <1>1
  <2> QED BY <1>0, <1>1, <2>1, <2>2, <2>3, ZenonT(40) DEF RequestInv, Sent
<1>7. SourceInv'
  <2>1. source[n] = 0
    BY <1>1 DEF ServerInv, SourceInv
  <2> QED BY <1>0, <1>1, <1>2, <2>1 DEF ServerInv, SourceInv, Sent
<1>8. WrittenInv'
  <2>1. \A k \in 1..Len(written) :
          /\ written[k].req \in Sent /\ source[written[k].req] # 0
          /\ phase[written[k].client] \in Accepted
    BY DEF ServerInv, WrittenInv
  <2>2. \A k \in 1..Len(written) :
          written[k].client # request[written[k].req].client =>
            /\ phase[request[written[k].req].client] = "gone"
            /\ source[written[k].req] = actorId[written[k].client]
            /\ \E q \in Sent : /\ request[q].client = written[k].client
                               /\ request[q].tid = request[written[k].req].tid
    BY DEF ServerInv, WrittenInv, ForeignAnswerNeedsReuse, Sent
  <2>3. \A k \in 1..Len(written) :
          written[k].client # request'[written[k].req].client =>
            /\ phase[request'[written[k].req].client] = "gone"
            /\ source[written[k].req] = actorId[written[k].client]
            /\ \E q \in 1..n : /\ request'[q].client = written[k].client
                               /\ request'[q].tid = request'[written[k].req].tid
    <3>1. SUFFICES ASSUME NEW k \in 1..Len(written),
                          written[k].client # request'[written[k].req].client
                   PROVE  /\ phase[request'[written[k].req].client] = "gone"
                          /\ source[written[k].req] = actorId[written[k].client]
                          /\ \E q \in 1..n : /\ request'[q].client = written[k].client
                                             /\ request'[q].tid = request'[written[k].req].tid
      OBVIOUS
    <3>2. request'[written[k].req] = request[written[k].req]
      BY <1>1, <2>1
    <3>3. PICK q \in Sent : /\ request[q].client = written[k].client
                            /\ request[q].tid = request[written[k].req].tid
      BY <2>2, <3>1, <3>2
    <3>4. q \in 1..n /\ request'[q] = request[q]
      BY <1>1
    <3>5. /\ phase[request[written[k].req].client] = "gone"
          /\ source[written[k].req] = actorId[written[k].client]
      BY <2>2, <3>1, <3>2
    <3> QED BY <3>2, <3>3, <3>4, <3>5
  <2> QED BY <1>0, <1>1, <2>1, <2>3, SMTT(40) DEF WrittenInv, ForeignAnswerNeedsReuse, Sent
<1> QED BY <1>4, <1>5, <1>6, <1>7, <1>8 DEF ServerInv

LEMMA ClientLeavesStep ==
  ASSUME ServerInv, NEW c \in Clients, ClientLeaves(c)
  PROVE  ServerInv'
<1>0. /\ UNCHANGED <<phase, actorId, pending, recvOp, received, backlog, storage, clientDb,
                     request, source, atMasters, written, running>>
      /\ peer' \in {[peer EXCEPT ![c] = "closed"], [peer EXCEPT ![c] = "failed"]}
      /\ toServer' \in {toServer, [toServer EXCEPT ![c] = <<>>]}
  BY DEF ClientLeaves
<1>1. TypeOK'
  <2>1. <<>> \in Seq(Requests)
    OBVIOUS
  <2>2. toServer' \in [Clients -> Seq(Requests)]
    BY <1>0, <2>1, ZenonT(40) DEF ServerInv, TypeOK
  <2>3. peer' \in [Clients -> {"up", "failed", "closed"}]
    BY <1>0 DEF ServerInv, TypeOK
  <2> QED BY <1>0, <2>2, <2>3 DEF ServerInv, TypeOK
<1>2. RequestInv'
  <2>1. \A d \in Clients : toServer'[d] = toServer[d] \/ toServer'[d] = <<>>
    BY <1>0 DEF ServerInv, TypeOK
  <2> QED BY <1>0, <2>1 DEF ServerInv, RequestInv, Sent
<1>3. BacklogInv' /\ RegistryInv' /\ SourceInv' /\ WrittenInv'
  BY <1>0 DEF ServerInv, BacklogInv, RegistryInv, RegistryAgrees, SourceInv, WrittenInv,
              ForeignAnswerNeedsReuse, Sent
<1> QED BY <1>1, <1>2, <1>3 DEF ServerInv

(* What is left in a socket when a read took the first n requests.         *)
LEMMA RestOfSocket ==
  ASSUME ServerInv, NEW c \in Clients, NEW n \in 1..Len(toServer[c]),
         toServer' = [toServer EXCEPT ![c] = SubSeq(toServer[c], n + 1, Len(toServer[c]))],
         UNCHANGED request
  PROVE  /\ toServer' \in [Clients -> Seq(Requests)]
         /\ \A d \in Clients : \A k \in 1..Len(toServer'[d]) :
              toServer'[d][k] \in Sent /\ request[toServer'[d][k]].client = d
         /\ Head(toServer[c]) \in Sent /\ Head(toServer[c]) \in Requests
         /\ request[Head(toServer[c])].client = c
<1> DEFINE rest == SubSeq(toServer[c], n + 1, Len(toServer[c]))
<1>1. /\ toServer[c] \in Seq(Requests) /\ Len(toServer[c]) \in Nat /\ n \in Nat
      /\ toServer \in [Clients -> Seq(Requests)]
  BY Typed DEF ServerInv, TypeOK
<1>2. \A k \in 1..Len(toServer[c]) : toServer[c][k] \in Requests
  BY <1>1, ElementOfSeq
<1>3. /\ rest \in Seq(Requests) /\ Len(rest) = Len(toServer[c]) - n
      /\ \A k \in 1..(Len(toServer[c]) - n) :
           rest[k] = toServer[c][n + k] /\ n + k \in 1..Len(toServer[c])
  <2>1. rest \in Seq(Requests)
    <3>1. \A k \in (n + 1)..Len(toServer[c]) : toServer[c][k] \in Requests
      BY <1>1, <1>2
    <3> QED BY <1>1, <3>1, SubSeqProperties
  <2>2. /\ Len(rest) = Len(toServer[c]) - n
        /\ \A k \in 1..(Len(toServer[c]) - n) : rest[k] = toServer[c][n + k]
    BY <1>1, SMTT(40)
  <2> QED BY <1>1, <2>1, <2>2, SMTT(40)
<1> HIDE DEF rest
<1>4. /\ toServer' \in [Clients -> Seq(Requests)]
      /\ \A d \in Clients : toServer'[d] = IF d = c THEN rest ELSE toServer[d]
  BY <1>1, <1>3 DEF rest
<1>5. \A d \in Clients : \A k \in 1..Len(toServer[d]) :
        toServer[d][k] \in Sent /\ request[toServer[d][k]].client = d
  BY DEF ServerInv, RequestInv
<1>6. \A k \in 1..Len(rest) : rest[k] \in Sent /\ request[rest[k]].client = c
  <2>1. SUFFICES ASSUME NEW k \in 1..Len(rest)
                 PROVE  rest[k] \in Sent /\ request[rest[k]].client = c
    OBVIOUS
  <2>2. rest[k] = toServer[c][n + k] /\ n + k \in 1..Len(toServer[c])
    BY <1>3
  <2> QED BY <1>5, <2>2
<1>7. Head(toServer[c]) = toServer[c][1] /\ 1 \in 1..Len(toServer[c])
  BY <1>1
<1>8. \A d \in Clients : \A k \in 1..Len(toServer'[d]) :
        toServer'[d][k] \in Sent /\ request[toServer'[d][k]].client = d
  BY <1>4, <1>5, <1>6
<1>9. toServer[c][1] \in Sent /\ toServer[c][1] \in Requests /\ request[toServer[c][1]].client = c
  BY <1>2, <1>5, <1>7
<1> QED BY <1>4, <1>7, <1>8, <1>9

LEMMA KernelReceivesStep ==
  ASSUME ServerInv, NEW c \in Clients, KernelReceives(c)
  PROVE  ServerInv'
<1>0. /\ UNCHANGED <<phase, actorId, pending, backlog, storage, clientDb, request, source,
                     atMasters, written, running>>
      /\ recvOp[c] # "none"
  BY DEF KernelReceives
<1>1. BacklogInv' /\ SourceInv' /\ WrittenInv'
  BY <1>0 DEF ServerInv, BacklogInv, SourceInv, WrittenInv, ForeignAnswerNeedsReuse, Sent
<1>2. /\ recvOp' \in [Clients -> {"none", "pending", "done", "eof", "error"}]
      /\ \A d \in Clients : recvOp'[d] # "none" <=> recvOp[d] # "none"
      /\ peer' \in [Clients -> {"up", "failed", "closed"}]
  BY <1>0, ZenonT(40) DEF KernelReceives, ServerInv, TypeOK
<1>3. RegistryInv'
  BY <1>0, <1>2 DEF ServerInv, RegistryInv, RegistryAgrees
<1>4. /\ received' \in [Clients -> Requests \cup {0}]
      /\ toServer' \in [Clients -> Seq(Requests)]
      /\ RequestInv'
  <2>1. CASE UNCHANGED <<received, toServer>>
    BY <1>0, <2>1 DEF ServerInv, TypeOK, RequestInv, Sent
  <2>2. ASSUME NEW n \in 1..Len(toServer[c]),
               \/ received' = [received EXCEPT ![c] = Head(toServer[c])]
               \/ received' = [received EXCEPT ![c] = 0],
               toServer' = [toServer EXCEPT ![c] = SubSeq(toServer[c], n + 1, Len(toServer[c]))]
        PROVE  /\ received' \in [Clients -> Requests \cup {0}]
               /\ toServer' \in [Clients -> Seq(Requests)]
               /\ RequestInv'
    <3>1. /\ toServer' \in [Clients -> Seq(Requests)]
          /\ \A d \in Clients : \A k \in 1..Len(toServer'[d]) :
               toServer'[d][k] \in Sent /\ request[toServer'[d][k]].client = d
          /\ Head(toServer[c]) \in Sent /\ Head(toServer[c]) \in Requests
          /\ request[Head(toServer[c])].client = c
      BY <1>0, <2>2, RestOfSocket
    <3>2. received' \in [Clients -> Requests \cup {0}]
      <4>1. received \in [Clients -> Requests \cup {0}]
        BY DEF ServerInv, TypeOK
      <4> DEFINE h == Head(toServer[c])
      <4>2. h \in Requests
        BY <3>1
      <4> HIDE DEF h
      <4>3. \/ received' = [received EXCEPT ![c] = h]
            \/ received' = [received EXCEPT ![c] = 0]
        BY <2>2 DEF h
      <4> QED BY <4>1, <4>2, <4>3
    <3>3. \A d \in Clients :
            received'[d] # 0 => received'[d] \in Sent /\ request[received'[d]].client = d
      <4>1. received \in [Clients -> Requests \cup {0}]
            /\ \A d \in Clients :
                 received[d] # 0 => received[d] \in Sent /\ request[received[d]].client = d
        BY DEF ServerInv, TypeOK, RequestInv
      <4> DEFINE h == Head(toServer[c])
      <4> HIDE DEF h
      <4>2. \A d \in Clients : received'[d] \in {received[d], 0} \/ (d = c /\ received'[d] = h)
        BY <2>2, <4>1 DEF h
      <4>3. h \in Sent /\ request[h].client = c
        BY <3>1 DEF h
      <4> QED BY <4>1, <4>2, <4>3
    <3>4. RequestInv'
      BY <1>0, <3>1, <3>3 DEF ServerInv, RequestInv, Sent
    <3> QED BY <3>1, <3>2, <3>4
  <2> QED BY <2>1, <2>2 DEF KernelReceives
<1>5. TypeOK'
  BY <1>0, <1>2, <1>4 DEF ServerInv, TypeOK
<1> QED BY <1>1, <1>3, <1>4, <1>5 DEF ServerInv

LEMMA ServerStep ==
  ASSUME ServerInv, [Next]_vars
  PROVE  ServerInv'
<1>1. CASE AcceptTask
  BY <1>1, AcceptStep
<1>2. ASSUME NEW c \in Clients, Connection(c)
      PROVE  ServerInv'
  BY <1>2, RequestReceivedStep, ReceiveAgainStep, DisconnectedStep DEF Connection
<1>3. ASSUME NEW c \in Clients, KernelReceives(c)
      PROVE  ServerInv'
  BY <1>3, KernelReceivesStep
<1>4. ASSUME NEW c \in Clients, Client(c)
      PROVE  ServerInv'
  BY <1>4, ClientConnectsStep, ClientSendsStep, ClientLeavesStep DEF Client
<1>5. ASSUME NEW r \in Requests, MasterAnswers(r) \/ MasterGivesUp(r)
      PROVE  ServerInv'
  BY <1>5, MasterAnswersStep, MasterGivesUpStep
<1>6. CASE UNCHANGED vars
  BY <1>6 DEF vars, ServerInv, TypeOK, BacklogInv, RegistryInv, RegistryAgrees, RequestInv,
              SourceInv, WrittenInv, ForeignAnswerNeedsReuse, Sent
<1> QED BY <1>1, <1>2, <1>3, <1>4, <1>5, <1>6 DEF Next
-----------------------------------------------------------------------------
(* Every member keeps to its values, for any number of clients.            *)
THEOREM TypeCorrect == Spec => []TypeOK
<1>1. ServerInv => TypeOK
  BY DEF ServerInv
<1> QED BY ServerStart, ServerStep, <1>1, PTL DEF Spec

(* AcceptTask, ClientDisconnect and the handler of async_receive keep the  *)
(* exchange, clientDb_ and the connections in agreement.                   *)
THEOREM RegistriesAgree == Spec => []RegistryAgrees
<1>1. ServerInv => RegistryAgrees
  BY DEF ServerInv, RegistryInv
<1> QED BY ServerStart, ServerStep, <1>1, PTL DEF Spec

(* MakeResponse of the connection lets the answer to another client's      *)
(* request through only after an actor id was reused and with equal        *)
(* transaction ids.                                                        *)
THEOREM ForeignAnswersNeedReuse == Spec => []ForeignAnswerNeedsReuse
<1>1. ServerInv => ForeignAnswerNeedsReuse
  BY DEF ServerInv, WrittenInv
<1> QED BY ServerStart, ServerStep, <1>1, PTL DEF Spec
-----------------------------------------------------------------------------
(***************************************************************************)
(* What a connection waits for.  The requests of a client are read in the  *)
(* order it sent them, so that the last whose MakeRequest has been done is *)
(* the one the connection waits for, until an answer with its transaction  *)
(* id has been written.                                                    *)
(***************************************************************************)

(* Request q of client c, whose MakeRequest has been done; the last of c.  *)
Made(c, q)   == request[q].client = c /\ source[q] # 0
Latest(c, r) == Made(c, r) /\ \A q \in Sent : Made(c, q) => q <= r

(* The unread requests are later than those that were read, and in order.  *)
ReadInv ==
  \A c \in Clients :
    /\ \A j, k \in 1..Len(toServer[c]) : j < k => toServer[c][j] < toServer[c][k]
    /\ \A k \in 1..Len(toServer[c]), q \in Sent : Made(c, q) => q < toServer[c][k]
    /\ recvOp[c] = "done" /\ received[c] # 0 =>
         /\ \A k \in 1..Len(toServer[c]) : received[c] < toServer[c][k]
         /\ \A q \in Sent : Made(c, q) => q < received[c]

(* Client c has been written an answer with transaction id t.              *)
Got(c, t) ==
  \E k \in 1..Len(written) : written[k].client = c /\ request[written[k].req].tid = t

(* The connection waits for the last request made, or has got an answer    *)
(* with its transaction id.                                                *)
WaitInv ==
  \A c \in Clients :
    /\ pending[c] # 0 => \E r \in Sent : Latest(c, r) /\ request[r].tid = pending[c]
    /\ \A r \in Sent : Latest(c, r) /\ pending[c] = 0 => Got(c, request[r].tid)

(* There is one last request.                                              *)
LEMMA OneLatest ==
  ASSUME ServerInv, NEW c \in Clients, NEW q \in Sent, NEW r \in Sent, Latest(c, q), Latest(c, r)
  PROVE  q = r
<1>1. q \in Nat /\ r \in Nat /\ q <= r /\ r <= q
  BY Typed DEF Latest, Sent
<1> QED BY <1>1

(* Steps that read nothing, and those after which the same is waited for.  *)
LEMMA ReadQuiet ==
  ASSUME ServerInv, ReadInv, UNCHANGED <<request, source>>,
         \A c \in Clients : toServer'[c] = toServer[c] \/ toServer'[c] = <<>>,
         \A c \in Clients : recvOp'[c] = "done" => recvOp[c] = "done" /\ received'[c] = received[c]
  PROVE  ReadInv'
<1>1. \A c, q : Made(c, q)' <=> Made(c, q)
  BY DEF Made
<1>2. Sent' = Sent
  BY DEF Sent
<1>3. ASSUME NEW c \in Clients
      PROVE  /\ \A j, k \in 1..Len(toServer'[c]) : j < k => toServer'[c][j] < toServer'[c][k]
             /\ \A k \in 1..Len(toServer'[c]), q \in Sent : Made(c, q) => q < toServer'[c][k]
             /\ recvOp'[c] = "done" /\ received'[c] # 0 =>
                  /\ \A k \in 1..Len(toServer'[c]) : received'[c] < toServer'[c][k]
                  /\ \A q \in Sent : Made(c, q) => q < received'[c]
  <2>1. CASE toServer'[c] = toServer[c]
    BY <2>1 DEF ReadInv
  <2>2. CASE toServer'[c] = <<>>
    <3>1. 1..Len(toServer'[c]) = {}
      BY <2>2
    <3> QED BY <3>1 DEF ReadInv
  <2> QED BY <2>1, <2>2
<1> QED BY <1>1, <1>2, <1>3 DEF ReadInv

LEMMA WaitQuiet ==
  ASSUME WaitInv, UNCHANGED <<request, source, pending, written>>
  PROVE  WaitInv'
<1>1. \A c, q : (Made(c, q)' <=> Made(c, q)) /\ (Latest(c, q)' <=> Latest(c, q))
  BY DEF Made, Latest, Sent
<1>2. Sent' = Sent /\ \A c, t : Got(c, t)' <=> Got(c, t)
  BY DEF Sent, Got
<1> QED BY <1>1, <1>2 DEF WaitInv

(* The request that is read becomes the last made.                         *)
LEMMA RequestReceivedWaits ==
  ASSUME ServerInv, ReadInv, WaitInv, NEW c \in Clients, RequestReceived(c)
  PROVE  ReadInv' /\ WaitInv'
<1>r. PICK r : r = received[c]
  OBVIOUS
<1>0. /\ UNCHANGED <<received, toServer, request, written, running>>
      /\ running /\ recvOp[c] = "done" /\ r # 0
      /\ recvOp' = [recvOp EXCEPT ![c] = "pending"]
      /\ pending' = [pending EXCEPT ![c] = request[r].tid]
      /\ source' = [source EXCEPT ![r] = actorId[c]]
  BY <1>r DEF RequestReceived
<1>1. actorId[c] \in ActorIds /\ actorId[c] # 0
  BY <1>0, Registered
<1>2. /\ r \in Sent /\ r \in Requests /\ request[r].client = c
      /\ request[r].tid \in Tids /\ request[r].tid # 0
  <2>1. r \in Sent /\ request[r].client = c
    BY <1>0, <1>r DEF ServerInv, RequestInv
  <2>2. r \in Requests
    BY <1>0, <1>r DEF ServerInv, TypeOK
  <2> QED BY <2>1, <2>2, Typed DEF ServerInv
<1>3. /\ \A k \in 1..Len(toServer[c]) : r < toServer[c][k]
      /\ \A q \in Sent : Made(c, q) => q < r
  BY <1>0, <1>r DEF ReadInv
<1>4. /\ Sent' = Sent /\ Sent \subseteq Requests
      /\ \A q \in Sent : q \in Nat
  BY <1>0, Typed DEF Sent, ServerInv, RequestInv
<1>5. recvOp'[c] # "done" /\ \A d \in Clients : d # c => recvOp'[d] = recvOp[d]
  BY <1>0 DEF ServerInv, TypeOK
<1>6. pending'[c] = request[r].tid /\ \A d \in Clients : d # c => pending'[d] = pending[d]
  BY <1>0 DEF ServerInv, TypeOK
<1>7. \A q \in Sent : source'[q] = IF q = r THEN actorId[c] ELSE source[q]
  BY <1>0, <1>2, <1>4 DEF ServerInv, TypeOK
<1>8. \A d \in Clients, q \in Sent : Made(d, q)' <=> Made(d, q) \/ (d = c /\ q = r)
  BY <1>0, <1>1, <1>2, <1>7 DEF Made
<1>9. ReadInv'
  <2>1. ASSUME NEW d \in Clients, NEW k \in 1..Len(toServer[d]), NEW q \in Sent, Made(d, q)'
        PROVE  q < toServer[d][k]
    BY <1>3, <1>8, <2>1 DEF ReadInv
  <2>2. ASSUME NEW d \in Clients, recvOp'[d] = "done", received[d] # 0
        PROVE  /\ \A k \in 1..Len(toServer[d]) : received[d] < toServer[d][k]
               /\ \A q \in Sent : Made(d, q)' => q < received[d]
    <3>1. d # c /\ recvOp[d] = "done"
      BY <1>5, <2>2
    <3> QED BY <1>8, <2>2, <3>1 DEF ReadInv
  <2>3. \A d \in Clients : \A j, k \in 1..Len(toServer[d]) : j < k => toServer[d][j] < toServer[d][k]
    BY DEF ReadInv
  <2> QED BY <1>0, <1>4, <2>1, <2>2, <2>3 DEF ReadInv
<1>10. WaitInv'
  <2>1. Latest(c, r)'
    BY <1>2, <1>3, <1>4, <1>8 DEF Latest
  <2>2. \A d \in Clients, q \in Sent : d # c => (Latest(d, q)' <=> Latest(d, q))
    BY <1>4, <1>8 DEF Latest
  <2>3. ASSUME NEW d \in Clients
        PROVE  /\ pending'[d] # 0 =>
                    \E q \in Sent : Latest(d, q)' /\ request[q].tid = pending'[d]
               /\ \A q \in Sent : Latest(d, q)' /\ pending'[d] = 0 => Got(d, request[q].tid)
    <3>1. CASE d = c
      BY <1>2, <1>6, <2>1, <3>1
    <3>2. CASE d # c
      BY <1>6, <2>2, <3>2 DEF WaitInv
    <3> QED BY <3>1, <3>2
  <2>4. \A d, u : Got(d, u)' <=> Got(d, u)
    BY <1>0 DEF Got
  <2> QED BY <1>0, <1>4, <2>3, <2>4 DEF WaitInv
<1> QED BY <1>9, <1>10

(* An answer that is written ends the wait.                                *)
LEMMA MasterAnswersWaits ==
  ASSUME ServerInv, WaitInv, NEW r \in Requests, MasterAnswers(r)
  PROVE  WaitInv'
<1>c. PICK c : c = storage[source[r]]
  OBVIOUS
<1>0. /\ UNCHANGED <<request, source>> /\ running /\ r \in atMasters
      /\ \/ UNCHANGED <<pending, written>>
         \/ /\ c # 0 /\ pending[c] = request[r].tid
            /\ pending' = [pending EXCEPT ![c] = 0]
            /\ written' = Append(written, [client |-> c, req |-> r])
  BY <1>c DEF MasterAnswers, StartSendTask
<1>1. CASE UNCHANGED <<pending, written>>
  BY <1>0, <1>1, WaitQuiet
<1>2. CASE /\ c # 0 /\ pending[c] = request[r].tid
           /\ pending' = [pending EXCEPT ![c] = 0]
           /\ written' = Append(written, [client |-> c, req |-> r])
  <2>1. r \in Sent /\ source[r] # 0 /\ source[r] \in ActorIds
    BY <1>0 DEF ServerInv, SourceInv, TypeOK, Sent
  <2>2. c \in Clients
    BY <1>2, <1>c, <2>1 DEF ServerInv, TypeOK
  <2>3. request[r].tid # 0
    BY <2>1, Typed DEF ServerInv
  <2>4. PICK l \in Sent : Latest(c, l) /\ request[l].tid = request[r].tid
    BY <1>2, <2>2, <2>3 DEF WaitInv
  <2>5. /\ Len(written) \in Nat /\ Len(written') = Len(written) + 1
        /\ written'[Len(written) + 1] = [client |-> c, req |-> r]
        /\ \A k \in 1..Len(written) : written'[k] = written[k] /\ k \in 1..Len(written')
        /\ Len(written) + 1 \in 1..Len(written')
    <3>1. /\ written \in Seq([client : Clients, req : Requests]) /\ Len(written) \in Nat
          /\ [client |-> c, req |-> r] \in [client : Clients, req : Requests]
      BY <2>2, Typed DEF ServerInv, TypeOK
    <3> QED BY <1>2, <3>1
  <2>6. \A d \in Clients : pending'[d] = IF d = c THEN 0 ELSE pending[d]
    BY <1>2, <2>2 DEF ServerInv, TypeOK
  <2>7. Sent' = Sent /\ \A d, q : Latest(d, q)' <=> Latest(d, q)
    BY <1>0 DEF Latest, Made, Sent
  <2>g. /\ \A d, u : Got(d, u) => Got(d, u)'
        /\ \A u : u = request[r].tid => Got(c, u)'
    BY <1>0, <2>5 DEF Got
  <2>8. ASSUME NEW d \in Clients
        PROVE  /\ pending'[d] # 0 =>
                    \E q \in Sent : Latest(d, q) /\ request[q].tid = pending'[d]
               /\ \A q \in Sent : Latest(d, q) /\ pending'[d] = 0 =>
                    \A u : u = request[q].tid => Got(d, u)'
    <3>1. CASE d = c
      <4>1. \A q \in Sent : Latest(c, q) => q = l
        BY <2>2, <2>4, OneLatest
      <4> QED BY <2>4, <2>6, <2>g, <3>1, <4>1
    <3>2. CASE d # c
      BY <2>6, <2>g, <3>2 DEF WaitInv
    <3> QED BY <3>1, <3>2
  <2> QED BY <1>0, <2>7, <2>8 DEF WaitInv
<1> QED BY <1>0, <1>1, <1>2

(* A client sends: its request is the last in the socket.                  *)
LEMMA ClientSendsWaits ==
  ASSUME ServerInv, ReadInv, WaitInv, NEW c \in Clients, NEW t \in Tids, ClientSends(c, t)
  PROVE  ReadInv' /\ WaitInv'
<1> DEFINE n == Len(request) + 1
<1>0. /\ UNCHANGED <<pending, recvOp, received, source, written>>
      /\ Len(request) < MaxRequests
      /\ request' = Append(request, [client |-> c, tid |-> t])
      /\ toServer' = [toServer EXCEPT ![c] = Append(toServer[c], n)]
  BY DEF ClientSends
<1>1. /\ n \in Nat /\ n \in Requests /\ n \notin Sent /\ Len(request') = n
      /\ \A q \in Sent : request'[q] = request[q] /\ q \in Nat /\ q < n
  <2>1. /\ request \in Seq([client : Clients, tid : Tids]) /\ Len(request) \in Nat
        /\ [client |-> c, tid |-> t] \in [client : Clients, tid : Tids]
    BY Typed DEF ServerInv, TypeOK
  <2>2. /\ Len(request') = n /\ \A q \in 1..Len(request) : request'[q] = request[q]
    BY <1>0, <2>1
  <2>3. n \in Nat /\ n \in Requests /\ n \notin Sent /\ \A q \in Sent : q \in Nat /\ q < n
    BY <1>0, <2>1 DEF Sent
  <2> HIDE DEF n
  <2> QED BY <2>2, <2>3 DEF Sent
<1>2. Sent' = Sent \cup {n}
  BY <1>1, Typed DEF ServerInv, Sent
<1>3. \A d \in Clients : toServer'[d] = IF d = c THEN Append(toServer[c], n) ELSE toServer[d]
  BY <1>0 DEF ServerInv, TypeOK
<1> HIDE DEF n
<1>4. source[n] = 0
  BY <1>1 DEF ServerInv, SourceInv
<1>5. /\ \A d, q : Made(d, q)' => q # n
      /\ \A d : \A q \in Sent : Made(d, q)' <=> Made(d, q)
  BY <1>0, <1>1, <1>4 DEF Made
<1>6. ASSUME NEW d \in Clients, NEW k \in 1..Len(toServer'[d])
      PROVE  \/ k \in 1..Len(toServer[d]) /\ toServer'[d][k] = toServer[d][k]
             \/ d = c /\ toServer'[d][k] = n /\ k = Len(toServer[d]) + 1
  <2>1. CASE d = c
    <3>1. toServer[c] \in Seq(Requests) /\ Len(toServer[c]) \in Nat
          /\ toServer'[c] = Append(toServer[c], n)
      BY <1>3, Typed DEF ServerInv
    <3>2. /\ Len(toServer'[c]) = Len(toServer[c]) + 1
          /\ toServer'[c][Len(toServer[c]) + 1] = n
          /\ \A j \in 1..Len(toServer[c]) : toServer'[c][j] = toServer[c][j]
      BY <3>1
    <3> QED BY <2>1, <3>1, <3>2
  <2>2. CASE d # c
    BY <1>3, <2>2
  <2> QED BY <2>1, <2>2
<1>7. \A d \in Clients : /\ Len(toServer[d]) \in Nat
                         /\ \A k \in 1..Len(toServer[d]) : toServer[d][k] \in Sent
  BY Typed DEF ServerInv, RequestInv
<1>8. ReadInv'
  <2>1. ASSUME NEW d \in Clients,
               NEW j \in 1..Len(toServer'[d]), NEW k \in 1..Len(toServer'[d]), j < k
        PROVE  toServer'[d][j] < toServer'[d][k]
    <3>1. j \in 1..Len(toServer[d]) /\ toServer'[d][j] = toServer[d][j]
      BY <1>6, <1>7, <2>1
    <3>2. CASE k \in 1..Len(toServer[d]) /\ toServer'[d][k] = toServer[d][k]
      BY <2>1, <3>1, <3>2 DEF ReadInv
    <3>3. CASE toServer'[d][k] = n
      BY <1>1, <1>7, <3>1, <3>3
    <3> QED BY <1>6, <3>2, <3>3
  <2>2. ASSUME NEW d \in Clients, NEW k \in 1..Len(toServer'[d]), NEW q \in Sent, Made(d, q)
        PROVE  q < toServer'[d][k]
    <3>1. CASE k \in 1..Len(toServer[d]) /\ toServer'[d][k] = toServer[d][k]
      BY <2>2, <3>1 DEF ReadInv
    <3>2. CASE toServer'[d][k] = n
      BY <1>1, <3>2
    <3> QED BY <1>6, <3>1, <3>2
  <2>3. ASSUME NEW d \in Clients, recvOp[d] = "done", received[d] # 0
        PROVE  /\ \A k \in 1..Len(toServer'[d]) : received[d] < toServer'[d][k]
               /\ \A q \in Sent : Made(d, q) => q < received[d]
    <3>1. received[d] \in Sent
      BY <2>3 DEF ServerInv, RequestInv
    <3>2. /\ \A k \in 1..Len(toServer[d]) : received[d] < toServer[d][k]
          /\ \A q \in Sent : Made(d, q) => q < received[d]
      BY <2>3 DEF ReadInv
    <3>3. ASSUME NEW k \in 1..Len(toServer'[d]) PROVE received[d] < toServer'[d][k]
      BY <1>1, <1>6, <3>1, <3>2
    <3> QED BY <3>2, <3>3
  <2>4. \A d \in Clients, q \in Sent' : Made(d, q)' => q \in Sent /\ Made(d, q)
    BY <1>2, <1>5
  <2> QED BY <1>0, <2>1, <2>2, <2>3, <2>4 DEF ReadInv
<1>9. WaitInv'
  <2>1. \A d \in Clients, q \in Sent : Latest(d, q)' <=> Latest(d, q)
    BY <1>2, <1>5 DEF Latest
  <2>2. \A d \in Clients, q \in Sent' : Latest(d, q)' => q \in Sent
    BY <1>2, <1>5 DEF Latest
  <2>3. \A k \in 1..Len(written) : request'[written[k].req] = request[written[k].req]
    BY <1>1 DEF ServerInv, WrittenInv
  <2>4. ASSUME NEW d \in Clients, pending[d] # 0
        PROVE  \E q \in Sent' : Latest(d, q)' /\ request'[q].tid = pending[d]
    <3>1. PICK q \in Sent : Latest(d, q) /\ request[q].tid = pending[d]
      BY <2>4 DEF WaitInv
    <3> QED BY <1>1, <1>2, <2>1, <3>1
  <2>5. \A d, u : Got(d, u) => Got(d, u)'
    BY <1>0, <2>3 DEF Got
  <2>6. ASSUME NEW d \in Clients, NEW q \in Sent', Latest(d, q)', pending[d] = 0,
               NEW u, u = request'[q].tid
        PROVE  Got(d, u)'
    <3>1. q \in Sent /\ Latest(d, q) /\ u = request[q].tid
      BY <1>1, <2>1, <2>2, <2>6
    <3> QED BY <2>5, <2>6, <3>1 DEF WaitInv
  <2> QED BY <1>0, <2>4, <2>6 DEF WaitInv
<1> QED BY <1>8, <1>9

(* A read takes requests from the head of the socket.                      *)
LEMMA KernelReceivesReads ==
  ASSUME ServerInv, ReadInv, NEW c \in Clients, KernelReceives(c)
  PROVE  ReadInv'
<1>0. UNCHANGED <<request, source>> /\ Sent' = Sent /\ \A d, q : Made(d, q)' <=> Made(d, q)
  BY DEF KernelReceives, Sent, Made
<1>1. CASE /\ UNCHANGED <<received, toServer>>
           /\ \E s \in {"eof", "error"} : recvOp' = [recvOp EXCEPT ![c] = s]
  <2>1. \A d \in Clients : recvOp'[d] = "done" => recvOp[d] = "done"
    BY <1>1 DEF ServerInv, TypeOK
  <2> QED BY <1>0, <1>1, <2>1, ReadQuiet
<1>2. ASSUME NEW n \in 1..Len(toServer[c]),
             \/ n = 1 /\ received' = [received EXCEPT ![c] = Head(toServer[c])]
             \/ received' = [received EXCEPT ![c] = 0],
             toServer' = [toServer EXCEPT ![c] = SubSeq(toServer[c], n + 1, Len(toServer[c]))],
             recvOp' = [recvOp EXCEPT ![c] = "done"]
      PROVE  ReadInv'
  <2> DEFINE rest == SubSeq(toServer[c], n + 1, Len(toServer[c]))
  <2>1. /\ toServer[c] \in Seq(Requests) /\ Len(toServer[c]) \in Nat /\ n \in Nat
        /\ Head(toServer[c]) = toServer[c][1] /\ 1 \in 1..Len(toServer[c])
    BY Typed DEF ServerInv
  <2>2. /\ Len(rest) = Len(toServer[c]) - n
        /\ \A k \in 1..Len(rest) :
             rest[k] = toServer[c][n + k] /\ n + k \in 1..Len(toServer[c]) /\ n + k > 1
    BY <2>1, SMTT(40)
  <2> HIDE DEF rest
  <2>3. \A d \in Clients : /\ toServer'[d] = IF d = c THEN rest ELSE toServer[d]
                           /\ d # c => recvOp'[d] = recvOp[d] /\ received'[d] = received[d]
    BY <1>2 DEF ServerInv, TypeOK, rest
  <2>4. received'[c] # 0 => n = 1 /\ received'[c] = toServer[c][1]
    BY <1>2, <2>1 DEF ServerInv, TypeOK
  <2>5. ASSUME NEW d \in Clients
        PROVE  /\ \A j, k \in 1..Len(toServer'[d]) : j < k => toServer'[d][j] < toServer'[d][k]
               /\ \A k \in 1..Len(toServer'[d]), q \in Sent : Made(d, q) => q < toServer'[d][k]
               /\ recvOp'[d] = "done" /\ received'[d] # 0 =>
                    /\ \A k \in 1..Len(toServer'[d]) : received'[d] < toServer'[d][k]
                    /\ \A q \in Sent : Made(d, q) => q < received'[d]
    <3>1. CASE d # c
      BY <2>3, <3>1 DEF ReadInv
    <3>2. CASE d = c
      <4>1. \A j, k \in 1..Len(rest) : j < k => n + j < n + k
        BY <2>1, <2>2
      <4>2. /\ \A j, k \in 1..Len(toServer[c]) : j < k => toServer[c][j] < toServer[c][k]
            /\ \A k \in 1..Len(toServer[c]), q \in Sent : Made(c, q) => q < toServer[c][k]
        BY DEF ReadInv
      <4>3. \A j, k \in 1..Len(rest) : j < k => rest[j] < rest[k]
        BY <2>2, <4>1, <4>2
      <4>4. \A k \in 1..Len(rest), q \in Sent : Made(c, q) => q < rest[k]
        BY <2>2, <4>2
      <4>5. received'[c] # 0 => /\ \A k \in 1..Len(rest) : received'[c] < rest[k]
                                /\ \A q \in Sent : Made(c, q) => q < received'[c]
        BY <2>1, <2>2, <2>4, <4>2
      <4> QED BY <2>3, <3>2, <4>3, <4>4, <4>5
    <3> QED BY <3>1, <3>2
  <2> QED BY <1>0, <2>5 DEF ReadInv
<1> QED BY <1>1, <1>2 DEF KernelReceives

LEMMA WaitStep ==
  ASSUME ServerInv, ReadInv, WaitInv, [Next]_vars
  PROVE  ReadInv' /\ WaitInv'
<1>1. CASE AcceptTask
  <2>1. UNCHANGED <<received, toServer, request, source, pending, written>>
    BY <1>1 DEF AcceptTask
  <2>2. \A d \in Clients : recvOp'[d] = "done" => recvOp[d] = "done"
    BY <1>1 DEF AcceptTask, ServerInv, TypeOK
  <2> QED BY <2>1, <2>2, ReadQuiet, WaitQuiet
<1>2. ASSUME NEW c \in Clients, ReceiveAgain(c) \/ Disconnected(c)
      PROVE  ReadInv' /\ WaitInv'
  <2>1. UNCHANGED <<received, request, source, pending, written>>
    BY <1>2 DEF ReceiveAgain, Disconnected
  <2>2. \A d \in Clients : /\ recvOp'[d] = "done" => recvOp[d] = "done"
                           /\ toServer'[d] = toServer[d] \/ toServer'[d] = <<>>
    BY <1>2 DEF ReceiveAgain, Disconnected, ServerInv, TypeOK
  <2> QED BY <2>1, <2>2, ReadQuiet, WaitQuiet
<1>3. ASSUME NEW c \in Clients, ClientConnects(c) \/ ClientLeaves(c)
      PROVE  ReadInv' /\ WaitInv'
  <2>1. UNCHANGED <<recvOp, received, request, source, pending, written>>
    BY <1>3 DEF ClientConnects, ClientLeaves
  <2>2. \A d \in Clients : toServer'[d] = toServer[d] \/ toServer'[d] = <<>>
    BY <1>3 DEF ClientConnects, ClientLeaves, ServerInv, TypeOK
  <2> QED BY <2>1, <2>2, ReadQuiet, WaitQuiet
<1>4. ASSUME NEW c \in Clients, KernelReceives(c)
      PROVE  ReadInv' /\ WaitInv'
  <2>1. UNCHANGED <<request, source, pending, written>>
    BY <1>4 DEF KernelReceives
  <2> QED BY <1>4, <2>1, KernelReceivesReads, WaitQuiet
<1>5. ASSUME NEW r \in Requests, MasterAnswers(r)
      PROVE  ReadInv' /\ WaitInv'
  <2>1. UNCHANGED <<recvOp, received, toServer, request, source>>
    BY <1>5 DEF MasterAnswers
  <2> QED BY <1>5, <2>1, ReadQuiet, MasterAnswersWaits
<1>6. ASSUME NEW r \in Requests, MasterGivesUp(r)
      PROVE  ReadInv' /\ WaitInv'
  <2>1. UNCHANGED <<recvOp, received, toServer, request, source, pending, written>>
    BY <1>6 DEF MasterGivesUp
  <2> QED BY <2>1, ReadQuiet, WaitQuiet
<1>7. CASE UNCHANGED vars
  <2>1. UNCHANGED <<recvOp, received, toServer, request, source, pending, written>>
    BY <1>7 DEF vars
  <2> QED BY <2>1, ReadQuiet, WaitQuiet
<1> QED BY <1>1, <1>2, <1>3, <1>4, <1>5, <1>6, <1>7, RequestReceivedWaits, ClientSendsWaits
        DEF Next, Connection, Client

LEMMA WaitStart == Init => ReadInv /\ WaitInv
BY DEF Init, ReadInv, WaitInv, Sent

(* MakeResponse: late answers do not make the connection forget what it    *)
(* waits for, and the answer to the last request read is written unless    *)
(* one with its transaction id has been.                                   *)
THEOREM LatestIsAnswered == Spec => LatestRequestAnswered
<1>1. ASSUME ServerInv, WaitInv, NEW r \in Requests, MasterAnswers(r),
             phase[request[r].client] = "open",
             \A q \in (r + 1)..Len(request) :
               ~(request[q].client = request[r].client /\ source[q] # 0),
             \A k \in 1..Len(written) :
               ~(/\ written[k].client = request[r].client
                 /\ request[written[k].req].tid = request[r].tid)
      PROVE  written' # written
  <2>c. PICK c : c = request[r].client
    OBVIOUS
  <2>1. /\ r \in Sent /\ r \in Nat /\ running /\ Len(request) \in Nat /\ c \in Clients
        /\ source[r] # 0 /\ source[r] \in ActorIds /\ source[r] = actorId[c]
    <3>1. r \in Sent /\ source[r] # 0 /\ source[r] \in ActorIds /\ running
      BY <1>1 DEF ServerInv, SourceInv, TypeOK, Sent, MasterAnswers
    <3> QED BY <1>1, <2>c, <3>1, Typed DEF ServerInv, SourceInv, Sent
  <2>2. storage[source[r]] = c
    BY <1>1, <2>1, <2>c DEF ServerInv, RegistryInv, RegistryAgrees
  <2>3. Latest(c, r)
    <3>1. \A q \in Sent : q <= r \/ q \in (r + 1)..Len(request)
      BY <2>1 DEF Sent
    <3> QED BY <1>1, <2>1, <2>c, <3>1 DEF Latest, Made
  <2>g. ~Got(c, request[r].tid)
    BY <1>1, <2>c DEF Got
  <2>4. pending[c] # 0
    BY <1>1, <2>1, <2>3, <2>g DEF WaitInv
  <2>5. pending[c] = request[r].tid
    <3>1. PICK l \in Sent : Latest(c, l) /\ request[l].tid = pending[c]
      BY <1>1, <2>1, <2>4 DEF WaitInv
    <3> QED BY <1>1, <2>1, <2>3, <3>1, OneLatest
  <2>6. c # 0
    BY <2>1
  <2>7. written' = Append(written, [client |-> c, req |-> r])
    BY <1>1, <2>1, <2>2, <2>5, <2>6 DEF MasterAnswers, StartSendTask
  <2>8. Len(written') = Len(written) + 1 /\ Len(written) \in Nat
    <3>1. /\ written \in Seq([client : Clients, req : Requests])
          /\ [client |-> c, req |-> r] \in [client : Clients, req : Requests]
      BY <1>1, <2>1 DEF ServerInv, TypeOK
    <3> QED BY <2>7, <3>1
  <2> QED BY <2>8
<1>2. ServerInv /\ WaitInv =>
        [ \A r \in Requests :
            LET c == request[r].client IN
            /\ MasterAnswers(r)
            /\ phase[c] = "open"
            /\ \A q \in (r + 1)..Len(request) : ~(request[q].client = c /\ source[q] # 0)
            /\ \A k \in 1..Len(written) :
                 ~(written[k].client = c /\ request[written[k].req].tid = request[r].tid)
            => written' # written ]_vars
  BY <1>1
<1> QED BY ServerStart, ServerStep, WaitStart, WaitStep, <1>2, PTL DEF Spec, LatestRequestAnswered
=============================================================================
