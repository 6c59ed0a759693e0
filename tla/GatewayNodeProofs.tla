-------------------------- MODULE GatewayNodeProofs --------------------------
(***************************************************************************)
(* Theorems about the gateway from end to end, for any masters, clients,   *)
(* requests and ids.  The slave is the one of ModbusTcpServerProofs, and   *)
(* its invariants hold here too, whatever the masters do.                  *)
(***************************************************************************)
EXTENDS GatewayNode, TLAPS, SequenceTheorems

SP == INSTANCE ModbusTcpServerProofs

USE NodeAssumption DEF NodeAssumption, Requests

SlaveInv == SP!ServerInv /\ SP!ReadInv /\ SP!WaitInv

StatusSet == {"new", "waiting", "serving", "answered", "lost"}

(* The answers of master k are the requests' own.                          *)
OwnAnswers(k) == \A n \in Requests : status[k][n] = "answered" => answer[k][n] = n

(* Master k has given up a request.                                        *)
GaveUp(k) == \E n \in Requests : status[k][n] = "lost"

(* The masters know the requests submitted to them and no others; one that *)
(* has given a request the answer to another has lost one.                 *)
MasterInv ==
  /\ line \in [Masters -> Seq(Requests)]
  /\ status \in [Masters -> [Requests -> StatusSet]]
  /\ answer \in [Masters -> [Requests -> 0..MaxRequests]]
  /\ \A k \in Masters :
       /\ \A n \in Requests : status[k][n] = "new" <=> n > Len(line[k])
       /\ \A n \in Requests : status[k][n] # "answered" => answer[k][n] = 0
       /\ OwnAnswers(k) \/ (k \notin ExactMasters /\ GaveUp(k))

Entries == [master : Masters, asked : Requests, content : Requests]

(* Request a of client c has been made, and c waits for it no longer.      *)
Over(c, a) ==
  /\ a \in SP!Sent /\ SP!Made(c, a)
  /\ pending[c] # 0 => ~SP!Latest(c, a)

(* Answer i ended the wait for request a: it had its transaction id.       *)
AskedBy(i, a) == Over(Client(i), a) /\ request[Stamp(i)].tid = request[a].tid

GotInv ==
  /\ got \in Seq(Entries)
  /\ Len(got) = Len(written)
  /\ \A i \in 1..Len(got) : AskedBy(i, got[i].asked)
  /\ \A i, j \in 1..Len(got) : j < i => got[j].asked # got[i].asked
  /\ \A i \in 1..Len(got) :
       got[i].content # Stamp(i) => got[i].master \notin ExactMasters /\ GaveUp(got[i].master)

NodeInv == SlaveInv /\ MasterInv /\ GotInv
-----------------------------------------------------------------------------
(***************************************************************************)
(* The slave: its steps are those of ModbusTcpServer.                      *)
(***************************************************************************)
LEMMA SameSlave ==
  /\ Slave!Clients = SP!Clients /\ Slave!Requests = Requests
  /\ \A c : Slave!RequestReceived(c) <=> SP!RequestReceived(c)
  /\ \A r : Slave!MasterAnswers(r) <=> SP!MasterAnswers(r)
  /\ Slave!AcceptTask <=> SP!AcceptTask
  /\ \A c : /\ Slave!ReceiveAgain(c) <=> SP!ReceiveAgain(c)
            /\ Slave!Disconnected(c) <=> SP!Disconnected(c)
            /\ Slave!KernelReceives(c) <=> SP!KernelReceives(c)
            /\ Slave!Client(c) <=> SP!Client(c)
<1>1. Slave!Clients = SP!Clients /\ Slave!Requests = Requests
  BY DEF Slave!Clients, SP!Clients, Slave!Requests
<1>2. \A c : Slave!RequestReceived(c) <=> SP!RequestReceived(c)
  BY DEF Slave!RequestReceived, SP!RequestReceived
<1>3. \A r : Slave!MasterAnswers(r) <=> SP!MasterAnswers(r)
  BY DEF Slave!MasterAnswers, SP!MasterAnswers, Slave!StartSendTask, SP!StartSendTask
<1>4. Slave!AcceptTask <=> SP!AcceptTask
  BY DEF Slave!AcceptTask, SP!AcceptTask
<1>5. \A c : Slave!ReceiveAgain(c) <=> SP!ReceiveAgain(c)
  BY DEF Slave!ReceiveAgain, SP!ReceiveAgain
<1>6. \A c : Slave!Disconnected(c) <=> SP!Disconnected(c)
  BY DEF Slave!Disconnected, SP!Disconnected, Slave!ClientDisconnect, SP!ClientDisconnect
<1>7. \A c : Slave!KernelReceives(c) <=> SP!KernelReceives(c)
  BY DEF Slave!KernelReceives, SP!KernelReceives
<1>8. \A c : Slave!Client(c) <=> SP!Client(c)
  BY DEF Slave!Client, SP!Client, Slave!ClientConnects, SP!ClientConnects,
         Slave!ClientSends, SP!ClientSends, Slave!ClientLeaves, SP!ClientLeaves
<1> QED BY <1>1, <1>2, <1>3, <1>4, <1>5, <1>6, <1>7, <1>8

(* The request a master answers is one the slave has sent.                 *)
LEMMA AnsweredIsSent ==
  ASSUME SP!ServerInv, NEW r, SP!MasterAnswers(r)
  PROVE  r \in SP!Sent /\ r \in Requests
<1>1. r \in atMasters /\ atMasters \subseteq 1..Len(request) /\ Len(request) <= MaxRequests
      /\ Len(request) \in Nat
  BY LenProperties DEF SP!MasterAnswers, SP!ServerInv, SP!TypeOK, SP!RequestInv
<1> QED BY <1>1 DEF SP!Sent

LEMMA SlaveSteps ==
  ASSUME SP!ServerInv, [Next]_vars
  PROVE  [SP!Next]_(SP!vars)
<1>1. ASSUME NEW c \in Slave!Clients, Slave!RequestReceived(c)
      PROVE  SP!Next
  BY <1>1, SameSlave DEF SP!Next, SP!Connection
<1>2. CASE \E c \in Slave!Clients : NotForwarded(c) \/ \E k \in Masters : Forwarded(c, k)
  BY <1>1, <1>2 DEF NotForwarded, Forwarded
<1>3. CASE \E k \in Masters : Works(k)
  BY <1>3 DEF Works, slaveVars, SP!vars
<1>4. ASSUME NEW k \in Masters, NEW n \in Requests, NEW q \in Requests, Answered(k, n, q)
      PROVE  SP!Next
  <2>1. SP!MasterAnswers(line[k][n])
    BY <1>4, SameSlave DEF Answered
  <2>2. line[k][n] \in SP!Requests
    BY <2>1, AnsweredIsSent DEF SP!Requests
  <2> QED BY <2>1, <2>2 DEF SP!Next
<1>5. CASE Others
  BY <1>5, SameSlave DEF Others, SP!Next, SP!Connection
<1>6. CASE UNCHANGED vars
  BY <1>6 DEF vars, slaveVars, SP!vars
<1> QED BY <1>2, <1>3, <1>4, <1>5, <1>6 DEF Next

LEMMA SlaveStep ==
  ASSUME SlaveInv, [Next]_vars
  PROVE  SlaveInv'
<1>1. [SP!Next]_(SP!vars)
  BY SlaveSteps DEF SlaveInv
<1> QED BY <1>1, SP!ServerStep, SP!WaitStep DEF SlaveInv
-----------------------------------------------------------------------------
(***************************************************************************)
(* The masters.                                                            *)
(***************************************************************************)

(* What a step of master k leaves of its invariant, whatever it answers.   *)
LEMMA ServiceKeeps ==
  ASSUME MasterInv, NEW k \in Masters, NEW n \in Requests, NEW q \in 0..MaxRequests,
         MasterStep(k, n, q)
  PROVE  /\ status' \in [Masters -> [Requests -> StatusSet]]
         /\ \A j \in Masters : j # k => status'[j] = status[j] /\ answer'[j] = answer[j]
         /\ answer' \in [Masters -> [Requests -> 0..MaxRequests]]
         /\ \A m \in Requests :
              /\ status'[k][m] \in Master(k)!Successors(status[k][m])
              /\ IF status'[k][m] = "answered" /\ status[k][m] # "answered"
                 THEN answer'[k][m] \in Master(k)!MayBeGiven(m)
                 ELSE answer'[k][m] = answer[k][m]
<1>1. PICK s \in [Requests -> StatusSet] : status' = [status EXCEPT ![k] = s]
  BY DEF MasterStep, Master!Statuses, StatusSet
<1>2. answer' = IF q = 0 THEN answer ELSE [answer EXCEPT ![k][n] = q]
  BY DEF MasterStep
<1>3. status \in [Masters -> [Requests -> StatusSet]]
      /\ answer \in [Masters -> [Requests -> 0..MaxRequests]]
  BY DEF MasterInv
<1>4. /\ status' \in [Masters -> [Requests -> StatusSet]]
      /\ \A j \in Masters : j # k => status'[j] = status[j]
  BY <1>1, <1>3
<1>5. /\ answer' \in [Masters -> [Requests -> 0..MaxRequests]]
      /\ \A j \in Masters : j # k => answer'[j] = answer[j]
  BY <1>2, <1>3
<1>6. \A m \in Requests :
        /\ status'[k][m] \in Master(k)!Successors(status[k][m])
        /\ IF status'[k][m] = "answered" /\ status[k][m] # "answered"
           THEN answer'[k][m] \in Master(k)!MayBeGiven(m)
           ELSE answer'[k][m] = answer[k][m]
  BY DEF MasterStep, Master!ServiceNext, Master!AnswersFitting, Master!Messages
<1> QED BY <1>4, <1>5, <1>6

(* A lost request stays lost.                                              *)
LEMMA LostForGood ==
  ASSUME MasterInv, NEW k \in Masters, NEW n \in Requests, NEW q \in 0..MaxRequests,
         MasterStep(k, n, q), NEW j \in Masters, NEW m \in Requests, status[j][m] = "lost"
  PROVE  status'[j][m] = "lost"
<1>1. CASE j = k
  <2>1. status'[k][m] \in Master(k)!Successors("lost")
    BY <1>1, ServiceKeeps
  <2> QED BY <1>1, <2>1 DEF Master!Successors
<1>2. CASE j # k
  BY <1>2, ServiceKeeps
<1> QED BY <1>1, <1>2

(* What is lost is among the submitted requests.                           *)
LEMMA GaveUpHasLost ==
  ASSUME MasterInv, NEW k \in Masters, GaveUp(k)
  PROVE  HasLost(k)
<1>1. /\ line[k] \in Seq(Requests) /\ Len(line[k]) \in Nat
      /\ \A m \in Requests : status[k][m] = "new" <=> m > Len(line[k])
  BY LenProperties DEF MasterInv
<1>2. DOMAIN line[k] = 1..Len(line[k])
  BY <1>1
<1>3. ASSUME NEW m \in Requests, status[k][m] = "lost" PROVE m \in DOMAIN line[k]
  BY <1>1, <1>2, <1>3
<1> QED BY <1>3 DEF HasLost, GaveUp

(* A step in which nobody is given an answer may be said of any request.   *)
LEMMA NoAnswerStep ==
  ASSUME NEW k \in Masters, MasterStep(k, 0, 0)
  PROVE  MasterStep(k, 1, 0) /\ 1 \in Requests
<1>1. 1 \in Requests
  OBVIOUS
<1>2. answer' = answer
  BY DEF MasterStep
<1>3. answer' = IF 0 = 0 THEN answer ELSE [answer EXCEPT ![k][1] = 0]
  BY <1>2
<1> QED BY <1>1, <1>3 DEF MasterStep

(* A master that can tell, or has not lost a request yet, gives a request  *)
(* its own answer.                                                         *)
LEMMA OwnAnswerOnly ==
  ASSUME MasterInv, NEW k \in Masters, NEW m \in Requests,
         k \in ExactMasters \/ (OwnAnswers(k) /\ ~GaveUp(k)),
         NEW q \in Master(k)!MayBeGiven(m)
  PROVE  q = m
<1> SUFFICES ASSUME q # m PROVE FALSE
  OBVIOUS
<1>1. /\ q \in 1..(m - 1) /\ k \notin ExactMasters
      /\ status[k][q] \in {"lost", "answered"}
      /\ \A j \in Requests : answer[k][j] # q
  BY DEF Master!MayBeGiven, Master!Messages
<1>2. q \in Requests
  BY <1>1
<1> QED BY <1>1, <1>2 DEF OwnAnswers, GaveUp

LEMMA ServiceStep ==
  ASSUME MasterInv, NEW k \in Masters, NEW n \in Requests, NEW q \in 0..MaxRequests,
         MasterStep(k, n, q), Arrived(k),
         line' \in [Masters -> Seq(Requests)],
         \A j \in Masters : j # k => line'[j] = line[j]
  PROVE  MasterInv' /\ \A j \in Masters : GaveUp(j) => GaveUp(j)'
<1>1. /\ status' \in [Masters -> [Requests -> StatusSet]]
      /\ \A j \in Masters : j # k => status'[j] = status[j] /\ answer'[j] = answer[j]
      /\ answer' \in [Masters -> [Requests -> 0..MaxRequests]]
  BY ServiceKeeps
<1>2. \A m \in Requests :
        /\ status'[k][m] \in Master(k)!Successors(status[k][m])
        /\ IF status'[k][m] = "answered" /\ status[k][m] # "answered"
           THEN answer'[k][m] \in Master(k)!MayBeGiven(m)
           ELSE answer'[k][m] = answer[k][m]
  BY ServiceKeeps
<1>3. \A j \in Masters : GaveUp(j) => GaveUp(j)'
  BY LostForGood DEF GaveUp
<1>4. ASSUME NEW j \in Masters, j # k
      PROVE  /\ \A m \in Requests : status'[j][m] = "new" <=> m > Len(line'[j])
             /\ \A m \in Requests : status'[j][m] # "answered" => answer'[j][m] = 0
             /\ OwnAnswers(j)' \/ (j \notin ExactMasters /\ GaveUp(j)')
  BY <1>1, <1>3, <1>4 DEF MasterInv, OwnAnswers
<1>5. \A m \in Requests : status'[k][m] = "new" <=> m > Len(line'[k])
  BY DEF Arrived
<1>6. ASSUME NEW m \in Requests, status'[k][m] # "answered" PROVE answer'[k][m] = 0
  <2>1. status[k][m] # "answered"
    BY <1>2, <1>6 DEF Master!Successors
  <2> QED BY <1>2, <1>6, <2>1 DEF MasterInv
<1>7. OwnAnswers(k)' \/ (k \notin ExactMasters /\ GaveUp(k)')
  <2> SUFFICES ASSUME ~(k \notin ExactMasters /\ GaveUp(k)') PROVE OwnAnswers(k)'
    OBVIOUS
  <2>1. OwnAnswers(k) /\ (k \in ExactMasters \/ ~GaveUp(k))
    BY <1>3 DEF MasterInv
  <2>2. ASSUME NEW m \in Requests, status'[k][m] = "answered" PROVE answer'[k][m] = m
    <3>1. CASE status[k][m] = "answered"
      BY <1>2, <2>1, <3>1 DEF OwnAnswers
    <3>2. CASE status[k][m] # "answered"
      BY <1>2, <2>1, <2>2, <3>2, OwnAnswerOnly
    <3> QED BY <3>1, <3>2
  <2> QED BY <2>2 DEF OwnAnswers
<1>8. \A j \in Masters :
        /\ \A m \in Requests : status'[j][m] = "new" <=> m > Len(line'[j])
        /\ \A m \in Requests : status'[j][m] # "answered" => answer'[j][m] = 0
        /\ OwnAnswers(j)' \/ (j \notin ExactMasters /\ GaveUp(j)')
  BY <1>4, <1>5, <1>6, <1>7
<1> QED BY <1>1, <1>3, <1>8 DEF MasterInv

LEMMA ForwardedMaster ==
  ASSUME SP!ServerInv, MasterInv, NEW c \in Slave!Clients, NEW k \in Masters, Forwarded(c, k)
  PROVE  MasterInv' /\ \A j \in Masters : GaveUp(j) => GaveUp(j)'
<1>1. c \in SP!Clients /\ received[c] # 0
  BY SameSlave DEF Forwarded, Slave!RequestReceived
<1>2. received[c] \in Requests
  BY <1>1 DEF SP!ServerInv, SP!TypeOK, SP!Requests
<1>3. line \in [Masters -> Seq(Requests)]
  BY DEF MasterInv
<1>4. Append(line[k], received[c]) \in Seq(Requests)
  BY <1>2, <1>3, AppendProperties
<1>5. /\ line' \in [Masters -> Seq(Requests)]
      /\ \A j \in Masters : j # k => line'[j] = line[j]
  BY <1>3, <1>4 DEF Forwarded
<1>6. MasterStep(k, 1, 0) /\ 1 \in Requests /\ Arrived(k)
  BY NoAnswerStep DEF Forwarded
<1> QED BY <1>5, <1>6, ServiceStep

LEMMA MastersStep ==
  ASSUME SP!ServerInv, MasterInv, [Next]_vars
  PROVE  MasterInv' /\ \A j \in Masters : GaveUp(j) => GaveUp(j)'
<1>1. ASSUME UNCHANGED masterVars
      PROVE  MasterInv' /\ \A j \in Masters : GaveUp(j) => GaveUp(j)'
  BY <1>1 DEF masterVars, MasterInv, OwnAnswers, GaveUp
<1>2. ASSUME NEW c \in Slave!Clients, NEW k \in Masters, Forwarded(c, k)
      PROVE  MasterInv' /\ \A j \in Masters : GaveUp(j) => GaveUp(j)'
  BY <1>2, ForwardedMaster
<1>3. ASSUME NEW k \in Masters, Works(k)
      PROVE  MasterInv' /\ \A j \in Masters : GaveUp(j) => GaveUp(j)'
  <2>1. MasterStep(k, 1, 0) /\ 1 \in Requests /\ Arrived(k) /\ line' = line
    BY <1>3, NoAnswerStep DEF Works
  <2>2. line' \in [Masters -> Seq(Requests)]
    BY <2>1 DEF MasterInv
  <2> QED BY <2>1, <2>2, ServiceStep
<1>4. ASSUME NEW k \in Masters, NEW n \in Requests, NEW q \in Requests, Answered(k, n, q)
      PROVE  MasterInv' /\ \A j \in Masters : GaveUp(j) => GaveUp(j)'
  <2>1. MasterStep(k, n, q) /\ Arrived(k) /\ line' = line
    BY <1>4 DEF Answered
  <2>2. line' \in [Masters -> Seq(Requests)] /\ q \in 0..MaxRequests
    BY <2>1 DEF MasterInv
  <2> QED BY <2>1, <2>2, ServiceStep
<1>5. CASE Others \/ UNCHANGED vars \/ \E c \in Slave!Clients : NotForwarded(c)
  BY <1>1, <1>5 DEF Others, vars, NotForwarded, masterVars
<1> QED BY <1>2, <1>3, <1>4, <1>5 DEF Next

(* The content of an answer is that of the request whose ids it carries,   *)
(* unless the master cannot tell and has lost one.                         *)
LEMMA GivenContent ==
  ASSUME MasterInv, NEW k \in Masters, NEW n \in Requests, NEW q \in Requests,
         Answered(k, n, q), q # n
  PROVE  k \notin ExactMasters /\ GaveUp(k)
<1>1. MasterStep(k, n, q) /\ status'[k][n] # status[k][n] /\ q \in 0..MaxRequests
  BY DEF Answered
<1>2. /\ status'[k][n] \in Master(k)!Successors(status[k][n])
      /\ IF status'[k][n] = "answered" /\ status[k][n] # "answered"
         THEN answer'[k][n] \in Master(k)!MayBeGiven(n)
         ELSE answer'[k][n] = answer[k][n]
  BY <1>1, ServiceKeeps
<1>3. answer'[k][n] = q
  BY <1>1 DEF MasterStep, MasterInv
<1>4. status[k][n] # "answered"
  BY <1>1, <1>2 DEF Master!Successors
<1>5. answer[k][n] = 0
  BY <1>4 DEF MasterInv
<1>6. q \in Master(k)!MayBeGiven(n)
  BY <1>2, <1>3, <1>5
<1> QED BY <1>6, OwnAnswerOnly DEF MasterInv
-----------------------------------------------------------------------------
(***************************************************************************)
(* What the clients got.                                                   *)
(***************************************************************************)

LEMMA RequestsStay ==
  ASSUME SP!ServerInv, [SP!Next]_(SP!vars), NEW q \in SP!Sent
  PROVE  q \in SP!Sent' /\ request'[q] = request[q]
<1>1. request \in Seq([client : SP!Clients, tid : Tids])
  BY DEF SP!ServerInv, SP!TypeOK
<1>2. CASE request' = request
  BY <1>2 DEF SP!Sent
<1>3. ASSUME NEW c \in SP!Clients, NEW t \in Tids, SP!ClientSends(c, t)
      PROVE  q \in SP!Sent' /\ request'[q] = request[q]
  <2>1. request' = Append(request, [client |-> c, tid |-> t])
    BY <1>3 DEF SP!ClientSends
  <2> QED BY <1>1, <2>1, AppendProperties DEF SP!Sent
<1>4. \/ request' = request
      \/ \E c \in SP!Clients, t \in Tids : SP!ClientSends(c, t)
  BY DEF SP!Next, SP!vars, SP!AcceptTask, SP!Connection, SP!RequestReceived, SP!ReceiveAgain,
         SP!Disconnected, SP!KernelReceives, SP!Client, SP!ClientConnects, SP!ClientLeaves,
         SP!MasterAnswers, SP!MasterGivesUp
<1> QED BY <1>2, <1>3, <1>4

(* What a client no longer waits for it never waits for again: the request *)
(* it reads is a later one.                                                *)
LEMMA OverReceived ==
  ASSUME SP!ServerInv, SP!ReadInv, NEW d \in SP!Clients, SP!RequestReceived(d),
         NEW c \in SP!Clients, NEW a, Over(c, a)
  PROVE  Over(c, a)'
<1>r. PICK r : r = received[d]
  OBVIOUS
<1>0. /\ request' = request /\ running /\ recvOp[d] = "done" /\ r # 0
      /\ pending' = [pending EXCEPT ![d] = request[r].tid]
      /\ source' = [source EXCEPT ![r] = actorId[d]]
  BY <1>r DEF SP!RequestReceived
<1>1. actorId[d] \in ActorIds /\ actorId[d] # 0
  BY <1>0, SP!Registered
<1>2. /\ r \in SP!Sent /\ request[r].client = d /\ r \in SP!Requests /\ r \in Nat
      /\ \A q \in SP!Sent : SP!Made(d, q) => q < r
  <2>1. r \in SP!Sent /\ request[r].client = d
    BY <1>0, <1>r DEF SP!ServerInv, SP!RequestInv
  <2>2. r \in SP!Requests
    BY <1>0, <1>r DEF SP!ServerInv, SP!TypeOK
  <2> QED BY <1>0, <1>r, <2>1, <2>2 DEF SP!ReadInv, SP!Requests
<1>3. \A q \in SP!Sent : q \in Nat /\ q \in SP!Requests
  BY SP!Typed DEF SP!Sent, SP!ServerInv, SP!RequestInv, SP!Requests
<1>4. source \in [SP!Requests -> ActorIds \cup {0}] /\ pending \in [SP!Clients -> Tids \cup {0}]
  BY DEF SP!ServerInv, SP!TypeOK
<1>5. \A q \in SP!Sent : source'[q] = IF q = r THEN actorId[d] ELSE source[q]
  BY <1>0, <1>3, <1>4
<1>6. SP!Sent' = SP!Sent /\ a \in SP!Sent /\ SP!Made(c, a)
  BY <1>0 DEF SP!Sent, Over
<1>7. SP!Made(c, a)'
  BY <1>0, <1>1, <1>5, <1>6 DEF SP!Made
<1>8. CASE c = d
  <2>1. SP!Made(d, r)' /\ a < r
    BY <1>0, <1>1, <1>2, <1>5, <1>6, <1>8 DEF SP!Made
  <2>2. ~SP!Latest(c, a)'
    BY <1>2, <1>3, <1>6, <1>8, <2>1 DEF SP!Latest
  <2> QED BY <1>6, <1>7, <2>2 DEF Over
<1>9. CASE c # d
  <2>1. pending'[c] = pending[c]
    BY <1>0, <1>4, <1>9
  <2>2. \A q \in SP!Sent : SP!Made(c, q)' <=> SP!Made(c, q)
    BY <1>0, <1>2, <1>5, <1>9 DEF SP!Made
  <2>3. SP!Latest(c, a)' <=> SP!Latest(c, a)
    BY <1>6, <2>2 DEF SP!Latest
  <2> QED BY <1>6, <1>7, <2>1, <2>3 DEF Over
<1> QED BY <1>8, <1>9

LEMMA OverStays ==
  ASSUME SP!ServerInv, SP!ReadInv, [SP!Next]_(SP!vars),
         NEW c \in SP!Clients, NEW a, Over(c, a)
  PROVE  Over(c, a)'
<1>1. CASE UNCHANGED <<request, source, pending>>
  BY <1>1 DEF Over, SP!Sent, SP!Made, SP!Latest
<1>2. CASE \E d \in SP!Clients : SP!RequestReceived(d)
  BY <1>2, OverReceived
<1>3. ASSUME NEW r \in SP!Requests, SP!MasterAnswers(r)
      PROVE  Over(c, a)'
  <2>1. /\ UNCHANGED <<request, source>>
        /\ pending' = pending \/ pending' = [pending EXCEPT ![storage[source[r]]] = 0]
    BY <1>3 DEF SP!MasterAnswers, SP!StartSendTask
  <2>2. pending'[c] = 0 \/ pending'[c] = pending[c]
    BY <2>1 DEF SP!ServerInv, SP!TypeOK
  <2> QED BY <2>1, <2>2 DEF Over, SP!Sent, SP!Made, SP!Latest
<1>4. ASSUME NEW d \in SP!Clients, NEW t \in Tids, SP!ClientSends(d, t)
      PROVE  Over(c, a)'
  <2>1. request' = Append(request, [client |-> d, tid |-> t]) /\ UNCHANGED <<source, pending>>
    BY <1>4 DEF SP!ClientSends
  <2>2. /\ request \in Seq([client : SP!Clients, tid : Tids]) /\ Len(request) \in Nat
        /\ Len(request') = Len(request) + 1 /\ Len(request) + 1 \in SP!Requests
    <3>1. request \in Seq([client : SP!Clients, tid : Tids]) /\ Len(request) \in Nat
      BY LenProperties DEF SP!ServerInv, SP!TypeOK
    <3> QED BY <1>4, <2>1, <3>1, AppendProperties DEF SP!ClientSends, SP!Requests
  <2>3. \A q \in SP!Sent' : q \in SP!Sent \/ source[q] = 0
    BY <2>2 DEF SP!Sent, SP!ServerInv, SP!SourceInv
  <2>4. \A q \in SP!Sent : q \in SP!Sent' /\ (SP!Made(c, q)' <=> SP!Made(c, q))
    BY <2>1, RequestsStay DEF SP!Made
  <2>5. \A q \in SP!Sent' : SP!Made(c, q)' => q \in SP!Sent
    BY <2>1, <2>3 DEF SP!Made
  <2>6. a \in SP!Sent /\ SP!Made(c, a)
    BY DEF Over
  <2>7. SP!Latest(c, a)' => SP!Latest(c, a)
    BY <2>4, <2>6 DEF SP!Latest
  <2> QED BY <2>1, <2>4, <2>6, <2>7 DEF Over
<1>5. \/ UNCHANGED <<request, source, pending>>
      \/ \E d \in SP!Clients : SP!RequestReceived(d)
      \/ \E r \in SP!Requests : SP!MasterAnswers(r)
      \/ \E d \in SP!Clients, t \in Tids : SP!ClientSends(d, t)
  BY DEF SP!Next, SP!vars, SP!AcceptTask, SP!Connection, SP!ReceiveAgain,
         SP!Disconnected, SP!KernelReceives, SP!Client, SP!ClientConnects, SP!ClientLeaves,
         SP!MasterGivesUp
<1> QED BY <1>1, <1>2, <1>3, <1>4, <1>5

LEMMA EntryStays ==
  ASSUME SlaveInv, [Next]_vars, NEW i \in 1..Len(written), written'[i] = written[i],
         NEW a, AskedBy(i, a)
  PROVE  AskedBy(i, a)'
<1>1. [SP!Next]_(SP!vars)
  BY SlaveSteps DEF SlaveInv
<1>2. /\ Client(i) \in SP!Clients /\ Stamp(i) \in SP!Sent
      /\ Client(i)' = Client(i) /\ Stamp(i)' = Stamp(i)
  BY SP!Typed DEF SlaveInv, SP!ServerInv, SP!WrittenInv, Client, Stamp
<1>3. a \in SP!Sent /\ request[Stamp(i)].tid = request[a].tid
  BY DEF AskedBy, Over
<1>4. request'[Stamp(i)] = request[Stamp(i)] /\ request'[a] = request[a]
  BY <1>1, <1>2, <1>3, RequestsStay DEF SlaveInv
<1>c. PICK c \in SP!Clients : c = Client(i)
  BY <1>2
<1>5. Over(c, a)'
  BY <1>1, <1>c, OverStays DEF AskedBy, SlaveInv
<1>6. \A u : u = c => Over(u, a)'
  BY <1>5
<1> QED BY <1>2, <1>3, <1>4, <1>c, <1>6 DEF AskedBy

LEMMA EntryTyped ==
  ASSUME GotInv
  PROVE  /\ Len(got) \in Nat
         /\ \A i \in 1..Len(got) : got[i] \in Entries /\ got[i].master \in Masters
<1>1. got \in Seq(Entries) /\ Len(got) \in Nat
  BY LenProperties DEF GotInv
<1>2. \A i \in 1..Len(got) : got[i] \in Entries
  BY <1>1, ElementOfSeq
<1> QED BY <1>1, <1>2 DEF Entries

(* Steps in which no client gets anything.                                 *)
LEMMA GotKept ==
  ASSUME NodeInv, [Next]_vars, UNCHANGED <<got, written>>
  PROVE  GotInv'
<1>1. \A i \in 1..Len(got) : i \in 1..Len(written) /\ AskedBy(i, got[i].asked)
  BY DEF NodeInv, GotInv
<1>2. \A i \in 1..Len(got) : AskedBy(i, got[i].asked)'
  <2> SUFFICES ASSUME NEW i \in 1..Len(got) PROVE AskedBy(i, got[i].asked)'
    OBVIOUS
  <2>a. PICK a : a = got[i].asked
    OBVIOUS
  <2>1. AskedBy(i, a)'
    BY <1>1, <2>a, EntryStays DEF NodeInv
  <2> QED BY <2>1, <2>a
<1>3. \A j \in Masters : GaveUp(j) => GaveUp(j)'
  BY MastersStep DEF NodeInv, SlaveInv
<1>4. \A i \in 1..Len(got) : got[i].master \in Masters
  BY EntryTyped DEF NodeInv
<1>5. \A i \in 1..Len(got) : got[i].content # Stamp(i) =>
        got[i].master \notin ExactMasters /\ \A u : u = got[i].master => GaveUp(u)'
  BY <1>3, <1>4 DEF NodeInv, GotInv
<1>6. \A i : Stamp(i)' = Stamp(i)
  BY DEF Stamp
<1> QED BY <1>2, <1>5, <1>6 DEF NodeInv, GotInv

(* What the connection does with the answer to r, when it writes it.       *)
LEMMA WrittenAnswer ==
  ASSUME SlaveInv, NEW r \in Requests, Slave!MasterAnswers(r), written' # written
  PROVE  \E c \in SP!Clients :
           /\ written' = Append(written, [client |-> c, req |-> r])
           /\ pending' = [pending EXCEPT ![c] = 0] /\ pending'[c] = 0
           /\ pending[c] = request[r].tid /\ pending[c] # 0
           /\ UNCHANGED <<request, source>>
<1>1. SP!MasterAnswers(r)
  BY SameSlave
<1>c. PICK c : c = storage[source[r]]
  OBVIOUS
<1>2. /\ c # 0 /\ pending[c] = request[r].tid
      /\ pending' = [pending EXCEPT ![c] = 0]
      /\ written' = Append(written, [client |-> c, req |-> r])
      /\ UNCHANGED <<request, source>> /\ r \in atMasters
  BY <1>1, <1>c DEF SP!MasterAnswers, SP!StartSendTask
<1>3. r \in SP!Sent /\ source[r] # 0 /\ source[r] \in ActorIds
  BY <1>1, <1>2, AnsweredIsSent DEF SlaveInv, SP!ServerInv, SP!SourceInv, SP!TypeOK, SP!Requests
<1>4. c \in SP!Clients
  BY <1>2, <1>c, <1>3 DEF SlaveInv, SP!ServerInv, SP!TypeOK
<1>5. request[r].tid # 0
  BY <1>3, SP!Typed DEF SlaveInv, SP!ServerInv
<1>6. pending'[c] = 0
  BY <1>2, <1>4 DEF SlaveInv, SP!ServerInv, SP!TypeOK
<1> QED BY <1>2, <1>4, <1>5, <1>6

(* The connection waits for the last request made.                         *)
LEMMA WaitsForLatest ==
  ASSUME SlaveInv, NEW c \in SP!Clients, pending[c] # 0
  PROVE  /\ LatestOf(c) \in SP!Sent /\ SP!Latest(c, LatestOf(c))
         /\ request[LatestOf(c)].tid = pending[c]
<1>1. PICK l \in SP!Sent : SP!Latest(c, l) /\ request[l].tid = pending[c]
  BY DEF SlaveInv, SP!WaitInv
<1>2. \A r \in SP!Sent :
        SP!Latest(c, r) <=>
          /\ request[r].client = c /\ source[r] # 0
          /\ \A q \in 1..Len(request) : request[q].client = c /\ source[q] # 0 => q <= r
  BY DEF SP!Latest, SP!Made, SP!Sent
<1>3. LatestOf(c) \in SP!Sent /\ SP!Latest(c, LatestOf(c))
  <2>1. LatestOf(c) = CHOOSE r \in SP!Sent : SP!Latest(c, r)
    BY <1>2 DEF LatestOf, SP!Sent
  <2> QED BY <1>1, <2>1
<1> QED BY <1>1, <1>3, SP!OneLatest DEF SlaveInv

(* The answer that is written ends the wait for the last request made,     *)
(* which no earlier answer has ended.                                      *)
LEMMA GotAppended ==
  ASSUME NodeInv, [Next]_vars, NEW k \in Masters, NEW n \in Requests, NEW q \in Requests,
         Answered(k, n, q), written' # written
  PROVE  GotInv'
<1>m. PICK m : m = Len(got)
  OBVIOUS
<1>r. PICK r : r = line[k][n]
  OBVIOUS
<1>0. n \in DOMAIN line[k] /\ q \in DOMAIN line[k] /\ Slave!MasterAnswers(r)
  BY <1>r DEF Answered
<1>1. r \in Requests /\ line[k][q] \in Requests
  BY <1>0, <1>r DEF NodeInv, MasterInv
<1>2. PICK c \in SP!Clients :
           /\ written' = Append(written, [client |-> c, req |-> r])
           /\ pending' = [pending EXCEPT ![c] = 0] /\ pending'[c] = 0
           /\ pending[c] = request[r].tid /\ pending[c] # 0
           /\ UNCHANGED <<request, source>>
  BY <1>0, <1>1, WrittenAnswer DEF NodeInv
<1>a. PICK a : a = LatestOf(c)
  OBVIOUS
<1>3. a \in SP!Sent /\ SP!Latest(c, a) /\ request[a].tid = request[r].tid
  BY <1>2, <1>a, WaitsForLatest DEF NodeInv
<1>4. written \in Seq([client : SP!Clients, req : SP!Requests])
      /\ Len(written) = m /\ m \in Nat
  BY <1>m, LenProperties DEF NodeInv, SlaveInv, SP!ServerInv, SP!TypeOK, GotInv
<1>5. /\ Len(written') = m + 1 /\ written'[m + 1] = [client |-> c, req |-> r]
      /\ \A i \in 1..m : written'[i] = written[i]
  BY <1>2, <1>4, AppendProperties
<1>e. PICK e : e = [master |-> k, asked |-> a, content |-> line[k][q]]
  OBVIOUS
<1>6. got' = Append(got, e)
  BY <1>2, <1>5, <1>a, <1>e DEF Answered
<1>7. e \in Entries /\ e.master = k /\ e.asked = a /\ e.content = line[k][q]
  <2>1. a \in Requests
    BY <1>3, SP!Typed DEF NodeInv, SlaveInv, SP!ServerInv, SP!RequestInv, SP!Sent
  <2> QED BY <1>1, <1>e, <2>1 DEF Entries
<1>8. /\ got' \in Seq(Entries) /\ Len(got') = m + 1 /\ got'[m + 1] = e
      /\ \A i \in 1..m : got'[i] = got[i]
  BY <1>6, <1>7, <1>m, AppendProperties DEF NodeInv, GotInv
<1>9. Client(m + 1)' = c /\ Stamp(m + 1)' = r
  BY <1>5 DEF Client, Stamp
<1>10. ASSUME NEW i \in 1..m
       PROVE  AskedBy(i, got[i].asked) /\ \A u : u = got[i].asked => AskedBy(i, u)'
  <2>a. PICK b : b = got[i].asked
    OBVIOUS
  <2>1. AskedBy(i, b) /\ i \in 1..Len(written)
    BY <1>4, <1>m, <2>a DEF NodeInv, GotInv
  <2>2. AskedBy(i, b)'
    BY <1>5, <2>1, EntryStays DEF NodeInv
  <2>3. \A u : u = b => AskedBy(i, u)'
    BY <2>2
  <2> QED BY <2>a, <2>1, <2>3
<1>11. \A u, v : u = m + 1 /\ v = a => AskedBy(u, v)'
  <2>1. Over(c, a)'
    BY <1>2, <1>3 DEF Over, SP!Latest, SP!Made, SP!Sent
  <2>2. \A u : u = c => Over(u, a)'
    BY <2>1
  <2>3. \A u, v : u = m + 1 /\ v = a => Client(u)' = c /\ Stamp(u)' = r
    BY <1>9
  <2> QED BY <1>2, <1>3, <2>2, <2>3 DEF AskedBy
<1>12. ASSUME NEW i \in 1..m
       PROVE  got[i].asked # a
  <2>1. CASE Client(i) = c
    BY <1>2, <1>3, <1>10, <2>1 DEF AskedBy, Over
  <2>2. CASE Client(i) # c
    BY <1>3, <1>10, <2>2 DEF AskedBy, Over, SP!Latest, SP!Made
  <2> QED BY <2>1, <2>2
<1>13. \A j \in Masters : GaveUp(j) => GaveUp(j)'
  BY MastersStep DEF NodeInv, SlaveInv
<1>14. ASSUME NEW i \in 1..m, got[i].content # Stamp(i)'
       PROVE  got[i].master \notin ExactMasters /\ \A u : u = got[i].master => GaveUp(u)'
  <2>1. Stamp(i)' = Stamp(i) /\ got[i].master \in Masters
    BY <1>5, <1>m, EntryTyped DEF Stamp, NodeInv
  <2> QED BY <1>13, <1>14, <1>m, <2>1 DEF NodeInv, GotInv
<1>15. ASSUME e.content # r
       PROVE  e.master \notin ExactMasters /\ \A u : u = e.master => GaveUp(u)'
  <2>1. q # n
    BY <1>7, <1>15, <1>r
  <2> QED BY <1>7, <1>13, <2>1, GivenContent DEF NodeInv
<1>16. \A i \in 1..(m + 1) : i \in 1..m \/ i = m + 1
  BY <1>4
<1>17. \A i \in 1..Len(got') : \A u : u = got'[i].asked => AskedBy(i, u)'
  <2> SUFFICES ASSUME NEW i \in 1..(m + 1), NEW u, u = got'[i].asked
               PROVE  AskedBy(i, u)'
    BY <1>8
  <2>1. CASE i \in 1..m
    BY <1>8, <1>10, <2>1
  <2>2. CASE i = m + 1
    BY <1>7, <1>8, <1>11, <2>2
  <2> QED BY <1>16, <2>1, <2>2
<1>18. \A i, j \in 1..Len(got') : j < i => got'[j].asked # got'[i].asked
  <2> SUFFICES ASSUME NEW i \in 1..(m + 1), NEW j \in 1..(m + 1), j < i
               PROVE  got'[j].asked # got'[i].asked
    BY <1>8
  <2>1. j \in 1..m
    BY <1>4
  <2>2. CASE i \in 1..m
    BY <1>8, <1>m, <2>1, <2>2 DEF NodeInv, GotInv
  <2>3. CASE i = m + 1
    BY <1>7, <1>8, <1>12, <2>1, <2>3
  <2> QED BY <1>16, <2>2, <2>3
<1>19. \A i \in 1..Len(got') : got'[i].content # Stamp(i)' =>
         got'[i].master \notin ExactMasters /\ \A u : u = got'[i].master => GaveUp(u)'
  <2> SUFFICES ASSUME NEW i \in 1..(m + 1), got'[i].content # Stamp(i)'
               PROVE  /\ got'[i].master \notin ExactMasters
                      /\ \A u : u = got'[i].master => GaveUp(u)'
    BY <1>8
  <2>1. CASE i \in 1..m
    BY <1>8, <1>14, <2>1
  <2>2. CASE i = m + 1
    BY <1>8, <1>9, <1>15, <2>2
  <2> QED BY <1>16, <2>1, <2>2
<1> QED BY <1>5, <1>8, <1>17, <1>18, <1>19 DEF GotInv

LEMMA GotStep ==
  ASSUME NodeInv, [Next]_vars
  PROVE  GotInv'
<1>1. ASSUME NEW k \in Masters, NEW n \in Requests, NEW q \in Requests, Answered(k, n, q)
      PROVE  GotInv'
  <2>1. CASE written' = written
    BY <1>1, <2>1, GotKept DEF Answered
  <2>2. CASE written' # written
    BY <1>1, <2>2, GotAppended
  <2> QED BY <2>1, <2>2
<1>2. CASE ~\E k \in Masters, n, q \in Requests : Answered(k, n, q)
  <2>1. UNCHANGED <<got, written>>
    BY <1>2 DEF Next, vars, slaveVars, NotForwarded, Forwarded, Works, Others,
       Slave!RequestReceived, Slave!AcceptTask, Slave!ReceiveAgain, Slave!Disconnected,
       Slave!KernelReceives, Slave!Client, Slave!ClientConnects, Slave!ClientSends,
       Slave!ClientLeaves
  <2> QED BY <2>1, GotKept
<1> QED BY <1>1, <1>2

LEMMA NodeStart == Init => NodeInv
<1> SUFFICES ASSUME Init PROVE NodeInv
  OBVIOUS
<1>1. SP!Init
  BY SameSlave DEF Init, Slave!Init, SP!Init, Slave!Clients, SP!Clients, Slave!Requests, SP!Requests
<1>2. SlaveInv
  BY <1>1, SP!ServerStart, SP!WaitStart DEF SlaveInv
<1>3. MasterInv
  BY DEF Init, MasterInv, OwnAnswers, StatusSet
<1>4. GotInv
  BY <1>1 DEF Init, SP!Init, GotInv
<1> QED BY <1>2, <1>3, <1>4 DEF NodeInv

LEMMA NodeStep == NodeInv /\ [Next]_vars => NodeInv'
<1> SUFFICES ASSUME NodeInv, [Next]_vars PROVE NodeInv'
  OBVIOUS
<1>1. SlaveInv' /\ MasterInv' /\ GotInv'
  BY SlaveStep, MastersStep, GotStep DEF NodeInv, SlaveInv
<1> QED BY <1>1 DEF NodeInv

LEMMA NodeGetsItsAnswer == NodeInv => GetsItsAnswer
<1> SUFFICES ASSUME NodeInv, NEW i \in 1..Len(got)
             PROVE  /\ \A j \in 1..(i - 1) : got[j].asked # got[i].asked
                    /\ Stamp(i) # got[i].asked =>
                         /\ request[Stamp(i)].tid = request[got[i].asked].tid
                         /\ \/ request[Stamp(i)].client = Client(i)
                            \/ /\ source[Stamp(i)] = actorId[Client(i)]
                               /\ phase[request[Stamp(i)].client] = "gone"
                    /\ got[i].content # Stamp(i) =>
                         got[i].master \notin ExactMasters /\ HasLost(got[i].master)
  BY DEF GetsItsAnswer
<1>1. Len(got) \in Nat /\ got[i].master \in Masters
  BY EntryTyped DEF NodeInv
<1>2. \A j \in 1..(i - 1) : got[j].asked # got[i].asked
  BY <1>1 DEF NodeInv, GotInv
<1>3. request[Stamp(i)].tid = request[got[i].asked].tid
  BY DEF NodeInv, GotInv, AskedBy
<1>4. \/ request[Stamp(i)].client = Client(i)
      \/ /\ source[Stamp(i)] = actorId[Client(i)]
         /\ phase[request[Stamp(i)].client] = "gone"
  BY DEF NodeInv, GotInv, SlaveInv, SP!ServerInv, SP!WrittenInv, SP!ForeignAnswerNeedsReuse,
         Client, Stamp
<1>5. ASSUME got[i].content # Stamp(i)
      PROVE  got[i].master \notin ExactMasters /\ HasLost(got[i].master)
  BY <1>1, <1>5, GaveUpHasLost DEF NodeInv, GotInv
<1> QED BY <1>2, <1>3, <1>4, <1>5

(* From end to end, however clients connect, send, leave and reconnect and *)
(* masters answer late, answer wrongly or give up: a client gets the       *)
(* answer to the request it waits for and gets it once, unless the         *)
(* transaction id was used before, or the master cannot tell answers apart *)
(* and has lost one.                                                       *)
THEOREM ClientsGetTheirAnswers == Spec => []GetsItsAnswer
<1>1. Spec => []NodeInv
  BY NodeStart, NodeStep, PTL DEF Spec
<1> QED BY <1>1, NodeGetsItsAnswer, PTL
=============================================================================
