----------------------- MODULE ModbusTcpClientProofs -----------------------
(***************************************************************************)
(* Theorems about the TCP master, for any number of requests and any size  *)
(* of the transaction id.                                                  *)
(***************************************************************************)
EXTENDS ModbusTcpClient, TLAPS, SequenceTheorems

USE DEF Messages, Tids

Connects == [pending : 0..1, ok : Nat, failed : Nat]
-----------------------------------------------------------------------------
(***************************************************************************)
(* Lemmas about the helpers.                                               *)
(***************************************************************************)

(* A sequence over a set is a sequence over any larger set. *)
LEMMA SeqMonotone ==
  ASSUME NEW S, NEW T, S \subseteq T, NEW s \in Seq(S)
  PROVE  s \in Seq(T)
<1>1. Len(s) \in Nat /\ s \in [1..Len(s) -> S]
  BY LenProperties
<1> QED BY <1>1

(* A message alone makes a sequence, the shape of currentMessage_. *)
LEMMA SingletonSeq ==
  ASSUME NEW S, NEW x \in S
  PROVE  <<x>> \in Seq(S)
OBVIOUS

(* async_connect keeps the shape of connects. *)
LEMMA StartConnectType ==
  ASSUME NEW conns \in Connects, StartConnectTaskUnsafe(conns)
  PROVE  connects' \in Connects
BY DEF StartConnectTaskUnsafe, Connects

(* So does closing the socket, which aborts the connect outstanding. *)
LEMMA AbortedConnectsType ==
  ASSUME NEW conns \in Connects
  PROVE  AbortedConnects(conns) \in Connects
BY DEF AbortedConnects, Connects

(* What the queue and the message in exchange are after a call of          *)
(* QueueProcessUnsafe: kept, emptied because everything had expired, or    *)
(* advanced past the expired requests and the one that is taken.           *)
QueueKept(queue, current) ==
  /\ messageQueue' = queue
  /\ currentMessage' = current
  /\ UNCHANGED <<tidGen, sendOp>>

QueueExpired(queue, current) ==
  /\ current = NoMessage
  /\ \A i \in 1..Len(queue) : queue[i] <= overdue
  /\ messageQueue' = <<>>
  /\ currentMessage' = NoMessage
  /\ UNCHANGED <<tidGen, sendOp>>

QueueTaken(queue, current) ==
  /\ current = NoMessage
  /\ sendOp' = "pending"
  /\ tidGen' = NextTid
  /\ \E n \in 0..Len(queue) :
       /\ n < Len(queue)
       /\ currentMessage' = [msg |-> queue[n + 1], id |-> NextTid]
       /\ messageQueue' = SubSeq(queue, n + 2, Len(queue))

LEMMA QueueOutcome ==
  ASSUME NEW st \in States, NEW queue, NEW current, NEW conns \in Connects,
         QueueProcessUnsafe(st, queue, current, conns)
  PROVE  /\ state' \in States
         /\ connects' \in Connects
         /\ \/ QueueKept(queue, current)
            \/ QueueExpired(queue, current)
            \/ QueueTaken(queue, current)
<1>1. CASE queue = <<>> \/ st \in {"WaitConnect", "MessageProcess"}
  BY <1>1 DEF QueueProcessUnsafe, StartConnectTaskUnsafe, StartMessageTaskUnsafe, TakeNext, QueueKept,
              QueueExpired, QueueTaken, States, Connects
<1>2. CASE queue # <<>> /\ st = "Idle"
  BY <1>2, StartConnectType DEF QueueProcessUnsafe, QueueKept, States
<1>3. CASE queue # <<>> /\ st = "Connected"
  <2>1. StartMessageTaskUnsafe(queue, current) /\ connects' = conns
    BY <1>3 DEF QueueProcessUnsafe
  <2>2. CASE current # NoMessage
    BY <2>1, <2>2 DEF StartMessageTaskUnsafe, QueueKept, States
  <2>3. CASE current = NoMessage
    BY <2>1, <2>3 DEF StartMessageTaskUnsafe, TakeNext, ExpiredPrefix, QueueExpired,
                      QueueTaken, States
  <2> QED BY <2>2, <2>3
<1> QED BY <1>1, <1>2, <1>3 DEF States

(* The types of what QueueProcessUnsafe computes. *)
LEMMA QueueOutcomeType ==
  ASSUME ClientAssumption, TypeOK,
         NEW S \in SUBSET Messages, NEW queue \in Seq(S), NEW current \in Current,
         \/ QueueKept(queue, current)
         \/ QueueExpired(queue, current)
         \/ QueueTaken(queue, current)
  PROVE  /\ messageQueue' \in Seq(S)
         /\ currentMessage' \in Current
         /\ tidGen' \in Tids
         /\ sendOp' \in IoStates
<1>1. CASE QueueKept(queue, current)
  BY <1>1 DEF QueueKept, TypeOK
<1>2. CASE QueueExpired(queue, current)
  BY <1>2 DEF QueueExpired, TypeOK, Current
<1>3. CASE QueueTaken(queue, current)
  <2>1. NextTid \in Tids
    BY DEF NextTid, TypeOK, ClientAssumption
  <2>2. PICK n \in 0..Len(queue) :
             /\ n < Len(queue)
             /\ currentMessage' = [msg |-> queue[n + 1], id |-> NextTid]
             /\ messageQueue' = SubSeq(queue, n + 2, Len(queue))
    BY <1>3 DEF QueueTaken
  <2>3. Len(queue) \in Nat /\ n \in Nat
    BY LenProperties
  <2>4. \A i \in (n + 2)..Len(queue) : queue[i] \in S
    BY <2>3, ElementOfSeq
  <2>5. messageQueue' \in Seq(S)
    BY <2>2, <2>3, <2>4, SubSeqProperties
  <2>6. queue[n + 1] \in S
    <3>1. n + 1 \in 1..Len(queue)
      BY <2>2, <2>3
    <3> QED BY <3>1, ElementOfSeq
  <2> QED BY <1>3, <2>1, <2>2, <2>5, <2>6 DEF QueueTaken, Current, IoStates
<1> QED BY <1>1, <1>2, <1>3
-----------------------------------------------------------------------------
(***************************************************************************)
(* Types, and who owns the socket.  The two are inductive together: a      *)
(* request put on the wire is a request because sendOp is outstanding only *)
(* while currentMessage_ is occupied.                                      *)
(***************************************************************************)
TypeInv == TypeOK /\ ExchangeOwnsSocket

(* MakeResponse answers the current request or nothing. *)
LEMMA MakeResponseType ==
  ASSUME TypeOK, NEW frame \in Frames
  PROVE  /\ MakeResponse(frame) \in Seq([to : Messages, for : Messages])
         /\ AfterMakeResponse(frame) \in {NoMessage, currentMessage}
<1>1. currentMessage # NoMessage => currentMessage.msg \in Messages
  BY DEF TypeOK, Current
<1>2. MakeResponse(frame) \in Seq([to : Messages, for : Messages])
  <2>1. CASE currentMessage # NoMessage
    <3>1. [to |-> currentMessage.msg, for |-> frame.for] \in [to : Messages, for : Messages]
      BY <1>1, <2>1 DEF Frames
    <3>2. << [to |-> currentMessage.msg, for |-> frame.for] >> \in Seq([to : Messages, for : Messages])
      BY <3>1, SingletonSeq
    <3> QED BY <3>2, EmptySeq DEF MakeResponse
  <2>2. CASE currentMessage = NoMessage
    BY <2>2, EmptySeq DEF MakeResponse
  <2> QED BY <2>1, <2>2
<1> QED BY <1>2 DEF AfterMakeResponse

(* The handlers that process the queue keep the queue and the exchange     *)
(* well typed, and start a send only when the socket is free.              *)
LEMMA QueueProcessType ==
  ASSUME ClientAssumption, TypeOK,
         NEW st \in States, NEW S \in SUBSET Messages, NEW queue \in Seq(S),
         NEW current \in Current, NEW conns \in Connects,
         QueueProcessUnsafe(st, queue, current, conns)
  PROVE  /\ state' \in States
         /\ connects' \in Connects
         /\ messageQueue' \in Seq(S)
         /\ currentMessage' \in Current
         /\ tidGen' \in Tids
         /\ sendOp' \in IoStates
         /\ sendOp' # sendOp => current = NoMessage /\ sendOp' = "pending"
         /\ current # NoMessage => currentMessage' = current
         /\ sendOp' # sendOp => currentMessage' # NoMessage
<1>1. /\ state' \in States
      /\ connects' \in Connects
      /\ \/ QueueKept(queue, current)
         \/ QueueExpired(queue, current)
         \/ QueueTaken(queue, current)
  BY QueueOutcome
<1>2. /\ messageQueue' \in Seq(S)
      /\ currentMessage' \in Current
      /\ tidGen' \in Tids
      /\ sendOp' \in IoStates
  BY <1>1, QueueOutcomeType
<1>3. QueueTaken(queue, current) => currentMessage' # NoMessage
  <2> SUFFICES ASSUME QueueTaken(queue, current)
               PROVE  currentMessage' # NoMessage
    OBVIOUS
  <2>1. PICK n \in 0..Len(queue) :
             /\ n < Len(queue)
             /\ currentMessage' = [msg |-> queue[n + 1], id |-> NextTid]
    BY DEF QueueTaken
  <2>2. Len(queue) \in Nat
    BY LenProperties
  <2>3. n + 1 \in 1..Len(queue)
    BY <2>1, <2>2
  <2>4. queue[n + 1] \in Messages
    BY <2>3, ElementOfSeq
  <2> QED BY <2>1, <2>4 DEF NoMessage, ClientAssumption
<1> QED BY <1>1, <1>2, <1>3 DEF QueueKept, QueueExpired, QueueTaken

(* The client starts disconnected, with nothing in exchange. *)
LEMMA TypeInit == ClientAssumption => (Init => TypeInv)
<1> SUFFICES ASSUME ClientAssumption, Init
             PROVE  TypeInv
  OBVIOUS
<1>1. /\ messageQueue \in Seq(1..submitted)
      /\ inbox \in Seq(Frames)
      /\ delivered \in Seq([to : Messages, for : Messages])
  BY EmptySeq DEF Init
<1>2. received \in Frames
  BY DEF Init, NoFrame, Frames, Kinds, ClientAssumption
<1> QED BY <1>1, <1>2 DEF Init, TypeInv, TypeOK, ExchangeOwnsSocket, Current, States, IoStates,
                          Requests, ClientAssumption

(* Every step of the client, its slaves, the server and the network keeps  *)
(* the members well typed and the socket with one exchange.                *)
LEMMA TypeStep == ClientAssumption => (TypeInv /\ [Next]_vars => TypeInv')
<1> SUFFICES ASSUME ClientAssumption, TypeInv, [Next]_vars
             PROVE  TypeInv'
  OBVIOUS
<1> USE DEF TypeInv
<1>q. messageQueue \in Seq(1..submitted) /\ (1..submitted) \in SUBSET Messages
  BY DEF TypeOK
<1>c. connects \in Connects
  BY DEF TypeOK, Connects
<1>a. AbortedConnects(connects) \in Connects
  BY <1>c, AbortedConnectsType
<1>b. /\ Aborted(sendOp) \in IoStates /\ Aborted(recvOp) \in IoStates
      /\ Aborted(sendOp) = "none" <=> sendOp = "none"
      /\ Aborted(recvOp) = "none" <=> recvOp = "none"
  BY DEF Aborted, TypeOK, IoStates
<1>1. CASE MessageProcess
  <2>1. /\ submitted' = submitted + 1 /\ submitted' \in 0..MaxMessages
        /\ (1..submitted') \in SUBSET Messages
    BY <1>1 DEF MessageProcess, TypeOK, ClientAssumption
  <2>2. messageQueue \in Seq(1..submitted')
    BY <1>q, <2>1, SeqMonotone DEF TypeOK
  <2>3. Append(messageQueue, submitted + 1) \in Seq(1..submitted')
    BY <2>1, <2>2, AppendProperties DEF TypeOK
  <2>4. QueueProcessUnsafe(state, Append(messageQueue, submitted + 1), currentMessage, connects)
    BY <1>1 DEF MessageProcess
  <2>5. /\ state' \in States /\ connects' \in Connects
        /\ messageQueue' \in Seq(1..submitted')
        /\ currentMessage' \in Current /\ tidGen' \in Tids /\ sendOp' \in IoStates
        /\ sendOp' # sendOp => currentMessage = NoMessage /\ sendOp' = "pending"
        /\ currentMessage # NoMessage => currentMessage' = currentMessage
        /\ sendOp' # sendOp => currentMessage' # NoMessage
    BY <1>c, <2>1, <2>3, <2>4, QueueProcessType DEF TypeOK
  <2>6. TypeOK'
    BY <1>1, <2>1, <2>5 DEF MessageProcess, TypeOK, Connects, wire, timing
  <2>7. ExchangeOwnsSocket'
    BY <1>1, <2>5 DEF MessageProcess, ExchangeOwnsSocket
  <2> QED BY <2>6, <2>7
<1>2. CASE ConnectFailed
  <2>1. connects' \in Connects
    BY <1>2, <1>c DEF ConnectFailed, Connects
  <2> QED BY <1>2, <2>1 DEF ConnectFailed, TypeOK, Connects, ExchangeOwnsSocket, clock, wire, timing,
                            States
<1>3. CASE ConnectSucceeded
  <2> DEFINE conns == [connects EXCEPT !.ok = @ - 1]
  <2>1. conns \in Connects
    BY <1>3, <1>c DEF ConnectSucceeded, Connects
  <2>2. CASE QueueProcessUnsafe("Connected", messageQueue, currentMessage, conns) /\ UNCHANGED running
    <3>1. /\ state' \in States /\ connects' \in Connects
          /\ messageQueue' \in Seq(1..submitted)
          /\ currentMessage' \in Current /\ tidGen' \in Tids /\ sendOp' \in IoStates
          /\ sendOp' # sendOp => currentMessage = NoMessage /\ sendOp' = "pending"
          /\ currentMessage # NoMessage => currentMessage' = currentMessage
          /\ sendOp' # sendOp => currentMessage' # NoMessage
      <4>1. "Connected" \in States
        BY DEF States
      <4> QED BY <1>q, <2>1, <2>2, <4>1, QueueProcessType DEF TypeOK
    <3>2. TypeOK'
      BY <1>3, <2>2, <3>1 DEF ConnectSucceeded, TypeOK, Connects, clock, wire, timing
    <3>3. ExchangeOwnsSocket'
      BY <1>3, <3>1 DEF ConnectSucceeded, ExchangeOwnsSocket
    <3> QED BY <3>2, <3>3
  <2>3. CASE /\ running' = FALSE /\ state' = "Connected" /\ connects' = conns
             /\ UNCHANGED <<messageQueue, currentMessage, tidGen, sendOp>>
    BY <1>3, <2>1, <2>3 DEF ConnectSucceeded, TypeOK, Connects, ExchangeOwnsSocket, clock, wire,
                            timing, States
  <2> QED BY <1>3, <2>2, <2>3 DEF ConnectSucceeded
<1>4. CASE SendSucceeded
  BY <1>4 DEF SendSucceeded, StartWaitTask, StartReceiveTask, TypeOK, ExchangeOwnsSocket, clock, wire,
              IoStates
<1>5. CASE SendFailed
  <2>1. connects' \in Connects /\ inbox' \in Seq(Frames) /\ atDevice' \subseteq Requests
        /\ link' \in {"down", "up", "broken"} /\ state' \in States
        /\ currentMessage' = NoMessage
    BY <1>5, <1>a, <1>c, EmptySeq DEF SendFailed, AbandonExchange, CloseSocket, TypeOK, States
  <2> QED BY <1>5, <2>1 DEF SendFailed, TypeOK, ExchangeOwnsSocket, Connects, clock, timing, Current,
                            IoStates
<1>6. CASE WaitExpired
  BY <1>6, <1>a, <1>b DEF WaitExpired, TypeOK, ExchangeOwnsSocket, Connects, clock, wire
<1>7. CASE ReceiveSucceeded
  <2>1. /\ MakeResponse(received) \in Seq([to : Messages, for : Messages])
        /\ AfterMakeResponse(received) \in Current
    BY MakeResponseType DEF TypeOK, Current
  <2>2. delivered' \in Seq([to : Messages, for : Messages])
    BY <1>7, <2>1, ConcatProperties DEF ReceiveSucceeded, TypeOK
  <2>3. /\ state' \in States /\ connects' \in Connects
        /\ messageQueue' \in Seq(1..submitted)
        /\ currentMessage' \in Current /\ tidGen' \in Tids /\ sendOp' \in IoStates
        /\ sendOp' # sendOp => currentMessage' # NoMessage
    <3>1. "Connected" \in States
      BY DEF States
    <3>2. QueueProcessUnsafe("Connected", messageQueue, AfterMakeResponse(received), connects)
      BY <1>7 DEF ReceiveSucceeded
    <3> QED BY <1>q, <1>c, <2>1, <3>1, <3>2, QueueProcessType
  <2>4. TypeOK'
    BY <1>7, <2>2, <2>3 DEF ReceiveSucceeded, TypeOK, Connects, clock, wire, IoStates
  <2>5. ExchangeOwnsSocket'
    BY <1>7, <2>3 DEF ReceiveSucceeded, ExchangeOwnsSocket
  <2> QED BY <2>4, <2>5
<1>8. CASE ReceiveFailed
  <2>1. connects' \in Connects /\ inbox' \in Seq(Frames) /\ atDevice' \subseteq Requests
        /\ link' \in {"down", "up", "broken"} /\ state' \in States
        /\ currentMessage' = NoMessage
    BY <1>8, <1>a, <1>c, EmptySeq DEF ReceiveFailed, AbandonExchange, CloseSocket, TypeOK, States
  <2> QED BY <1>8, <2>1 DEF ReceiveFailed, TypeOK, ExchangeOwnsSocket, Connects, clock, timing, Current,
                            IoStates
<1>9. CASE KernelConnects
  <2>1. connects' \in Connects /\ link' \in {"down", "up", "broken"}
    BY <1>9, <1>a, <1>c DEF KernelConnects, TypeOK, Connects
  <2> QED BY <1>9, <2>1 DEF KernelConnects, TypeOK, Connects, ExchangeOwnsSocket, clock, wire, timing
<1>10. CASE KernelSends
  <2>1. [id |-> currentMessage.id, for |-> currentMessage.msg] \in Requests
    BY <1>10 DEF KernelSends, TypeOK, ExchangeOwnsSocket, Current, Requests
  <2>2. atDevice' \subseteq Requests /\ sendOp' \in {"done", "failed"}
    BY <1>10, <2>1 DEF KernelSends, TypeOK
  <2> QED BY <1>10, <2>2 DEF KernelSends, TypeOK, ExchangeOwnsSocket, clock, timing, IoStates
<1>11. CASE KernelReceives
  <2>1. inbox' \in Seq(Frames) /\ received' \in Frames /\ recvOp' \in {"done", "failed"}
    <3>1. CASE inbox' = inbox /\ received' = received /\ recvOp' = "failed"
      BY <3>1 DEF TypeOK
    <3>2. ASSUME NEW n \in 1..Len(inbox),
                 received' = IF n = 1 THEN inbox[1] ELSE [inbox[1] EXCEPT !.kind = "damaged"],
                 inbox' = SubSeq(inbox, n + 1, Len(inbox)),
                 recvOp' = "done"
          PROVE  inbox' \in Seq(Frames) /\ received' \in Frames
      <4>1. Len(inbox) \in Nat /\ 1 \in 1..Len(inbox) /\ inbox \in Seq(Frames)
        BY <3>2, LenProperties DEF TypeOK
      <4>2. inbox[1] \in Frames
        BY <4>1, ElementOfSeq
      <4>3. \A i \in (n + 1)..Len(inbox) : inbox[i] \in Frames
        BY <4>1, ElementOfSeq
      <4>4. inbox' \in Seq(Frames)
        BY <3>2, <4>1, <4>3, SubSeqProperties
      <4> QED BY <3>2, <4>2, <4>4 DEF Frames, Kinds
    <3> QED BY <1>11, <3>1, <3>2 DEF KernelReceives
  <2> QED BY <1>11, <2>1 DEF KernelReceives, TypeOK, ExchangeOwnsSocket, clock, timing, IoStates
<1>12. CASE TimerExpires
  BY <1>12 DEF TimerExpires, TypeOK, ExchangeOwnsSocket, clock, wire
<1>13. CASE TimePasses
  BY <1>13 DEF TimePasses, TypeOK, ExchangeOwnsSocket, wire, timing
<1>14. CASE DeviceAnswers
  <2>1. PICK r \in atDevice :
          LET segment(kind) == [kind |-> kind, id |-> r.id, for |-> r.for]
          IN /\ atDevice' = atDevice \ {r}
             /\ inbox' \in { Append(inbox, segment("whole")),
                             Append(inbox, segment("damaged")),
                             inbox \o <<segment("damaged"), segment("damaged")>>,
                             inbox \o <<segment("short"), segment("damaged")>> }
    BY <1>14 DEF DeviceAnswers
  <2> DEFINE segment(kind) == [kind |-> kind, id |-> r.id, for |-> r.for]
  <2>2. \A kind \in Kinds : segment(kind) \in Frames
    BY DEF TypeOK, Requests, Frames
  <2>3. /\ <<segment("damaged"), segment("damaged")>> \in Seq(Frames)
        /\ <<segment("short"), segment("damaged")>> \in Seq(Frames)
        /\ segment("whole") \in Frames /\ segment("damaged") \in Frames
    BY <2>2 DEF Kinds
  <2> HIDE DEF segment
  <2>4. inbox \in Seq(Frames)
    BY DEF TypeOK
  <2>5. inbox' \in { Append(inbox, segment("whole")),
                     Append(inbox, segment("damaged")),
                     inbox \o <<segment("damaged"), segment("damaged")>>,
                     inbox \o <<segment("short"), segment("damaged")>> }
    BY <2>1 DEF segment
  <2>6. inbox' \in Seq(Frames)
    <3>1. /\ Append(inbox, segment("whole")) \in Seq(Frames)
          /\ Append(inbox, segment("damaged")) \in Seq(Frames)
      BY <2>3, <2>4, AppendProperties
    <3>2. /\ inbox \o <<segment("damaged"), segment("damaged")>> \in Seq(Frames)
          /\ inbox \o <<segment("short"), segment("damaged")>> \in Seq(Frames)
      BY <2>3, <2>4, ConcatProperties
    <3> QED BY <2>5, <3>1, <3>2
  <2> QED BY <1>14, <2>1, <2>6 DEF DeviceAnswers, TypeOK, ExchangeOwnsSocket, clock, timing
<1>15. CASE LinkBreaks
  <2>1. inbox' \in Seq(Frames)
    BY <1>15, EmptySeq DEF LinkBreaks, TypeOK
  <2> QED BY <1>15, <2>1 DEF LinkBreaks, TypeOK, ExchangeOwnsSocket, clock, timing
<1>16. CASE UNCHANGED vars
  BY <1>16 DEF vars, TypeOK, ExchangeOwnsSocket
<1> QED
  BY <1>1, <1>2, <1>3, <1>4, <1>5, <1>6, <1>7, <1>8, <1>9, <1>10, <1>11, <1>12, <1>13, <1>14, <1>15,
     <1>16 DEF Next, Handlers, Kernel, Environment

(* In every reachable state the members and the socket have the values the *)
(* model gives them a meaning for.                                         *)
THEOREM TypeCorrect == ClientAssumption => (Spec => []TypeOK)
<1> SUFFICES ASSUME ClientAssumption
             PROVE  Spec => []TypeOK
  OBVIOUS
<1>1. TypeInv => TypeOK
  BY DEF TypeInv
<1> QED BY TypeInit, TypeStep, <1>1, PTL DEF Spec

(* The socket belongs to one exchange at a time, however many connect      *)
(* handlers are still to come.                                             *)
THEOREM SocketOwned == ClientAssumption => (Spec => []ExchangeOwnsSocket)
<1> SUFFICES ASSUME ClientAssumption
             PROVE  Spec => []ExchangeOwnsSocket
  OBVIOUS
<1>1. TypeInv => ExchangeOwnsSocket
  BY DEF TypeInv
<1> QED BY TypeInit, TypeStep, <1>1, PTL DEF Spec
-----------------------------------------------------------------------------
(***************************************************************************)
(* Answers go where they belong, as long as the transaction ids do not     *)
(* wrap.  A late answer of an abandoned exchange may sit in the connection *)
(* for any length of time, so that the invariant is about every request    *)
(* and every frame still in it: its id has been used, and if it is the id  *)
(* of the exchange in progress then it belongs to that exchange.           *)
(***************************************************************************)
Belongs(id, for, tid, cur) ==
  /\ id <= tid
  /\ cur # NoMessage /\ id = cur.id => for = cur.msg

StillBelongs ==
  \A id \in Tids, for \in Messages :
    Belongs(id, for, tidGen, currentMessage) => Belongs(id, for, tidGen', currentMessage')

CurrentHasLatestId ==
  currentMessage # NoMessage => currentMessage.id = tidGen /\ tidGen >= 1

InFlightBelongs ==
  /\ \A r \in atDevice : Belongs(r.id, r.for, tidGen, currentMessage)
  /\ \A i \in 1..Len(inbox) : Belongs(inbox[i].id, inbox[i].for, tidGen, currentMessage)
  /\ Belongs(received.id, received.for, tidGen, currentMessage)

IdInv ==
  /\ tidGen + Len(messageQueue) <= submitted
  /\ CurrentHasLatestId
  /\ InFlightBelongs
  /\ AnswerMatches

NoWrap == MaxMessages < TidMod

(* A call of QueueProcessUnsafe gives out ids in step with the requests it *)
(* takes, and what is in flight still belongs where it did.                *)
LEMMA QueueProcessIds ==
  ASSUME ClientAssumption, NoWrap, TypeOK, CurrentHasLatestId,
         NEW st \in States, NEW S \in SUBSET Messages, NEW queue \in Seq(S),
         NEW current \in {NoMessage, currentMessage}, NEW conns \in Connects,
         tidGen + Len(queue) <= MaxMessages,
         QueueProcessUnsafe(st, queue, current, conns)
  PROVE  /\ tidGen' + Len(messageQueue') <= tidGen + Len(queue)
         /\ CurrentHasLatestId'
         /\ StillBelongs
<1>1. \/ QueueKept(queue, current)
      \/ QueueExpired(queue, current)
      \/ QueueTaken(queue, current)
  BY QueueOutcome
<1>2. Len(queue) \in Nat /\ tidGen \in Nat /\ TidMod \in Nat /\ MaxMessages \in Nat
  BY LenProperties DEF TypeOK, ClientAssumption
<1>3. CASE QueueKept(queue, current)
  BY <1>2, <1>3 DEF QueueKept, CurrentHasLatestId, StillBelongs, Belongs
<1>4. CASE QueueExpired(queue, current)
  <2>1. Len(messageQueue') = 0
    BY <1>4 DEF QueueExpired
  <2> QED BY <1>2, <1>4, <2>1 DEF QueueExpired, CurrentHasLatestId, StillBelongs, Belongs
<1>5. CASE QueueTaken(queue, current)
  <2>1. PICK n \in 0..Len(queue) :
             /\ n < Len(queue)
             /\ currentMessage' = [msg |-> queue[n + 1], id |-> NextTid]
             /\ messageQueue' = SubSeq(queue, n + 2, Len(queue))
    BY <1>5 DEF QueueTaken
  <2>2. n \in Nat /\ tidGen + 1 < TidMod
    BY <1>2, <2>1 DEF NoWrap
  <2>3. NextTid = tidGen + 1
    BY <1>2, <2>2 DEF NextTid
  <2>4. Len(messageQueue') <= Len(queue) - 1
    <3>1. \A i \in (n + 2)..Len(queue) : queue[i] \in S
      BY <1>2, <2>2, ElementOfSeq
    <3>2. Len(messageQueue') = IF n + 2 <= Len(queue) THEN Len(queue) - (n + 2) + 1 ELSE 0
      BY <1>2, <2>1, <2>2, <3>1, SubSeqProperties
    <3> QED BY <1>2, <2>1, <2>2, <3>2
  <2>5. tidGen' = tidGen + 1 /\ currentMessage'.id = tidGen + 1
    BY <1>5, <2>1, <2>3 DEF QueueTaken
  <2>6. Len(messageQueue') \in Nat
    <3>1. \A i \in (n + 2)..Len(queue) : queue[i] \in S
      BY <1>2, <2>2, ElementOfSeq
    <3> QED BY <1>2, <2>1, <2>2, <3>1, SubSeqProperties
  <2> QED BY <1>2, <2>4, <2>5, <2>6 DEF CurrentHasLatestId, StillBelongs, Belongs
<1> QED BY <1>1, <1>3, <1>4, <1>5

(* No id has been given out. *)
LEMMA IdInit == ClientAssumption => (Init => IdInv)
<1> SUFFICES ASSUME ClientAssumption, Init
             PROVE  IdInv
  OBVIOUS
<1> QED BY DEF Init, IdInv, CurrentHasLatestId, InFlightBelongs, Belongs, AnswerMatches, NoFrame,
               ClientAssumption

(* A step that leaves the ids, the queue and the exchange alone, or ends   *)
(* the exchange, keeps what is in flight in order.                         *)
LEMMA IdsUndisturbed ==
  ASSUME TypeOK, CurrentHasLatestId, tidGen' = tidGen, currentMessage' \in {NoMessage, currentMessage}
  PROVE  /\ CurrentHasLatestId'
         /\ StillBelongs
BY DEF CurrentHasLatestId, StillBelongs, Belongs

(* The frames and requests in flight have well typed ids. *)
LEMMA InFlightTyped ==
  ASSUME TypeOK
  PROVE  /\ \A r \in atDevice : r.id \in Tids /\ r.for \in Messages
         /\ \A i \in 1..Len(inbox) : inbox[i] \in Frames /\ inbox[i].id \in Tids /\ inbox[i].for \in Messages
         /\ received.id \in Tids /\ received.for \in Messages
<1>1. \A i \in 1..Len(inbox) : inbox[i] \in Frames
  BY ElementOfSeq DEF TypeOK
<1> QED BY <1>1 DEF TypeOK, Requests, Frames

(* What is on its way in either direction keeps belonging to its request   *)
(* in a step that keeps the pairs given out and puts nothing on the wire.  *)
LEMMA InFlightKept ==
  ASSUME TypeOK, InFlightBelongs,
         StillBelongs,
         atDevice' \in {atDevice, {}}, inbox' \in {inbox, <<>>}, received' = received
  PROVE  InFlightBelongs'
<1>1. \A r \in atDevice : Belongs(r.id, r.for, tidGen', currentMessage')
  BY InFlightTyped DEF InFlightBelongs, StillBelongs
<1>2. \A i \in 1..Len(inbox) :
        Belongs(inbox[i].id, inbox[i].for, tidGen', currentMessage')
  BY InFlightTyped DEF InFlightBelongs, StillBelongs
<1>3. Belongs(received.id, received.for, tidGen', currentMessage')
  BY InFlightTyped DEF InFlightBelongs, StillBelongs
<1>4. \A i \in 1..Len(inbox') :
        Belongs(inbox'[i].id, inbox'[i].for, tidGen', currentMessage')
  <2>1. CASE inbox' = inbox
    BY <1>2, <2>1
  <2>2. CASE inbox' = <<>>
    BY <2>2
  <2> QED BY <2>1, <2>2
<1> QED BY <1>1, <1>3, <1>4 DEF InFlightBelongs

(* A step that starts no exchange, delivers nothing and puts nothing new   *)
(* on the wire preserves the invariant.                                    *)
LEMMA IdQuiet ==
  ASSUME TypeOK, IdInv,
         tidGen' = tidGen, currentMessage' \in {NoMessage, currentMessage},
         messageQueue' = messageQueue, submitted' = submitted, delivered' = delivered,
         atDevice' \in {atDevice, {}}, inbox' \in {inbox, <<>>}, received' = received
  PROVE  IdInv'
<1>1. CurrentHasLatestId' /\ StillBelongs
  BY IdsUndisturbed DEF IdInv
<1>2. InFlightBelongs'
  BY <1>1, InFlightKept DEF IdInv
<1> QED BY <1>1, <1>2 DEF IdInv, AnswerMatches

(* An answer that MakeResponse lets through is the current request's.      *)
LEMMA ResponseMatches ==
  ASSUME TypeOK, CurrentHasLatestId, InFlightBelongs, AnswerMatches,
         delivered' = delivered \o MakeResponse(received)
  PROVE  AnswerMatches'
<1>1. \A i \in 1..Len(MakeResponse(received)) :
        MakeResponse(received)[i].to = MakeResponse(received)[i].for
  <2>1. Belongs(received.id, received.for, tidGen, currentMessage)
    BY DEF InFlightBelongs
  <2>2. CASE /\ currentMessage # NoMessage
             /\ received.kind = "whole"
             /\ received.id = currentMessage.id
    <3>1. received.for = currentMessage.msg
      BY <2>1, <2>2 DEF Belongs
    <3>2. MakeResponse(received) = << [to |-> currentMessage.msg, for |-> received.for] >>
      BY <2>2 DEF MakeResponse
    <3> QED BY <3>1, <3>2
  <2>3. CASE MakeResponse(received) = <<>>
    BY <2>3
  <2> QED BY <2>2, <2>3 DEF MakeResponse
<1>2. MakeResponse(received) \in Seq([to : Messages, for : Messages])
  BY MakeResponseType DEF TypeOK
<1>3. delivered \in Seq([to : Messages, for : Messages])
  BY DEF TypeOK
<1>4. /\ Len(delivered') = Len(delivered) + Len(MakeResponse(received))
      /\ \A i \in 1..Len(delivered) + Len(MakeResponse(received)) :
           delivered'[i] = IF i <= Len(delivered) THEN delivered[i]
                           ELSE MakeResponse(received)[i - Len(delivered)]
  BY <1>2, <1>3, ConcatProperties
<1>5. Len(delivered) \in Nat /\ Len(MakeResponse(received)) \in Nat
  BY <1>2, <1>3, LenProperties
<1> SUFFICES ASSUME NEW i \in 1..Len(delivered')
             PROVE  delivered'[i].to = delivered'[i].for
  BY DEF AnswerMatches
<1>6. CASE i <= Len(delivered)
  BY <1>4, <1>5, <1>6 DEF AnswerMatches
<1>7. CASE i > Len(delivered)
  <2>1. i - Len(delivered) \in 1..Len(MakeResponse(received))
    BY <1>4, <1>5, <1>7
  <2> QED BY <1>1, <1>4, <1>5, <1>7, <2>1
<1> QED BY <1>5, <1>6, <1>7

(* Every step keeps each id with the request it was given to. *)
LEMMA IdStep ==
  ClientAssumption /\ NoWrap => (TypeInv /\ IdInv /\ [Next]_vars => IdInv')
<1> SUFFICES ASSUME ClientAssumption, NoWrap, TypeInv, IdInv, [Next]_vars
             PROVE  IdInv'
  OBVIOUS
<1>t. TypeOK /\ ExchangeOwnsSocket /\ messageQueue \in Seq(1..submitted)
      /\ (1..submitted) \in SUBSET Messages /\ connects \in Connects
      /\ Len(messageQueue) \in Nat /\ tidGen \in Nat /\ submitted \in 0..MaxMessages
  BY LenProperties DEF TypeInv, TypeOK, Connects
<1>i. /\ tidGen + Len(messageQueue) <= submitted
      /\ CurrentHasLatestId
      /\ InFlightBelongs
      /\ AnswerMatches
  BY DEF IdInv
<1>m. MaxMessages \in Nat
  BY DEF ClientAssumption
<1>1. CASE MessageProcess
  <2>1. submitted' = submitted + 1 /\ submitted' \in 0..MaxMessages /\ (1..submitted') \in SUBSET Messages
    BY <1>1, <1>t, <1>m DEF MessageProcess
  <2>2. messageQueue \in Seq(1..submitted')
    BY <1>t, <2>1, SeqMonotone
  <2>3. /\ Append(messageQueue, submitted + 1) \in Seq(1..submitted')
        /\ Len(Append(messageQueue, submitted + 1)) = Len(messageQueue) + 1
    BY <1>t, <2>1, <2>2, AppendProperties
  <2>4. /\ QueueProcessUnsafe(state, Append(messageQueue, submitted + 1), currentMessage, connects)
        /\ atDevice' = atDevice /\ inbox' = inbox /\ received' = received /\ delivered' = delivered
    BY <1>1 DEF MessageProcess, wire
  <2>5. tidGen + Len(Append(messageQueue, submitted + 1)) <= MaxMessages
    BY <1>t, <1>i, <1>m, <2>1, <2>3
  <2>6. /\ tidGen' + Len(messageQueue') <= tidGen + Len(Append(messageQueue, submitted + 1))
        /\ CurrentHasLatestId' /\ StillBelongs
    BY <1>t, <1>i, <2>1, <2>3, <2>4, <2>5, QueueProcessIds DEF TypeOK
  <2>7. tidGen' + Len(messageQueue') <= submitted'
    <3>1. messageQueue' \in Seq(1..submitted') /\ tidGen' \in Tids
      BY <1>t, <2>1, <2>3, <2>4, QueueProcessType DEF TypeOK
    <3>2. Len(messageQueue') \in Nat /\ tidGen' \in Nat
      BY <3>1, LenProperties
    <3> QED BY <1>t, <1>i, <1>m, <2>1, <2>3, <2>6, <3>2
  <2>8. InFlightBelongs'
    BY <1>t, <1>i, <2>4, <2>6, InFlightKept
  <2> QED BY <1>i, <2>4, <2>6, <2>7, <2>8 DEF IdInv, AnswerMatches
<1>2. CASE ConnectFailed
  BY <1>2, <1>t, IdQuiet DEF ConnectFailed, clock, wire
<1>3. CASE ConnectSucceeded
  <2> DEFINE conns == [connects EXCEPT !.ok = @ - 1]
  <2>1. conns \in Connects
    BY <1>3, <1>t, SMTT(40) DEF ConnectSucceeded, Connects
  <2>2. atDevice' = atDevice /\ inbox' = inbox /\ received' = received /\ delivered' = delivered
        /\ submitted' = submitted
    BY <1>3 DEF ConnectSucceeded, clock, wire
  <2>3. CASE QueueProcessUnsafe("Connected", messageQueue, currentMessage, conns)
    <3>1. "Connected" \in States
      BY DEF States
    <3>2. tidGen + Len(messageQueue) <= MaxMessages
      BY <1>t, <1>i, <1>m
    <3>3. /\ tidGen' + Len(messageQueue') <= tidGen + Len(messageQueue)
          /\ CurrentHasLatestId' /\ StillBelongs
      BY <1>t, <1>i, <2>1, <2>3, <3>1, <3>2, QueueProcessIds
    <3>4. messageQueue' \in Seq(1..submitted) /\ tidGen' \in Tids
      BY <1>t, <2>1, <2>3, <3>1, QueueProcessType DEF TypeOK
    <3>5. Len(messageQueue') \in Nat /\ tidGen' \in Nat
      BY <3>4, LenProperties
    <3>6. tidGen' + Len(messageQueue') <= submitted'
      BY <1>t, <1>i, <1>m, <2>2, <3>3, <3>5
    <3>7. InFlightBelongs'
      BY <1>t, <1>i, <2>2, <3>3, InFlightKept
    <3> QED BY <1>i, <2>2, <3>3, <3>6, <3>7 DEF IdInv, AnswerMatches
  <2>4. CASE UNCHANGED <<messageQueue, currentMessage, tidGen, sendOp>>
    BY <1>t, <2>2, <2>4, IdQuiet
  <2> QED BY <1>3, <2>3, <2>4 DEF ConnectSucceeded
<1>4. CASE SendSucceeded
  BY <1>4, <1>t, IdQuiet DEF SendSucceeded, clock, wire
<1>5. CASE SendFailed
  BY <1>5, <1>t, IdQuiet DEF SendFailed, AbandonExchange, CloseSocket, clock
<1>6. CASE WaitExpired
  BY <1>6, <1>t, IdQuiet DEF WaitExpired, clock, wire
<1>7. CASE ReceiveSucceeded
  <2>1. atDevice' = atDevice /\ inbox' = inbox /\ received' = received /\ submitted' = submitted
    BY <1>7 DEF ReceiveSucceeded, clock, wire
  <2>2. AfterMakeResponse(received) \in {NoMessage, currentMessage}
    BY DEF AfterMakeResponse
  <2>3. AnswerMatches'
    BY <1>7, <1>t, <1>i, ResponseMatches DEF ReceiveSucceeded
  <2>4. QueueProcessUnsafe("Connected", messageQueue, AfterMakeResponse(received), connects)
    BY <1>7 DEF ReceiveSucceeded
  <2>5. "Connected" \in States
    BY DEF States
  <2>6. tidGen + Len(messageQueue) <= MaxMessages
    BY <1>t, <1>i, <1>m
  <2>7. /\ tidGen' + Len(messageQueue') <= tidGen + Len(messageQueue)
        /\ CurrentHasLatestId' /\ StillBelongs
    BY <1>t, <1>i, <2>2, <2>4, <2>5, <2>6, QueueProcessIds
  <2>8. messageQueue' \in Seq(1..submitted) /\ tidGen' \in Tids
    <3>1. AfterMakeResponse(received) \in Current
      BY <1>t, <2>2 DEF TypeOK, Current
    <3> QED BY <1>t, <2>4, <2>5, <3>1, QueueProcessType
  <2>9. Len(messageQueue') \in Nat /\ tidGen' \in Nat
    BY <2>8, LenProperties
  <2>10. tidGen' + Len(messageQueue') <= submitted'
    BY <1>t, <1>i, <1>m, <2>1, <2>7, <2>9
  <2>11. InFlightBelongs'
    BY <1>t, <1>i, <2>1, <2>7, InFlightKept
  <2> QED BY <2>3, <2>7, <2>10, <2>11 DEF IdInv
<1>8. CASE ReceiveFailed
  BY <1>8, <1>t, IdQuiet DEF ReceiveFailed, AbandonExchange, CloseSocket, clock
<1>9. CASE KernelConnects
  BY <1>9, <1>t, IdQuiet DEF KernelConnects, clock, wire
<1>10. CASE KernelSends
  <2>1. /\ tidGen' = tidGen /\ currentMessage' = currentMessage /\ messageQueue' = messageQueue
        /\ submitted' = submitted /\ delivered' = delivered /\ inbox' = inbox /\ received' = received
    BY <1>10 DEF KernelSends, clock
  <2>2. atDevice' \in {atDevice, atDevice \cup {[id |-> currentMessage.id, for |-> currentMessage.msg]}}
    BY <1>10 DEF KernelSends
  <2>3. currentMessage.id = tidGen
    BY <1>10, <1>t, <1>i DEF KernelSends, ExchangeOwnsSocket, CurrentHasLatestId
  <2>4. Belongs(currentMessage.id, currentMessage.msg, tidGen, currentMessage)
    BY <1>t, <2>3 DEF Belongs
  <2>5. \A r \in atDevice' : Belongs(r.id, r.for, tidGen, currentMessage)
    BY <1>i, <2>2, <2>4 DEF InFlightBelongs
  <2>6. InFlightBelongs'
    BY <1>i, <2>1, <2>5 DEF InFlightBelongs
  <2> QED BY <1>i, <2>1, <2>6 DEF IdInv, CurrentHasLatestId, AnswerMatches
<1>11. CASE KernelReceives
  <2>1. /\ tidGen' = tidGen /\ currentMessage' = currentMessage /\ messageQueue' = messageQueue
        /\ submitted' = submitted /\ delivered' = delivered /\ atDevice' = atDevice
    BY <1>11 DEF KernelReceives, clock
  <2>2. CASE inbox' = inbox /\ received' = received
    BY <1>t, <2>1, <2>2, IdQuiet
  <2>3. ASSUME NEW n \in 1..Len(inbox),
               received' = IF n = 1 THEN inbox[1] ELSE [inbox[1] EXCEPT !.kind = "damaged"],
               inbox' = SubSeq(inbox, n + 1, Len(inbox))
        PROVE  InFlightBelongs'
    <3>1. Len(inbox) \in Nat /\ 1 \in 1..Len(inbox) /\ inbox \in Seq(Frames)
      BY <1>t, <2>3, LenProperties DEF TypeOK
    <3>2. inbox[1] \in Frames /\ Belongs(inbox[1].id, inbox[1].for, tidGen, currentMessage)
      BY <1>i, <3>1, ElementOfSeq DEF InFlightBelongs
    <3>3. received'.id = inbox[1].id /\ received'.for = inbox[1].for
      BY <2>3, <3>2 DEF Frames
    <3>4. Belongs(received'.id, received'.for, tidGen', currentMessage')
      BY <2>1, <3>2, <3>3
    <3>5. \A i \in (n + 1)..Len(inbox) : inbox[i] \in Frames
      BY <3>1, ElementOfSeq
    <3>6. /\ Len(inbox') = IF n + 1 <= Len(inbox) THEN Len(inbox) - (n + 1) + 1 ELSE 0
          /\ \A i \in 1..(Len(inbox) - (n + 1) + 1) : inbox'[i] = inbox[n + 1 + i - 1]
      <4>1. inbox' = SubSeq(inbox, n + 1, Len(inbox)) /\ n + 1 \in Int /\ Len(inbox) \in Int
        BY <2>3, <3>1
      <4>2. /\ Len(SubSeq(inbox, n + 1, Len(inbox)))
                 = IF n + 1 <= Len(inbox) THEN Len(inbox) - (n + 1) + 1 ELSE 0
            /\ \A i \in 1..(Len(inbox) - (n + 1) + 1) :
                 SubSeq(inbox, n + 1, Len(inbox))[i] = inbox[n + 1 + i - 1]
        BY <3>5, <4>1, SubSeqProperties
      <4> QED BY <4>1, <4>2
    <3>7. \A i \in 1..Len(inbox') : i + n \in 1..Len(inbox) /\ inbox'[i] = inbox[i + n]
      <4>1. n \in Nat /\ n <= Len(inbox) /\ n >= 1
        BY <3>1
      <4> QED BY <3>1, <3>6, <4>1
    <3>8. \A i \in 1..Len(inbox') : Belongs(inbox'[i].id, inbox'[i].for, tidGen', currentMessage')
      BY <1>i, <2>1, <3>7 DEF InFlightBelongs
    <3> QED BY <1>i, <2>1, <3>4, <3>8 DEF InFlightBelongs
  <2>4. InFlightBelongs' \/ (inbox' = inbox /\ received' = received)
    BY <1>11, <2>3 DEF KernelReceives
  <2> QED BY <1>i, <2>1, <2>2, <2>4 DEF IdInv, CurrentHasLatestId, AnswerMatches
<1>12. CASE TimerExpires
  BY <1>12, <1>t, IdQuiet DEF TimerExpires, clock, wire
<1>13. CASE TimePasses
  BY <1>13, <1>t, IdQuiet DEF TimePasses, wire
<1>14. CASE DeviceAnswers
  <2>1. PICK r \in atDevice :
          LET segment(kind) == [kind |-> kind, id |-> r.id, for |-> r.for]
          IN /\ atDevice' = atDevice \ {r}
             /\ inbox' \in { Append(inbox, segment("whole")),
                             Append(inbox, segment("damaged")),
                             inbox \o <<segment("damaged"), segment("damaged")>>,
                             inbox \o <<segment("short"), segment("damaged")>> }
    BY <1>14 DEF DeviceAnswers
  <2>2. /\ tidGen' = tidGen /\ currentMessage' = currentMessage /\ messageQueue' = messageQueue
        /\ submitted' = submitted /\ delivered' = delivered /\ received' = received
    BY <1>14 DEF DeviceAnswers, clock
  <2>3. Belongs(r.id, r.for, tidGen, currentMessage)
    BY <1>i DEF InFlightBelongs
  <2> DEFINE segment(kind) == [kind |-> kind, id |-> r.id, for |-> r.for]
  <2>4. PICK tail \in Seq(Frames) :
          /\ inbox' = inbox \o tail
          /\ \A i \in 1..Len(tail) : tail[i].id = r.id /\ tail[i].for = r.for
    <3>1. \A kind \in Kinds : segment(kind) \in Frames
      BY <1>t DEF TypeOK, Requests, Frames
    <3>2. inbox \in Seq(Frames)
      BY <1>t DEF TypeOK
    <3>3. \A kind \in Kinds : Append(inbox, segment(kind)) = inbox \o <<segment(kind)>>
      BY <3>1, <3>2, AppendIsConcat
    <3>4. ASSUME NEW kind \in Kinds
          PROVE  /\ <<segment(kind)>> \in Seq(Frames)
                 /\ \A i \in 1..Len(<<segment(kind)>>) :
                      <<segment(kind)>>[i].id = r.id /\ <<segment(kind)>>[i].for = r.for
      BY <3>1
    <3>5. ASSUME NEW kind \in Kinds
          PROVE  /\ <<segment(kind), segment("damaged")>> \in Seq(Frames)
                 /\ \A i \in 1..Len(<<segment(kind), segment("damaged")>>) :
                      /\ <<segment(kind), segment("damaged")>>[i].id = r.id
                      /\ <<segment(kind), segment("damaged")>>[i].for = r.for
      BY <3>1 DEF Kinds
    <3>6. "whole" \in Kinds /\ "damaged" \in Kinds /\ "short" \in Kinds
      BY DEF Kinds
    <3>7. \/ inbox' = inbox \o <<segment("whole")>>
          \/ inbox' = inbox \o <<segment("damaged")>>
          \/ inbox' = inbox \o <<segment("damaged"), segment("damaged")>>
          \/ inbox' = inbox \o <<segment("short"), segment("damaged")>>
      BY <2>1, <3>3, <3>6
    <3> HIDE DEF segment
    <3> QED BY <3>4, <3>5, <3>6, <3>7
  <2>5. inbox \in Seq(Frames) /\ Len(inbox) \in Nat /\ Len(tail) \in Nat
    BY <1>t, <2>4, LenProperties DEF TypeOK
  <2>6. /\ Len(inbox') = Len(inbox) + Len(tail)
        /\ \A i \in 1..(Len(inbox) + Len(tail)) :
             inbox'[i] = IF i <= Len(inbox) THEN inbox[i] ELSE tail[i - Len(inbox)]
    BY <2>4, <2>5, ConcatProperties
  <2>7. \A i \in 1..Len(inbox') : Belongs(inbox'[i].id, inbox'[i].for, tidGen, currentMessage)
    <3> SUFFICES ASSUME NEW i \in 1..Len(inbox')
                 PROVE  Belongs(inbox'[i].id, inbox'[i].for, tidGen, currentMessage)
      OBVIOUS
    <3>1. CASE i <= Len(inbox)
      BY <1>i, <2>5, <2>6, <3>1 DEF InFlightBelongs
    <3>2. CASE i > Len(inbox)
      <4>1. i - Len(inbox) \in 1..Len(tail) /\ inbox'[i] = tail[i - Len(inbox)]
        BY <2>5, <2>6, <3>2
      <4> QED BY <2>3, <2>4, <4>1
    <3> QED BY <2>5, <2>6, <3>1, <3>2
  <2>8. InFlightBelongs'
    BY <1>i, <2>1, <2>2, <2>7 DEF InFlightBelongs
  <2> QED BY <1>i, <2>2, <2>8 DEF IdInv, CurrentHasLatestId, AnswerMatches
<1>15. CASE LinkBreaks
  BY <1>15, <1>t, IdQuiet DEF LinkBreaks, clock
<1>16. CASE UNCHANGED vars
  BY <1>16, <1>t, IdQuiet DEF vars
<1> QED
  BY <1>1, <1>2, <1>3, <1>4, <1>5, <1>6, <1>7, <1>8, <1>9, <1>10, <1>11, <1>12, <1>13, <1>14, <1>15,
     <1>16 DEF Next, Handlers, Kernel, Environment

(* Whatever is late, spoilt, lost or abandoned, an answer is delivered to  *)
(* the slave whose request it answers, as long as there are fewer requests *)
(* than transaction ids.                                                   *)
THEOREM AnswersMatch == ClientAssumption /\ NoWrap => (Spec => []AnswerMatches)
<1> SUFFICES ASSUME ClientAssumption, NoWrap
             PROVE  Spec => []AnswerMatches
  OBVIOUS
<1>1. IdInv => AnswerMatches
  BY DEF IdInv
<1> QED BY TypeInit, TypeStep, IdInit, IdStep, <1>1, PTL DEF Spec
-----------------------------------------------------------------------------
(***************************************************************************)
(* The socket is open whenever state_ says so.  The strengthening: it is   *)
(* open, too, as long as an operation of an exchange is outstanding, whose *)
(* handler goes back to Connected without looking.                         *)
(***************************************************************************)
SocketInv ==
  /\ ConnectedHasSocket
  /\ sendOp # "none" \/ recvOp # "none" => link # "down"

(* QueueProcessUnsafe leaves state_ as it is or finds it Connected, and    *)
(* only then starts a send.                                                *)
LEMMA QueueState ==
  ASSUME NEW st, NEW queue, NEW current, NEW conns,
         QueueProcessUnsafe(st, queue, current, conns)
  PROVE  /\ state' = "Idle" => st = "Idle"
         /\ st = "Idle" => state' = "Idle"
         /\ sendOp' # sendOp => st = "Connected"
<1>1. CASE queue = <<>> \/ st \in {"WaitConnect", "MessageProcess"}
  BY <1>1 DEF QueueProcessUnsafe, StartMessageTaskUnsafe, TakeNext
<1>2. CASE queue # <<>> /\ st = "Idle"
  BY <1>2 DEF QueueProcessUnsafe
<1>3. CASE queue # <<>> /\ st = "Connected"
  BY <1>3 DEF QueueProcessUnsafe, StartMessageTaskUnsafe, TakeNext
<1> QED BY <1>1, <1>2, <1>3 DEF QueueProcessUnsafe

LEMMA SocketStep ==
  ASSUME TypeInv, SocketInv, [Next]_vars
  PROVE  SocketInv'
<1> USE DEF SocketInv, ConnectedHasSocket, clock, wire, timing
<1>0. sendOp = "none" \/ recvOp = "none"
  BY DEF TypeInv, ExchangeOwnsSocket
<1>1. CASE MessageProcess
  <2>1. /\ QueueProcessUnsafe(state, Append(messageQueue, submitted + 1), currentMessage, connects)
        /\ running /\ UNCHANGED <<link, recvOp, running>>
    BY <1>1 DEF MessageProcess
  <2> QED BY <2>1, QueueState
<1>2. CASE ConnectFailed
  BY <1>2 DEF ConnectFailed
<1>3. CASE ConnectSucceeded
  <2>1. UNCHANGED <<link, recvOp>>
    BY <1>3 DEF ConnectSucceeded
  <2>2. \/ /\ link # "down"
           /\ QueueProcessUnsafe("Connected", messageQueue, currentMessage,
                                 [connects EXCEPT !.ok = @ - 1])
        \/ running' = FALSE /\ UNCHANGED sendOp
    BY <1>3 DEF ConnectSucceeded
  <2> QED BY <2>1, <2>2
<1>4. CASE SendSucceeded
  BY <1>4 DEF SendSucceeded, StartReceiveTask
<1>5. CASE SendFailed
  BY <1>0, <1>5 DEF SendFailed, AbandonExchange, CloseSocket
<1>6. CASE ReceiveSucceeded
  <2>1. /\ QueueProcessUnsafe("Connected", messageQueue, AfterMakeResponse(received), connects)
        /\ link # "down" /\ link' = link
    BY <1>6 DEF ReceiveSucceeded
  <2> QED BY <2>1
<1>7. CASE ReceiveFailed
  BY <1>0, <1>7 DEF ReceiveFailed, AbandonExchange, CloseSocket
<1>8. CASE WaitExpired
  BY <1>8 DEF WaitExpired, Aborted
<1>9. CASE KernelConnects
  BY <1>9 DEF KernelConnects
<1>10. CASE KernelSends
  BY <1>10 DEF KernelSends
<1>11. CASE KernelReceives
  BY <1>11 DEF KernelReceives
<1>12. CASE LinkBreaks
  BY <1>12 DEF LinkBreaks
<1>13. CASE TimerExpires \/ TimePasses \/ DeviceAnswers \/ UNCHANGED vars
  BY <1>13 DEF TimerExpires, TimePasses, DeviceAnswers, vars
<1> QED BY <1>1, <1>2, <1>3, <1>4, <1>5, <1>6, <1>7, <1>8, <1>9, <1>10, <1>11, <1>12,
           <1>13 DEF Next, Handlers, Kernel, Environment

(* A request is never sent on a closed socket, however the failures of the *)
(* connection, stale connects and exchanges interleave.                    *)
THEOREM SocketOpenWhenConnected == ClientAssumption => (Spec => []ConnectedHasSocket)
<1> SUFFICES ASSUME ClientAssumption
             PROVE  Spec => []ConnectedHasSocket
  OBVIOUS
<1>1. Init => SocketInv
  BY DEF Init, SocketInv, ConnectedHasSocket
<1>2. SocketInv => ConnectedHasSocket
  BY DEF SocketInv
<1> QED BY TypeInit, TypeStep, SocketStep, <1>1, <1>2, PTL DEF Spec
-----------------------------------------------------------------------------
(***************************************************************************)
(* What becomes of the queue.                                              *)
(***************************************************************************)
LEMMA WedgedStep ==
  ASSUME ClientAssumption, TypeInv, WedgedOnlyByShortFrame, [Next]_vars
  PROVE  WedgedOnlyByShortFrame'
<1> USE DEF WedgedOnlyByShortFrame, Wedged, clock, wire, timing
<1>0. connects \in Connects /\ state \in States
  BY DEF TypeInv, TypeOK, Connects
<1>1. CASE MessageProcess
  <2> DEFINE queue == Append(messageQueue, submitted + 1)
  <2>1. /\ QueueProcessUnsafe(state, queue, currentMessage, connects)
        /\ UNCHANGED <<received, recvOp>>
    BY <1>1 DEF MessageProcess
  <2> HIDE DEF queue
  <2>2. \/ QueueKept(queue, currentMessage)
        \/ QueueExpired(queue, currentMessage)
        \/ QueueTaken(queue, currentMessage)
    BY <1>0, <2>1, QueueOutcome
  <2> QED BY <2>1, <2>2 DEF QueueKept, QueueExpired, QueueTaken
<1>2. CASE ConnectSucceeded
  <2> DEFINE conns == [connects EXCEPT !.ok = @ - 1]
  <2>1. UNCHANGED <<recvOp, received>>
    BY <1>2 DEF ConnectSucceeded
  <2>2. CASE QueueProcessUnsafe("Connected", messageQueue, currentMessage, conns)
    <3>1. conns \in Connects
      BY <1>0, <1>2 DEF ConnectSucceeded, Connects
    <3> HIDE DEF conns
    <3>2. \/ QueueKept(messageQueue, currentMessage)
          \/ QueueExpired(messageQueue, currentMessage)
          \/ QueueTaken(messageQueue, currentMessage)
      BY <2>2, <3>1, QueueOutcome DEF States
    <3> QED BY <2>1, <3>2 DEF QueueKept, QueueExpired, QueueTaken
  <2>3. CASE UNCHANGED <<currentMessage, sendOp>>
    BY <2>1, <2>3
  <2> QED BY <1>2, <2>2, <2>3 DEF ConnectSucceeded
<1>3. CASE ReceiveSucceeded
  <2>1. QueueProcessUnsafe("Connected", messageQueue, AfterMakeResponse(received), connects)
        /\ UNCHANGED received
    BY <1>3 DEF ReceiveSucceeded
  <2>2. \/ QueueKept(messageQueue, AfterMakeResponse(received))
        \/ QueueExpired(messageQueue, AfterMakeResponse(received))
        \/ QueueTaken(messageQueue, AfterMakeResponse(received))
    BY <1>0, <2>1, QueueOutcome DEF States
  <2> QED BY <2>1, <2>2 DEF QueueKept, QueueExpired, QueueTaken, AfterMakeResponse
<1>4. CASE SendFailed \/ ReceiveFailed
  BY <1>4 DEF SendFailed, ReceiveFailed, AbandonExchange
<1>5. CASE WaitExpired
  BY <1>5 DEF WaitExpired, Aborted
<1>6. CASE SendSucceeded \/ KernelSends \/ KernelReceives
  BY <1>6 DEF SendSucceeded, StartReceiveTask, KernelSends, KernelReceives
<1>7. CASE ConnectFailed \/ KernelConnects \/ TimerExpires \/ Environment \/ UNCHANGED vars
  BY <1>7 DEF ConnectFailed, KernelConnects, TimerExpires, Environment, TimePasses,
              DeviceAnswers, LinkBreaks, vars
<1> QED BY <1>1, <1>2, <1>3, <1>4, <1>5, <1>6, <1>7 DEF Next, Handlers, Kernel

(* MakeResponse's early return for a size SetAduSize refuses is the only   *)
(* way to leave currentMessage_ occupied with nothing outstanding.         *)
THEOREM OnlyShortFrameWedges == ClientAssumption => (Spec => []WedgedOnlyByShortFrame)
<1> SUFFICES ASSUME ClientAssumption
             PROVE  Spec => []WedgedOnlyByShortFrame
  OBVIOUS
<1>1. Init => WedgedOnlyByShortFrame
  BY DEF Init, WedgedOnlyByShortFrame, Wedged
<1> QED BY TypeInit, TypeStep, WedgedStep, <1>1, PTL DEF Spec

(* state_ is MessageProcess only with a request in process; nothing sets   *)
(* it to WaitConnect.                                                      *)
StateInv == state # "WaitConnect" /\ (state = "MessageProcess" => currentMessage # NoMessage)

(* A call of QueueProcessUnsafe with a queue that is not empty leaves      *)
(* something outstanding, or a request in process.                         *)
LEMMA QueueAttended ==
  ASSUME ClientAssumption, TypeOK,
         NEW st \in States, NEW S \in SUBSET Messages, NEW queue \in Seq(S),
         NEW current \in Current, NEW conns \in Connects,
         st # "WaitConnect", st = "MessageProcess" => current # NoMessage,
         QueueProcessUnsafe(st, queue, current, conns)
  PROVE  /\ StateInv'
         /\ \/ messageQueue' = <<>>
            \/ sendOp' # "none"
            \/ connects'.pending # 0 \/ connects'.ok # 0 \/ connects'.failed # 0
            \/ currentMessage' # NoMessage
<1>1. CASE queue = <<>> \/ st \in {"WaitConnect", "MessageProcess"}
  <2>1. CASE queue = <<>> \/ st # "Connected"
    BY <1>1, <2>1 DEF QueueProcessUnsafe, StateInv, StartMessageTaskUnsafe, TakeNext
  <2> QED BY <1>1, <2>1
<1>2. CASE queue # <<>> /\ st = "Idle"
  <2>1. StartConnectTaskUnsafe(conns) /\ state' = st
    BY <1>2 DEF QueueProcessUnsafe
  <2>2. connects'.pending # 0 \/ connects'.ok # 0 \/ connects'.failed # 0
    <3>1. CASE connects' = [conns EXCEPT !.pending = 1]
      BY <3>1 DEF Connects
    <3>2. CASE connects' = [conns EXCEPT !.failed = @ + 1]
      <4>1. connects'.failed = conns.failed + 1 /\ conns.failed \in Nat
        BY <3>2 DEF Connects
      <4> QED BY <4>1
    <3>3. CASE connects' = [conns EXCEPT !.ok = @ + 1]
      <4>1. connects'.ok = conns.ok + 1 /\ conns.ok \in Nat
        BY <3>3 DEF Connects
      <4> QED BY <4>1
    <3> QED BY <2>1, <3>1, <3>2, <3>3 DEF StartConnectTaskUnsafe
  <2> QED BY <1>2, <2>1, <2>2 DEF StateInv
<1>3. CASE queue # <<>> /\ st = "Connected"
  <2>1. StartMessageTaskUnsafe(queue, current)
    BY <1>3 DEF QueueProcessUnsafe
  <2>2. CASE current # NoMessage
    BY <2>1, <2>2 DEF StartMessageTaskUnsafe, StateInv
  <2>3. CASE current = NoMessage
    <3>1. PICK n \in 0..Len(queue) :
            \/ n = Len(queue) /\ state' = "Connected" /\ messageQueue' = <<>>
            \/ /\ n < Len(queue)
               /\ state' = "MessageProcess" /\ sendOp' = "pending"
               /\ currentMessage' = [msg |-> queue[n + 1], id |-> NextTid]
      BY <2>1, <2>3 DEF StartMessageTaskUnsafe, TakeNext
    <3>2. Len(queue) \in Nat
      BY LenProperties
    <3>3. CASE n = Len(queue) /\ state' = "Connected" /\ messageQueue' = <<>>
      BY <3>3 DEF StateInv
    <3>4. CASE /\ n < Len(queue) /\ state' = "MessageProcess"
               /\ currentMessage' = [msg |-> queue[n + 1], id |-> NextTid]
      <4>1. n + 1 \in 1..Len(queue)
        BY <3>2, <3>4
      <4>2. queue[n + 1] \in Messages
        BY <4>1, ElementOfSeq
      <4>3. currentMessage' # NoMessage
        BY <3>4, <4>2 DEF NoMessage, ClientAssumption
      <4> QED BY <3>4, <4>3 DEF StateInv
    <3> QED BY <3>1, <3>3, <3>4
  <2> QED BY <2>2, <2>3
<1> QED BY <1>1, <1>2, <1>3 DEF States

(* What a step does to StateInv and to the attention the queue has.        *)
LEMMA AttentionStep ==
  ASSUME ClientAssumption, TypeInv, StateInv, [Next]_vars
  PROVE  /\ StateInv'
         /\ Unattended' /\ ~Unattended =>
              SendFailed \/ ReceiveFailed \/ ConnectFailed \/ Wedged' \/ ~running'
<1> USE DEF clock, wire, timing, Unattended, Wedged
<1>0. /\ connects \in Connects /\ state \in States /\ currentMessage \in Current
      /\ messageQueue \in Seq(1..submitted) /\ TypeOK
      /\ submitted \in Nat /\ (1..submitted) \in SUBSET Messages
  BY DEF TypeInv, TypeOK, Connects
<1>1. CASE MessageProcess
  <2> DEFINE queue == Append(messageQueue, submitted + 1)
  <2>1. /\ QueueProcessUnsafe(state, queue, currentMessage, connects)
        /\ UNCHANGED recvOp /\ submitted + 1 \in Messages
    BY <1>0, <1>1 DEF MessageProcess, ClientAssumption
  <2>2. queue \in Seq(Messages)
    BY <1>0, <2>1, SeqMonotone
  <2> HIDE DEF queue
  <2>3. StateInv'
    BY <1>0, <2>1, <2>2, QueueAttended DEF StateInv
  <2>4. \/ messageQueue' = <<>>
        \/ sendOp' # "none"
        \/ connects'.pending # 0 \/ connects'.ok # 0 \/ connects'.failed # 0
        \/ currentMessage' # NoMessage
    BY <1>0, <2>1, <2>2, QueueAttended DEF StateInv
  <2> QED BY <2>3, <2>4
<1>2. CASE ConnectSucceeded
  <2> DEFINE conns == [connects EXCEPT !.ok = @ - 1]
  <2>1. CASE running' = FALSE /\ state' = "Connected"
    BY <2>1 DEF StateInv
  <2>2. CASE QueueProcessUnsafe("Connected", messageQueue, currentMessage, conns)
    <3>1. conns \in Connects
      BY <1>0, <1>2 DEF ConnectSucceeded, Connects
    <3> HIDE DEF conns
    <3>2. StateInv' /\ \/ messageQueue' = <<>>
                       \/ sendOp' # "none"
                       \/ connects'.pending # 0 \/ connects'.ok # 0 \/ connects'.failed # 0
                       \/ currentMessage' # NoMessage
      BY <1>0, <2>2, <3>1, QueueAttended DEF States
    <3> QED BY <3>2
  <2> QED BY <1>2, <2>1, <2>2 DEF ConnectSucceeded
<1>3. CASE ReceiveSucceeded
  <2>1. QueueProcessUnsafe("Connected", messageQueue, AfterMakeResponse(received), connects)
    BY <1>3 DEF ReceiveSucceeded
  <2>2. AfterMakeResponse(received) \in Current
    BY <1>0 DEF AfterMakeResponse, Current
  <2>3. StateInv' /\ \/ messageQueue' = <<>>
                     \/ sendOp' # "none"
                     \/ connects'.pending # 0 \/ connects'.ok # 0 \/ connects'.failed # 0
                     \/ currentMessage' # NoMessage
    BY <1>0, <2>1, <2>2, QueueAttended DEF States
  <2> QED BY <2>3
<1>4. CASE SendFailed \/ ReceiveFailed \/ ConnectFailed
  <2>1. state' \in {"Idle", "Connected"}
    BY <1>4 DEF SendFailed, ReceiveFailed, ConnectFailed, AbandonExchange
  <2> QED BY <1>4, <2>1 DEF StateInv
<1>5. CASE WaitExpired
  BY <1>0, <1>5 DEF WaitExpired, Aborted, AbortedConnects, Connects, StateInv
<1>6. CASE KernelConnects
  BY <1>0, <1>6 DEF KernelConnects, AbortedConnects, Connects, StateInv
<1>7. CASE SendSucceeded \/ KernelSends \/ KernelReceives
  BY <1>7 DEF SendSucceeded, StartReceiveTask, KernelSends, KernelReceives, StateInv
<1>8. CASE TimerExpires \/ Environment \/ UNCHANGED vars
  BY <1>8 DEF TimerExpires, Environment, TimePasses, DeviceAnswers, LinkBreaks, vars, StateInv
<1> QED BY <1>1, <1>2, <1>3, <1>4, <1>5, <1>6, <1>7, <1>8 DEF Next, Handlers, Kernel

(* Requests are left in the queue with nobody to look at it only by a      *)
(* handler that got an error, by the wedge, or by the end of the gateway.  *)
THEOREM AttentionLostOnlyOnError == ClientAssumption => (Spec => QueueAbandonedOnlyOnError)
<1> SUFFICES ASSUME ClientAssumption
             PROVE  Spec => QueueAbandonedOnlyOnError
  OBVIOUS
<1>1. Init => StateInv
  BY DEF Init, StateInv
<1>2. TypeInv /\ StateInv /\ [Next]_vars =>
        /\ StateInv'
        /\ [Unattended' /\ ~Unattended =>
              SendFailed \/ ReceiveFailed \/ ConnectFailed \/ Wedged' \/ ~running']_vars
  BY AttentionStep
<1> QED BY TypeInit, TypeStep, <1>1, <1>2, PTL DEF Spec, QueueAbandonedOnlyOnError
-----------------------------------------------------------------------------
(***************************************************************************)
(* Answers in the order of the requests.  The strengthening: the queue is  *)
(* in the order of arrival, what is in process is older than all of it,    *)
(* and what was answered is older than both.                               *)
(***************************************************************************)
Increasing(queue) == \A i, j \in 1..Len(queue) : i < j => queue[i] < queue[j]

Above(queue, m) == \A i \in 1..Len(queue) : m < queue[i]

OrderInv ==
  /\ Increasing(messageQueue)
  /\ Above(messageQueue, currentMessage.msg)
  /\ currentMessage.msg <= submitted
  /\ \A a \in 1..Len(delivered) :
       /\ delivered[a].to <= submitted
       /\ currentMessage.msg # 0 => delivered[a].to < currentMessage.msg
       /\ Above(messageQueue, delivered[a].to)
  /\ AnswersInOrder

(* What QueueProcessUnsafe leaves is the queue, or what follows an element *)
(* of it, which is then in process, or nothing.                            *)
LEMMA QueueRest ==
  ASSUME NEW queue \in Seq(Nat), NEW current,
         \/ QueueKept(queue, current)
         \/ QueueExpired(queue, current)
         \/ QueueTaken(queue, current)
  PROVE  \/ messageQueue' = queue /\ currentMessage' = current
         \/ messageQueue' = <<>> /\ currentMessage' = NoMessage
         \/ \E k \in 1..Len(queue) :
              /\ currentMessage'.msg = queue[k]
              /\ Len(messageQueue') = Len(queue) - k
              /\ \A i \in 1..(Len(queue) - k) :
                   messageQueue'[i] = queue[k + i] /\ k + i \in 1..Len(queue)
<1>1. CASE QueueKept(queue, current) \/ QueueExpired(queue, current)
  BY <1>1 DEF QueueKept, QueueExpired
<1>2. CASE QueueTaken(queue, current)
  <2>1. PICK n \in 0..Len(queue) :
          /\ n < Len(queue)
          /\ currentMessage' = [msg |-> queue[n + 1], id |-> NextTid]
          /\ messageQueue' = SubSeq(queue, n + 2, Len(queue))
    BY <1>2 DEF QueueTaken
  <2> DEFINE k == n + 1
  <2>2. Len(queue) \in Nat /\ k \in 1..Len(queue) /\ n \in Nat
    BY <2>1, LenProperties
  <2>3. /\ Len(messageQueue') = Len(queue) - k
        /\ \A i \in 1..(Len(queue) - k) : messageQueue'[i] = queue[k + i] /\ k + i \in 1..Len(queue)
    BY <2>1, <2>2
  <2>4. currentMessage'.msg = queue[k]
    BY <2>1
  <2> HIDE DEF k
  <2> QED BY <2>2, <2>3, <2>4
<1> QED BY <1>1, <1>2

LEMMA QueueOrder ==
  ASSUME NEW queue \in Seq(Nat), NEW current, current.msg \in Nat,
         Increasing(queue), Above(queue, current.msg),
         \/ QueueKept(queue, current)
         \/ QueueExpired(queue, current)
         \/ QueueTaken(queue, current)
  PROVE  /\ \A i, j \in 1..Len(messageQueue') : i < j => messageQueue'[i] < messageQueue'[j]
         /\ \A i \in 1..Len(messageQueue') : currentMessage'.msg < messageQueue'[i]
<1>1. CASE messageQueue' = queue /\ currentMessage' = current
  BY <1>1 DEF Increasing, Above
<1>2. CASE messageQueue' = <<>> /\ currentMessage' = NoMessage
  BY <1>2
<1>3. ASSUME NEW k \in 1..Len(queue),
             currentMessage'.msg = queue[k],
             Len(messageQueue') = Len(queue) - k,
             \A i \in 1..(Len(queue) - k) :
               messageQueue'[i] = queue[k + i] /\ k + i \in 1..Len(queue)
      PROVE  /\ \A i, j \in 1..Len(messageQueue') : i < j => messageQueue'[i] < messageQueue'[j]
             /\ \A i \in 1..Len(messageQueue') : currentMessage'.msg < messageQueue'[i]
  <2>1. Len(queue) \in Nat
    BY LenProperties
  <2> DEFINE m == Len(queue) - k
  <2>2. ASSUME NEW i \in 1..m, NEW j \in 1..m, i < j
        PROVE  messageQueue'[i] < messageQueue'[j]
    <3>1. k + i \in 1..Len(queue) /\ k + j \in 1..Len(queue) /\ k + i < k + j
      BY <2>1, <2>2
    <3>2. queue[k + i] < queue[k + j]
      BY <3>1 DEF Increasing
    <3> QED BY <1>3, <3>2
  <2>3. ASSUME NEW i \in 1..m
        PROVE  currentMessage'.msg < messageQueue'[i]
    <3>1. k + i \in 1..Len(queue) /\ k < k + i
      BY <2>1
    <3>2. queue[k] < queue[k + i]
      BY <3>1 DEF Increasing
    <3> QED BY <1>3, <3>2
  <2> QED BY <1>3, <2>2, <2>3
<1> QED BY <1>1, <1>2, <1>3, QueueRest

(* What is in process is not younger than the youngest request.            *)
LEMMA QueueBelow ==
  ASSUME NEW queue \in Seq(Nat), NEW current, NEW top \in Nat,
         \A i \in 1..Len(queue) : queue[i] <= top, current.msg <= top,
         \/ QueueKept(queue, current)
         \/ QueueExpired(queue, current)
         \/ QueueTaken(queue, current)
  PROVE  currentMessage'.msg <= top
<1>1. CASE messageQueue' = queue /\ currentMessage' = current
  BY <1>1
<1>2. CASE messageQueue' = <<>> /\ currentMessage' = NoMessage
  BY <1>2 DEF NoMessage
<1> QED BY <1>1, <1>2, QueueRest

(* Whatever is older than the queue stays older than it, and than a        *)
(* request that is taken from it.                                          *)
LEMMA QueueAbove ==
  ASSUME NEW queue \in Seq(Nat), NEW current, NEW d \in Nat,
         Above(queue, d), current.msg # 0 => d < current.msg,
         \/ QueueKept(queue, current)
         \/ QueueExpired(queue, current)
         \/ QueueTaken(queue, current)
  PROVE  /\ \A i \in 1..Len(messageQueue') : d < messageQueue'[i]
         /\ currentMessage'.msg # 0 => d < currentMessage'.msg
<1>1. CASE messageQueue' = queue /\ currentMessage' = current
  BY <1>1 DEF Above
<1>2. CASE messageQueue' = <<>> /\ currentMessage' = NoMessage
  BY <1>2 DEF NoMessage
<1>3. ASSUME NEW k \in 1..Len(queue),
             currentMessage'.msg = queue[k],
             Len(messageQueue') = Len(queue) - k,
             \A i \in 1..(Len(queue) - k) :
               messageQueue'[i] = queue[k + i] /\ k + i \in 1..Len(queue)
      PROVE  /\ \A i \in 1..Len(messageQueue') : d < messageQueue'[i]
             /\ currentMessage'.msg # 0 => d < currentMessage'.msg
  BY <1>3 DEF Above
<1> QED BY <1>1, <1>2, <1>3, QueueRest

(* The types the order is about.                                           *)
LEMMA OrderTypes ==
  ASSUME ClientAssumption, TypeInv
  PROVE  /\ submitted \in Nat /\ currentMessage.msg \in Nat
         /\ messageQueue \in Seq(Nat) /\ Len(messageQueue) \in Nat
         /\ \A i \in 1..Len(messageQueue) : messageQueue[i] \in 1..submitted
         /\ delivered \in Seq([to : Messages, for : Messages]) /\ Len(delivered) \in Nat
         /\ \A a \in 1..Len(delivered) : delivered[a].to \in Nat
         /\ currentMessage.msg = 0 <=> currentMessage = NoMessage
         /\ connects \in Connects /\ state \in States
<1>1. messageQueue \in Seq(1..submitted) /\ submitted \in Nat
      /\ delivered \in Seq([to : Messages, for : Messages])
      /\ connects \in Connects /\ state \in States
  BY DEF TypeInv, TypeOK, Connects
<1>2. messageQueue \in Seq(Nat)
  BY <1>1, SeqMonotone
<1>3. \A a \in 1..Len(delivered) : delivered[a].to \in Nat
  <2>1. \A a \in 1..Len(delivered) : delivered[a] \in [to : Messages, for : Messages]
    BY <1>1, ElementOfSeq
  <2> QED BY <2>1, ClientAssumption
<1>4. currentMessage.msg \in Nat /\ (currentMessage.msg = 0 <=> currentMessage = NoMessage)
  BY DEF TypeInv, TypeOK, Current, NoMessage, ClientAssumption
<1>5. \A i \in 1..Len(messageQueue) : messageQueue[i] \in 1..submitted
  BY <1>1, ElementOfSeq
<1>6. Len(messageQueue) \in Nat /\ Len(delivered) \in Nat
  BY <1>1, LenProperties
<1> QED BY <1>1, <1>2, <1>3, <1>4, <1>5, <1>6

(* A call of QueueProcessUnsafe with an ordered queue keeps the order.     *)
LEMMA QueueProcessOrder ==
  ASSUME ClientAssumption, TypeInv, OrderInv,
         NEW st \in States, NEW queue \in Seq(Nat), NEW current \in {NoMessage, currentMessage},
         NEW conns \in Connects, QueueProcessUnsafe(st, queue, current, conns),
         Increasing(queue), Above(queue, current.msg),
         NEW top \in Nat, \A i \in 1..Len(queue) : queue[i] <= top, current.msg <= top
  PROVE  /\ currentMessage'.msg <= top
         /\ Increasing(messageQueue)'
         /\ Above(messageQueue, currentMessage.msg)'
         /\ \A d \in Nat :
              Above(queue, d) /\ (current.msg # 0 => d < current.msg) =>
                /\ \A i \in 1..Len(messageQueue') : d < messageQueue'[i]
                /\ currentMessage'.msg # 0 => d < currentMessage'.msg
<1>1. \/ QueueKept(queue, current)
      \/ QueueExpired(queue, current)
      \/ QueueTaken(queue, current)
  BY QueueOutcome
<1>2. current.msg \in Nat
  BY OrderTypes DEF NoMessage
<1>3. /\ \A i, j \in 1..Len(messageQueue') : i < j => messageQueue'[i] < messageQueue'[j]
      /\ \A i \in 1..Len(messageQueue') : currentMessage'.msg < messageQueue'[i]
  BY <1>1, <1>2, QueueOrder
<1>4. ASSUME NEW d \in Nat, Above(queue, d), current.msg # 0 => d < current.msg
      PROVE  /\ \A i \in 1..Len(messageQueue') : d < messageQueue'[i]
             /\ currentMessage'.msg # 0 => d < currentMessage'.msg
  BY <1>1, <1>4, QueueAbove
<1>5. currentMessage'.msg <= top
  BY <1>1, QueueBelow
<1> QED BY <1>3, <1>4, <1>5 DEF Increasing, Above

LEMMA OrderMessageProcess ==
  ASSUME ClientAssumption, TypeInv, OrderInv, MessageProcess
  PROVE  OrderInv'
<1> DEFINE k == submitted + 1
           queue == Append(messageQueue, k)
<1>0. /\ QueueProcessUnsafe(state, queue, currentMessage, connects)
      /\ submitted' = k /\ delivered' = delivered
  BY DEF MessageProcess
<1>1. /\ queue \in Seq(Nat) /\ k \in Nat /\ Len(messageQueue) \in Nat
      /\ \A i \in 1..Len(queue) :
           \/ i \in 1..Len(messageQueue) /\ queue[i] = messageQueue[i] /\ queue[i] < k
           \/ i = Len(messageQueue) + 1 /\ queue[i] = k
  BY OrderTypes, SMTT(40)
<1>2. currentMessage.msg < k
  BY OrderTypes DEF OrderInv
<1>3. Increasing(queue) /\ Above(queue, currentMessage.msg)
  <2> HIDE DEF queue, k
  <2>1. Increasing(queue)
    <3>1. SUFFICES ASSUME NEW i \in 1..Len(queue), NEW j \in 1..Len(queue), i < j
                   PROVE  queue[i] < queue[j]
      BY DEF Increasing
    <3>2. i \in 1..Len(messageQueue) /\ queue[i] = messageQueue[i] /\ queue[i] < k
      BY <1>1, <3>1
    <3>3. CASE j \in 1..Len(messageQueue) /\ queue[j] = messageQueue[j]
      BY <3>1, <3>2, <3>3 DEF OrderInv, Increasing
    <3>4. CASE queue[j] = k
      BY <3>2, <3>4
    <3> QED BY <1>1, <3>3, <3>4
  <2>2. Above(queue, currentMessage.msg)
    BY <1>1, <1>2 DEF OrderInv, Above
  <2> QED BY <2>1, <2>2
<1>4. /\ currentMessage'.msg <= k
      /\ Increasing(messageQueue)'
      /\ Above(messageQueue, currentMessage.msg)'
      /\ \A d \in Nat :
           Above(queue, d) /\ (currentMessage.msg # 0 => d < currentMessage.msg) =>
             /\ \A i \in 1..Len(messageQueue') : d < messageQueue'[i]
             /\ currentMessage'.msg # 0 => d < currentMessage'.msg
  <2> HIDE DEF queue, k
  <2>1. \A i \in 1..Len(queue) : queue[i] <= k
    BY <1>1
  <2>2. currentMessage.msg <= k
    BY <1>1, <1>2, OrderTypes
  <2> QED BY <1>0, <1>1, <1>3, <2>1, <2>2, OrderTypes, QueueProcessOrder
<1>5. ASSUME NEW a \in 1..Len(delivered)
      PROVE  /\ delivered[a].to <= k
             /\ currentMessage'.msg # 0 => delivered[a].to < currentMessage'.msg
             /\ \A i \in 1..Len(messageQueue') : delivered[a].to < messageQueue'[i]
  <2>1. /\ delivered[a].to \in Nat /\ delivered[a].to < k
        /\ Above(messageQueue, delivered[a].to)
        /\ currentMessage.msg # 0 => delivered[a].to < currentMessage.msg
    BY OrderTypes DEF OrderInv
  <2> HIDE DEF queue, k
  <2>2. Above(queue, delivered[a].to)
    BY <1>1, <2>1 DEF Above
  <2> QED BY <1>1, <1>4, <2>1, <2>2
<1> HIDE DEF k, queue
<1>6. \A a \in 1..Len(delivered') :
        /\ delivered'[a].to <= submitted'
        /\ currentMessage'.msg # 0 => delivered'[a].to < currentMessage'.msg
        /\ Above(messageQueue', delivered'[a].to)
  BY <1>0, <1>5 DEF Above
<1>7. AnswersInOrder'
  BY <1>0 DEF OrderInv, AnswersInOrder
<1> QED BY <1>0, <1>4, <1>6, <1>7 DEF OrderInv, Above, Increasing

LEMMA OrderConnectSucceeded ==
  ASSUME ClientAssumption, TypeInv, OrderInv, ConnectSucceeded
  PROVE  OrderInv'
<1> DEFINE conns == [connects EXCEPT !.ok = @ - 1]
<1>0. submitted' = submitted /\ delivered' = delivered
  BY DEF ConnectSucceeded, clock
<1>1. CASE UNCHANGED <<messageQueue, currentMessage>>
  BY <1>0, <1>1 DEF OrderInv, Increasing, Above, AnswersInOrder
<1>2. CASE QueueProcessUnsafe("Connected", messageQueue, currentMessage, conns)
  <2>1. conns \in Connects
    <3>1. connects \in Connects
      BY OrderTypes
    <3> QED BY <3>1 DEF ConnectSucceeded, Connects
  <2> HIDE DEF conns
  <2>2. /\ currentMessage'.msg <= submitted
        /\ Increasing(messageQueue)'
        /\ Above(messageQueue, currentMessage.msg)'
        /\ \A d \in Nat :
             Above(messageQueue, d) /\ (currentMessage.msg # 0 => d < currentMessage.msg) =>
               /\ \A i \in 1..Len(messageQueue') : d < messageQueue'[i]
               /\ currentMessage'.msg # 0 => d < currentMessage'.msg
    <3>1. \A i \in 1..Len(messageQueue) : messageQueue[i] <= submitted
      BY OrderTypes
    <3> QED BY <1>2, <2>1, <3>1, OrderTypes, QueueProcessOrder DEF OrderInv, States
  <2>3. \A a \in 1..Len(delivered') :
          /\ delivered'[a].to <= submitted'
          /\ currentMessage'.msg # 0 => delivered'[a].to < currentMessage'.msg
          /\ Above(messageQueue', delivered'[a].to)
    BY <1>0, <2>2, OrderTypes DEF OrderInv, Above
  <2>4. AnswersInOrder'
    BY <1>0 DEF OrderInv, AnswersInOrder
  <2> QED BY <1>0, <2>2, <2>3, <2>4 DEF OrderInv, Above, Increasing
<1> QED BY <1>1, <1>2 DEF ConnectSucceeded

LEMMA OrderReceiveSucceeded ==
  ASSUME ClientAssumption, TypeInv, OrderInv, ReceiveSucceeded
  PROVE  OrderInv'
<1> DEFINE after == AfterMakeResponse(received)
<1>0. /\ QueueProcessUnsafe("Connected", messageQueue, after, connects)
      /\ submitted' = submitted
      /\ delivered' = delivered \o MakeResponse(received)
      /\ after \in {NoMessage, currentMessage}
      /\ currentMessage # NoMessage
  BY DEF ReceiveSucceeded, clock, AfterMakeResponse, TypeInv, ExchangeOwnsSocket
<1>1. MakeResponse(received) # <<>> => after = NoMessage
  BY DEF MakeResponse, AfterMakeResponse
<1> HIDE DEF after
<1>2. after.msg \in {0, currentMessage.msg}
  BY <1>0 DEF NoMessage
<1>3. Above(messageQueue, after.msg)
  BY <1>0, <1>2, OrderTypes DEF OrderInv, Above
<1>4. /\ currentMessage'.msg <= submitted
      /\ Increasing(messageQueue)'
      /\ Above(messageQueue, currentMessage.msg)'
      /\ \A d \in Nat :
           Above(messageQueue, d) /\ (after.msg # 0 => d < after.msg) =>
             /\ \A i \in 1..Len(messageQueue') : d < messageQueue'[i]
             /\ currentMessage'.msg # 0 => d < currentMessage'.msg
  <2>1. \A i \in 1..Len(messageQueue) : messageQueue[i] <= submitted
    BY OrderTypes
  <2>2. after.msg <= submitted
    BY <1>2, OrderTypes DEF OrderInv
  <2> QED BY <1>0, <1>3, <2>1, <2>2, OrderTypes, QueueProcessOrder DEF OrderInv, States
<1>5. \A a \in 1..Len(delivered) :
        /\ delivered[a].to <= submitted
        /\ currentMessage'.msg # 0 => delivered[a].to < currentMessage'.msg
        /\ \A i \in 1..Len(messageQueue') : delivered[a].to < messageQueue'[i]
  BY <1>2, <1>4, OrderTypes DEF OrderInv
<1>6. CASE MakeResponse(received) = <<>>
  <2>1. delivered' = delivered
    BY <1>0, <1>6, OrderTypes
  <2>2. \A a \in 1..Len(delivered') :
          /\ delivered'[a].to <= submitted'
          /\ currentMessage'.msg # 0 => delivered'[a].to < currentMessage'.msg
          /\ Above(messageQueue', delivered'[a].to)
    BY <1>0, <1>5, <2>1 DEF Above
  <2>3. AnswersInOrder'
    BY <2>1 DEF OrderInv, AnswersInOrder
  <2> QED BY <1>0, <1>4, <2>2, <2>3 DEF OrderInv, Above, Increasing
<1>7. CASE MakeResponse(received) # <<>>
  <2> DEFINE n == Len(delivered) + 1
             m == currentMessage.msg
  <2>1. after.msg = 0
        /\ MakeResponse(received) = << [to |-> m, for |-> received.for] >>
    BY <1>1, <1>7 DEF MakeResponse, NoMessage
  <2>2. m \in Nat /\ m # 0 /\ m <= submitted /\ Above(messageQueue, m) /\ Len(delivered) \in Nat
    BY <1>0, OrderTypes DEF OrderInv
  <2>3. \A a \in 1..Len(delivered) : delivered[a].to < m
    BY <2>2 DEF OrderInv
  <2> HIDE DEF m
  <2>4. /\ Len(delivered') = n /\ delivered'[n].to = m
        /\ \A a \in 1..Len(delivered) : delivered'[a] = delivered[a]
    BY <1>0, <2>1, OrderTypes
  <2>5. /\ currentMessage'.msg # 0 => m < currentMessage'.msg
        /\ \A i \in 1..Len(messageQueue') : m < messageQueue'[i]
    BY <1>4, <2>1, <2>2
  <2>6. \A a \in 1..n :
          /\ delivered'[a].to <= submitted
          /\ currentMessage'.msg # 0 => delivered'[a].to < currentMessage'.msg
          /\ \A i \in 1..Len(messageQueue') : delivered'[a].to < messageQueue'[i]
    <3>1. \A a \in 1..n : a \in 1..Len(delivered) \/ a = n
      BY <2>2
    <3> QED BY <1>5, <2>2, <2>4, <2>5, <3>1
  <2>7. \A i, j \in 1..n : i < j => delivered'[i].to < delivered'[j].to
    BY <2>2, <2>3, <2>4 DEF OrderInv, AnswersInOrder
  <2> HIDE DEF n
  <2>8. \A a \in 1..Len(delivered') :
          /\ delivered'[a].to <= submitted'
          /\ currentMessage'.msg # 0 => delivered'[a].to < currentMessage'.msg
          /\ Above(messageQueue', delivered'[a].to)
    BY <1>0, <2>4, <2>6 DEF Above
  <2>9. AnswersInOrder'
    BY <2>4, <2>7 DEF AnswersInOrder
  <2> QED BY <1>0, <1>4, <2>8, <2>9 DEF OrderInv, Above, Increasing
<1> QED BY <1>6, <1>7

LEMMA OrderStep ==
  ASSUME ClientAssumption, TypeInv, OrderInv, [Next]_vars
  PROVE  OrderInv'
<1>1. CASE MessageProcess
  BY <1>1, OrderMessageProcess
<1>2. CASE ConnectSucceeded
  BY <1>2, OrderConnectSucceeded
<1>3. CASE ReceiveSucceeded
  BY <1>3, OrderReceiveSucceeded
<1>4. CASE SendFailed \/ ReceiveFailed
  <2>1. currentMessage' = NoMessage /\ UNCHANGED <<submitted, messageQueue, delivered>>
    BY <1>4 DEF SendFailed, ReceiveFailed, AbandonExchange, clock
  <2>2. currentMessage'.msg = 0
    BY <2>1 DEF NoMessage
  <2>3. (\A i \in 1..Len(messageQueue) : 0 < messageQueue[i]) /\ 0 <= submitted
    BY OrderTypes
  <2> QED BY <2>1, <2>2, <2>3 DEF OrderInv, Increasing, Above, AnswersInOrder
<1>5. CASE UNCHANGED <<submitted, messageQueue, currentMessage, delivered>>
  BY <1>5 DEF OrderInv, Increasing, Above, AnswersInOrder
<1>6. ConnectFailed \/ SendSucceeded \/ WaitExpired \/ Kernel \/ Environment \/ UNCHANGED vars =>
        UNCHANGED <<submitted, messageQueue, currentMessage, delivered>>
  BY DEF ConnectFailed, SendSucceeded, WaitExpired, Kernel, KernelConnects, KernelSends,
         KernelReceives, TimerExpires, Environment, TimePasses, DeviceAnswers, LinkBreaks,
         clock, vars
<1> QED BY <1>1, <1>2, <1>3, <1>4, <1>5, <1>6 DEF Next, Handlers

(* The slaves get the answers in the order in which the requests came, and *)
(* none twice, through expiry, errors and reconnections.                   *)
THEOREM AnsweredInOrder == ClientAssumption => (Spec => []AnswersInOrder)
<1> SUFFICES ASSUME ClientAssumption
             PROVE  Spec => []AnswersInOrder
  OBVIOUS
<1>1. Init => OrderInv
  BY DEF Init, OrderInv, AnswersInOrder, Increasing, Above, NoMessage
<1>2. OrderInv => AnswersInOrder
  BY DEF OrderInv
<1> QED BY TypeInit, TypeStep, OrderStep, <1>1, <1>2, PTL DEF Spec
-----------------------------------------------------------------------------
(***************************************************************************)
(* The master service.  Where a request is, read from three predicates.    *)
(***************************************************************************)
In(m, s)    == \E i \in 1..Len(s) : s[i] = m
Queued(m)   == In(m, messageQueue)
Answered(m) == \E i \in 1..Len(delivered) : delivered[i].to = m

(* A request is in one place at a time, and StatusOf names it.             *)
PlacesApart ==
  \A m \in Messages :
    /\ Answered(m) => StatusOf(m) = "answered" /\ m <= submitted
                      /\ m # currentMessage.msg /\ ~Queued(m)
    /\ m = currentMessage.msg => StatusOf(m) = "serving" /\ m <= submitted /\ ~Queued(m)
    /\ Queued(m) => StatusOf(m) = "waiting" /\ m <= submitted /\ currentMessage.msg < m
    /\ m > submitted => StatusOf(m) = "new"
    /\ ~Answered(m) /\ m # currentMessage.msg /\ ~Queued(m) /\ m <= submitted
         => StatusOf(m) = "lost"
    /\ StatusOf(m) \in {"new", "waiting", "serving", "answered", "lost"}

LEMMA Places == ClientAssumption => (TypeInv /\ OrderInv => PlacesApart)
<1> SUFFICES ASSUME ClientAssumption, TypeInv, OrderInv, NEW m \in Messages
             PROVE  /\ Answered(m) => StatusOf(m) = "answered" /\ m <= submitted
                                      /\ m # currentMessage.msg /\ ~Queued(m)
                    /\ m = currentMessage.msg =>
                         StatusOf(m) = "serving" /\ m <= submitted /\ ~Queued(m)
                    /\ Queued(m) => StatusOf(m) = "waiting" /\ m <= submitted
                                    /\ currentMessage.msg < m
                    /\ m > submitted => StatusOf(m) = "new"
                    /\ ~Answered(m) /\ m # currentMessage.msg /\ ~Queued(m) /\ m <= submitted
                         => StatusOf(m) = "lost"
                    /\ StatusOf(m) \in {"new", "waiting", "serving", "answered", "lost"}
  BY DEF PlacesApart
<1>1. Answered(m) => m <= submitted /\ m # currentMessage.msg /\ ~Queued(m)
  <2>1. SUFFICES ASSUME NEW a \in 1..Len(delivered), delivered[a].to = m
                 PROVE  m <= submitted /\ m # currentMessage.msg /\ ~Queued(m)
    BY DEF Answered
  <2>2. /\ m <= submitted
        /\ currentMessage.msg # 0 => m < currentMessage.msg
        /\ \A i \in 1..Len(messageQueue) : m < messageQueue[i]
    BY <2>1 DEF OrderInv, Above
  <2>3. m # currentMessage.msg
    BY <2>2 DEF ClientAssumption
  <2> QED BY <2>2, <2>3, OrderTypes DEF Queued, In
<1>2. Queued(m) => m <= submitted /\ currentMessage.msg < m
  BY OrderTypes DEF Queued, In, OrderInv, Above
<1>3. m = currentMessage.msg => m <= submitted /\ ~Queued(m)
  BY <1>2, OrderTypes DEF OrderInv
<1>4. m > submitted => ~(m <= submitted)
  BY OrderTypes
<1>5. StatusOf(m) = IF Answered(m) THEN "answered"
                    ELSE IF currentMessage.msg = m THEN "serving"
                    ELSE IF Queued(m) THEN "waiting"
                    ELSE IF m > submitted THEN "new" ELSE "lost"
  BY DEF StatusOf, Answered, Queued, In
<1>6. m <= submitted => ~(m > submitted)
  BY OrderTypes
<1> QED BY <1>1, <1>2, <1>3, <1>4, <1>5, <1>6

(* The answer a request was given, and that of one not answered yet.       *)
AnswersKnown ==
  \A m \in Messages :
    /\ \A a \in 1..Len(delivered) : delivered[a].to = m => AnswerOf(m) = delivered[a].for
    /\ ~Answered(m) => AnswerOf(m) = 0

LEMMA AnswerGiven == ClientAssumption => (TypeInv /\ OrderInv => AnswersKnown)
<1> SUFFICES ASSUME ClientAssumption, TypeInv, OrderInv PROVE AnswersKnown
  OBVIOUS
<1>1. ASSUME NEW a \in 1..Len(delivered)
      PROVE  AnswerOf(delivered[a].to) = delivered[a].for
  <2> DEFINE b == CHOOSE i \in 1..Len(delivered) : delivered[i].to = delivered[a].to
  <2>1. b \in 1..Len(delivered) /\ delivered[b].to = delivered[a].to
    OBVIOUS
  <2> HIDE DEF b
  <2>o. \A i, j \in 1..Len(delivered) : i < j => delivered[i].to < delivered[j].to
    BY DEF OrderInv, AnswersInOrder
  <2>n. delivered[a].to \in Nat
    BY OrderTypes
  <2>2. ~(a < b) /\ ~(b < a)
    BY <2>1, <2>o, <2>n
  <2>3. a = b
    BY <2>1, <2>2, OrderTypes
  <2> QED BY <2>3 DEF AnswerOf, b
<1>2. \A m \in Messages : ~Answered(m) => AnswerOf(m) = 0
  BY DEF AnswerOf, Answered
<1> QED BY <1>1, <1>2 DEF AnswersKnown

(***************************************************************************)
(* What any step does to the places: the facts from which the step is one  *)
(* of the service.                                                         *)
(***************************************************************************)
StepMoves ==
  /\ submitted' \in {submitted, submitted + 1}
  /\ \A m \in Messages :
       /\ Answered(m) => Answered(m)'
       /\ Answered(m)' => Answered(m) \/ m = currentMessage.msg
       /\ m = currentMessage'.msg => m = currentMessage.msg \/ Queued(m) \/ submitted < m
       /\ Queued(m)' => Queued(m) \/ submitted < m
       /\ submitted < m /\ m <= submitted' => Queued(m)' \/ m = currentMessage'.msg
  /\ \A m, n \in Messages :
       n < m /\ Queued(n)' /\ (Queued(m) \/ submitted < m) /\ m <= submitted' => Queued(m)'

LEMMA StatusStep ==
  ASSUME ClientAssumption, TypeInv, OrderInv, TypeInv', OrderInv', StepMoves
  PROVE  /\ \A m \in Messages : StatusOf(m)' \in Service!Successors(StatusOf(m))
         /\ \A m \in Messages :
              (StatusOf(m) = "new" /\ StatusOf(m)' # "new") =>
                \A n \in Messages : IF n < m THEN StatusOf(n) # "new"
                                             ELSE StatusOf(n)' = "new" \/ n = m
         /\ \A m, n \in Messages :
              (n < m /\ StatusOf(m) # StatusOf(m)' /\ StatusOf(m)' \in {"serving", "lost"}
                     /\ StatusOf(m) # "serving")
                => StatusOf(n)' # "waiting"
         /\ \A m, n \in Messages : StatusOf(m)' = "serving" /\ StatusOf(n)' = "serving" => m = n
<1> DEFINE S(m) == StatusOf(m)
           T(m) == StatusOf(m)'
<1>0. submitted \in Nat /\ submitted' \in {submitted, submitted + 1}
  BY OrderTypes DEF StepMoves
<1>1. ASSUME NEW m \in Messages
      PROVE  /\ Answered(m) => S(m) = "answered" /\ m <= submitted
                               /\ m # currentMessage.msg /\ ~Queued(m)
             /\ m = currentMessage.msg => S(m) = "serving" /\ m <= submitted /\ ~Queued(m)
             /\ Queued(m) => S(m) = "waiting" /\ m <= submitted /\ currentMessage.msg < m
             /\ m > submitted => S(m) = "new"
             /\ ~Answered(m) /\ m # currentMessage.msg /\ ~Queued(m) /\ m <= submitted
                  => S(m) = "lost"
             /\ S(m) \in {"new", "waiting", "serving", "answered", "lost"}
  BY Places DEF PlacesApart
<1>2. ASSUME NEW m \in Messages
      PROVE  /\ Answered(m)' => T(m) = "answered" /\ m <= submitted'
                               /\ m # currentMessage'.msg /\ ~Queued(m)'
             /\ m = currentMessage'.msg => T(m) = "serving" /\ m <= submitted' /\ ~Queued(m)'
             /\ Queued(m)' => T(m) = "waiting" /\ m <= submitted' /\ currentMessage'.msg < m
             /\ m > submitted' => T(m) = "new"
             /\ ~Answered(m)' /\ m # currentMessage'.msg /\ ~Queued(m)' /\ m <= submitted'
                  => T(m) = "lost"
             /\ T(m) \in {"new", "waiting", "serving", "answered", "lost"}
  <2>1. PlacesApart'
    BY Places, PTL
  <2> QED BY <2>1 DEF PlacesApart
<1>3. ASSUME NEW m \in Messages
      PROVE  /\ Answered(m) => Answered(m)'
             /\ Answered(m)' => Answered(m) \/ m = currentMessage.msg
             /\ m = currentMessage'.msg => m = currentMessage.msg \/ Queued(m) \/ submitted < m
             /\ Queued(m)' => Queued(m) \/ submitted < m
             /\ submitted < m /\ m <= submitted' => Queued(m)' \/ m = currentMessage'.msg
  BY DEF StepMoves
<1>4. \A m, n \in Messages :
        n < m /\ Queued(n)' /\ (Queued(m) \/ submitted < m) /\ m <= submitted' => Queued(m)'
  BY DEF StepMoves
<1>5. ASSUME NEW m \in Messages
      PROVE  T(m) \in Service!Successors(S(m))
  <2> HIDE DEF S, T
  <2>1. CASE submitted < m
    BY <1>0, <1>1, <1>2, <1>3, <2>1 DEF Service!Successors
  <2>2. CASE m <= submitted
    <3>1. S(m) # "new" /\ T(m) # "new" /\ m <= submitted'
      BY <1>0, <1>1, <1>2, <2>2
    <3>2. ~(submitted < m)
      BY <1>0, <2>2
    <3> QED BY <1>1, <1>2, <1>3, <2>2, <3>1, <3>2 DEF Service!Successors
  <2> QED BY <1>0, <2>1, <2>2
<1>6. ASSUME NEW m \in Messages, S(m) = "new", T(m) # "new", NEW n \in Messages
      PROVE  IF n < m THEN S(n) # "new" ELSE T(n) = "new" \/ n = m
  <2> HIDE DEF S, T
  <2>1. submitted < m /\ m <= submitted'
    BY <1>0, <1>1, <1>2, <1>6
  <2>2. m = submitted + 1 /\ submitted' = submitted + 1
    BY <1>0, <2>1
  <2>3. CASE n < m
    <3>1. n <= submitted
      BY <1>0, <2>2, <2>3
    <3> QED BY <1>1, <2>3, <3>1
  <2>4. CASE n > m
    <3>1. n > submitted'
      BY <1>0, <2>2, <2>4
    <3> QED BY <1>2, <2>4, <3>1
  <2> QED BY <2>3, <2>4
<1>7. ASSUME NEW m \in Messages, NEW n \in Messages, n < m, S(m) # T(m),
             T(m) \in {"serving", "lost"}, S(m) # "serving"
      PROVE  T(n) # "waiting"
  <2> HIDE DEF S, T
  <2>1. SUFFICES ASSUME T(n) = "waiting" PROVE FALSE
    OBVIOUS
  <2>8. Queued(n)'
    BY <1>0, <1>2, <2>1
  <2>2. m <= submitted' /\ ~Queued(m)' /\ ~(m > submitted')
    BY <1>0, <1>2, <1>7
  <2>3. ~Queued(m) /\ ~(submitted < m)
    BY <1>4, <1>7, <2>8, <2>2
  <2>4. m <= submitted
    BY <1>0, <2>3
  <2>5. ~Answered(m) /\ m # currentMessage.msg
    BY <1>1, <1>2, <1>3, <1>7
  <2>6. S(m) = "lost"
    BY <1>1, <2>3, <2>4, <2>5
  <2>7. T(m) = "serving" /\ m = currentMessage'.msg
    BY <1>2, <1>7, <2>2, <2>6
  <2> QED BY <1>3, <2>3, <2>5, <2>7
<1>8. ASSUME NEW m \in Messages, NEW n \in Messages, T(m) = "serving", T(n) = "serving"
      PROVE  m = n
  <2> HIDE DEF S, T
  <2>1. ASSUME NEW k \in Messages, T(k) = "serving" PROVE k = currentMessage'.msg
    BY <1>0, <1>2, <2>1
  <2> QED BY <1>8, <2>1
<1> QED BY <1>5, <1>6, <1>7, <1>8

(* What is left of the queue, by its members: nothing new, and whatever    *)
(* came after a request that is left.  A request that has not expired is   *)
(* left in it or taken when it is the last.                                *)
LEMMA QueueMembers ==
  ASSUME NEW st \in States, NEW queue \in Seq(Nat), NEW current, NEW conns \in Connects,
         QueueProcessUnsafe(st, queue, current, conns), Increasing(queue)
  PROVE  /\ \A m \in Nat : In(m, messageQueue') => In(m, queue)
         /\ currentMessage'.msg # current.msg => In(currentMessage'.msg, queue)
         /\ \A m, n \in Nat :
              n < m /\ In(n, messageQueue') /\ In(m, queue) => In(m, messageQueue')
         /\ queue # <<>> /\ queue[Len(queue)] > overdue /\ overdue \in Nat =>
              \/ In(queue[Len(queue)], messageQueue')
              \/ currentMessage'.msg = queue[Len(queue)]
<1>0. Len(queue) \in Nat /\ \A i \in 1..Len(queue) : queue[i] \in Nat
  BY LenProperties, ElementOfSeq
<1>1. CASE QueueKept(queue, current)
  <2>1. queue # <<>> => In(queue[Len(queue)], queue)
    BY <1>0 DEF In
  <2> QED BY <1>1, <2>1 DEF QueueKept
<1>2. CASE QueueExpired(queue, current)
  <2>1. \A m : ~In(m, messageQueue')
    BY <1>2 DEF QueueExpired, In
  <2>2. queue # <<>> /\ overdue \in Nat => ~(queue[Len(queue)] > overdue)
    BY <1>0, <1>2 DEF QueueExpired
  <2> QED BY <1>2, <2>1, <2>2 DEF QueueExpired
<1>3. CASE QueueTaken(queue, current)
  <2>1. PICK n \in 0..Len(queue) :
          /\ n < Len(queue)
          /\ currentMessage' = [msg |-> queue[n + 1], id |-> NextTid]
          /\ messageQueue' = SubSeq(queue, n + 2, Len(queue))
    BY <1>3 DEF QueueTaken
  <2>2. /\ n \in Nat /\ currentMessage'.msg = queue[n + 1]
        /\ Len(messageQueue') = Len(queue) - n - 1
        /\ \A i \in 1..(Len(queue) - n - 1) : messageQueue'[i] = queue[n + 1 + i]
    BY <1>0, <2>1
  <2>3. \A m : In(m, messageQueue') <=> \E i \in (n + 2)..Len(queue) : queue[i] = m
    <3>1. ASSUME NEW i \in (n + 2)..Len(queue)
          PROVE  \E j \in 1..Len(messageQueue') : messageQueue'[j] = queue[i]
      <4>1. /\ i - n - 1 \in 1..(Len(queue) - n - 1)
            /\ n + 1 + (i - n - 1) = i
        BY <1>0, <2>1
      <4>2. messageQueue'[i - n - 1] = queue[i]
        BY <2>2, <4>1
      <4> QED BY <2>2, <4>1, <4>2
    <3>2. ASSUME NEW j \in 1..Len(messageQueue')
          PROVE  \E i \in (n + 2)..Len(queue) : queue[i] = messageQueue'[j]
      <4>1. n + 1 + j \in (n + 2)..Len(queue)
        BY <1>0, <2>1, <2>2
      <4> QED BY <2>2, <4>1
    <3> QED BY <3>1, <3>2 DEF In
  <2>4. n + 1 \in 1..Len(queue) /\ (n + 2)..Len(queue) \subseteq 1..Len(queue)
    BY <1>0, <2>1
  <2>5. In(currentMessage'.msg, queue)
    BY <1>0, <2>2, <2>4 DEF In
  <2>6. \A m \in Nat : In(m, messageQueue') => In(m, queue)
    BY <2>3, <2>4 DEF In
  <2>7. ASSUME NEW m \in Nat, NEW k \in Nat, k < m, In(k, messageQueue'), In(m, queue)
        PROVE  In(m, messageQueue')
    <3>1. PICK i \in (n + 2)..Len(queue) : queue[i] = k
      BY <2>3, <2>7
    <3>2. PICK j \in 1..Len(queue) : queue[j] = m
      BY <2>7 DEF In
    <3>3. ~(j < i)
      BY <2>4, <2>7, <3>1, <3>2 DEF Increasing
    <3>4. j \in (n + 2)..Len(queue)
      BY <1>0, <3>1, <3>2, <3>3
    <3> QED BY <2>3, <3>2, <3>4
  <2>8. In(queue[Len(queue)], messageQueue') \/ currentMessage'.msg = queue[Len(queue)]
    <3>1. CASE n + 1 = Len(queue)
      BY <2>2, <3>1
    <3>2. CASE n + 1 # Len(queue)
      <4>1. Len(queue) \in (n + 2)..Len(queue)
        BY <1>0, <2>1, <3>2
      <4> QED BY <2>3, <4>1
    <3> QED BY <3>1, <3>2
  <2> QED BY <2>5, <2>6, <2>7, <2>8
<1> QED BY <1>1, <1>2, <1>3, QueueOutcome

(* A new request: the queue it is appended to.                             *)
LEMMA Arrival ==
  ASSUME ClientAssumption, TypeInv, OrderInv, MessageProcess
  PROVE  LET k     == submitted + 1
             queue == Append(messageQueue, k)
         IN  /\ submitted' = k /\ delivered' = delivered
             /\ queue \in Seq(Nat) /\ queue # <<>> /\ queue[Len(queue)] = k
             /\ QueueProcessUnsafe(state, queue, currentMessage, connects)
             /\ Increasing(queue)
             /\ \A m : In(m, queue) <=> Queued(m) \/ m = k
<1> DEFINE k     == submitted + 1
           queue == Append(messageQueue, k)
<1>0. /\ QueueProcessUnsafe(state, queue, currentMessage, connects)
      /\ submitted' = k /\ delivered' = delivered
  BY DEF MessageProcess
<1>1. /\ queue \in Seq(Nat) /\ queue # <<>> /\ Len(queue) = Len(messageQueue) + 1
      /\ queue[Len(queue)] = k /\ \A i \in 1..Len(messageQueue) : queue[i] = messageQueue[i]
  <2>1. messageQueue \in Seq(Nat) /\ Len(messageQueue) \in Nat /\ k \in Nat
    BY OrderTypes
  <2> HIDE DEF k
  <2> QED BY <2>1
<1>2. \A i \in 1..Len(queue) :
        \/ i \in 1..Len(messageQueue) /\ queue[i] = messageQueue[i] /\ queue[i] < k
        \/ i = Len(messageQueue) + 1 /\ queue[i] = k
  <2> HIDE DEF queue
  <2> QED BY <1>1, OrderTypes
<1>3. ASSUME NEW i \in 1..Len(queue), NEW j \in 1..Len(queue), i < j
      PROVE  queue[i] < queue[j]
  <2> HIDE DEF queue, k
  <2>1. i \in 1..Len(messageQueue) /\ queue[i] = messageQueue[i] /\ queue[i] < k
    BY <1>1, <1>2, <1>3, OrderTypes
  <2>2. CASE j \in 1..Len(messageQueue) /\ queue[j] = messageQueue[j]
    BY <1>3, <2>1, <2>2 DEF OrderInv, Increasing
  <2>3. CASE queue[j] = k
    BY <2>1, <2>3
  <2> QED BY <1>2, <2>2, <2>3
<1>4. \A m : In(m, queue) <=> Queued(m) \/ m = k
  <2>1. \A i \in 1..Len(messageQueue) : i \in 1..Len(queue)
    BY <1>1, OrderTypes
  <2>2. Len(queue) \in 1..Len(queue)
    BY <1>1, OrderTypes
  <2> HIDE DEF queue, k
  <2> QED BY <1>1, <1>2, <2>1, <2>2 DEF In, Queued
<1> QED BY <1>0, <1>1, <1>3, <1>4 DEF Increasing

(* The outcome of a read: what is delivered and what is left in process.   *)
LEMMA Outcome ==
  ASSUME ClientAssumption, TypeInv, ReceiveSucceeded
  PROVE  LET after == AfterMakeResponse(received)
         IN  /\ QueueProcessUnsafe("Connected", messageQueue, after, connects)
             /\ submitted' = submitted /\ after \in {NoMessage, currentMessage}
             /\ \/ delivered' = delivered
                \/ delivered' = Append(delivered,
                                       [to |-> currentMessage.msg, for |-> received.for])
<1> DEFINE after == AfterMakeResponse(received)
<1>1. /\ QueueProcessUnsafe("Connected", messageQueue, after, connects)
      /\ delivered' = delivered \o MakeResponse(received)
      /\ submitted' = submitted /\ after \in {NoMessage, currentMessage}
  BY DEF ReceiveSucceeded, clock, AfterMakeResponse
<1>2. MakeResponse(received) \in {<<>>, << [to |-> currentMessage.msg, for |-> received.for] >>}
  BY DEF MakeResponse
<1>3. CASE MakeResponse(received) = << [to |-> currentMessage.msg, for |-> received.for] >>
  <2>1. delivered' = Append(delivered, [to |-> currentMessage.msg, for |-> received.for])
    BY <1>1, <1>3, OrderTypes
  <2> QED BY <1>1, <2>1
<1>4. CASE MakeResponse(received) = <<>>
  <2>1. delivered' = delivered
    BY <1>1, <1>4, OrderTypes
  <2> QED BY <1>1, <2>1
<1> QED BY <1>2, <1>3, <1>4

(* The rest of the steps leave the queue and the answers alone.            *)
LEMMA OtherSteps ==
  ASSUME [Next]_vars
  PROVE  \/ MessageProcess \/ ConnectSucceeded \/ ReceiveSucceeded
         \/ /\ UNCHANGED <<submitted, messageQueue, delivered>>
            /\ currentMessage' \in {NoMessage, currentMessage}
<1>1. CASE SendFailed \/ ReceiveFailed
  BY <1>1 DEF SendFailed, ReceiveFailed, AbandonExchange, clock
<1>2. ConnectFailed \/ SendSucceeded \/ WaitExpired \/ Kernel \/ Environment \/ UNCHANGED vars =>
        UNCHANGED <<submitted, messageQueue, currentMessage, delivered>>
  BY DEF ConnectFailed, SendSucceeded, WaitExpired, Kernel, KernelConnects, KernelSends,
         KernelReceives, TimerExpires, Environment, TimePasses, DeviceAnswers, LinkBreaks,
         clock, vars
<1> QED BY <1>1, <1>2 DEF Next, Handlers

(* The handlers that look at the queue as it is.                           *)
LEMMA MovesQueue ==
  ASSUME ClientAssumption, TypeInv, OrderInv,
         NEW st \in States, NEW current \in {NoMessage, currentMessage}, NEW conns \in Connects,
         QueueProcessUnsafe(st, messageQueue, current, conns)
  PROVE  \A m \in Messages :
           /\ Queued(m)' => Queued(m)
           /\ m = currentMessage'.msg => m = currentMessage.msg \/ Queued(m)
           /\ \A n \in Messages : n < m /\ Queued(n)' /\ Queued(m) => Queued(m)'
<1>1. Increasing(messageQueue) /\ messageQueue \in Seq(Nat)
  BY OrderTypes DEF OrderInv
<1>2. /\ \A m \in Nat : In(m, messageQueue') => In(m, messageQueue)
      /\ currentMessage'.msg # current.msg => In(currentMessage'.msg, messageQueue)
      /\ \A m, n \in Nat :
           n < m /\ In(n, messageQueue') /\ In(m, messageQueue) => In(m, messageQueue')
  BY <1>1, QueueMembers
<1>3. current.msg \in {0, currentMessage.msg}
  BY DEF NoMessage
<1>4. ASSUME NEW m \in Messages PROVE m \in Nat /\ m # 0 /\ (Queued(m)' <=> In(m, messageQueue'))
  BY DEF ClientAssumption, Queued, In
<1>5. \A m : Queued(m) <=> In(m, messageQueue)
  BY DEF Queued, In
<1> QED BY <1>2, <1>3, <1>4, <1>5

LEMMA MovesStep ==
  ASSUME ClientAssumption, TypeInv, OrderInv, [Next]_vars
  PROVE  StepMoves
<1>0. submitted \in Nat /\ currentMessage.msg \in Nat /\ currentMessage.msg <= submitted
      /\ messageQueue \in Seq(Nat) /\ delivered \in Seq([to : Messages, for : Messages])
      /\ connects \in Connects /\ state \in States
  BY OrderTypes DEF OrderInv
<1>m. \A m \in Messages : m \in Nat /\ m # 0 /\ (submitted < m => ~(m <= submitted))
  BY <1>0 DEF ClientAssumption
<1>1. CASE MessageProcess
  <2> DEFINE k     == submitted + 1
             queue == Append(messageQueue, k)
  <2>1. /\ submitted' = k /\ delivered' = delivered
        /\ queue \in Seq(Nat) /\ queue # <<>> /\ queue[Len(queue)] = k
        /\ QueueProcessUnsafe(state, queue, currentMessage, connects)
        /\ Increasing(queue)
        /\ \A m : In(m, queue) <=> Queued(m) \/ m = k
    BY <1>1, Arrival
  <2>2. \A m \in Messages : submitted < m /\ m <= k => m = k
    BY <1>0
  <2>3. k > overdue /\ overdue \in Nat /\ submitted < k
    BY <1>0 DEF TypeInv, TypeOK
  <2> HIDE DEF queue, k
  <2>4. /\ \A m \in Nat : In(m, messageQueue') => In(m, queue)
        /\ currentMessage'.msg # currentMessage.msg => In(currentMessage'.msg, queue)
        /\ \A m, n \in Nat : n < m /\ In(n, messageQueue') /\ In(m, queue) => In(m, messageQueue')
        /\ In(k, messageQueue') \/ currentMessage'.msg = k
    <3>1. queue # <<>> /\ queue[Len(queue)] > overdue /\ overdue \in Nat
      BY <2>1, <2>3
    <3>2. /\ state \in States /\ queue \in Seq(Nat) /\ connects \in Connects
          /\ QueueProcessUnsafe(state, queue, currentMessage, connects) /\ Increasing(queue)
      BY <1>0, <2>1
    <3>3. /\ \A m \in Nat : In(m, messageQueue') => In(m, queue)
          /\ currentMessage'.msg # currentMessage.msg => In(currentMessage'.msg, queue)
          /\ \A m, n \in Nat :
               n < m /\ In(n, messageQueue') /\ In(m, queue) => In(m, messageQueue')
          /\ \/ In(queue[Len(queue)], messageQueue')
             \/ currentMessage'.msg = queue[Len(queue)]
      BY <3>1, <3>2, QueueMembers
    <3> QED BY <2>1, <3>3
  <2>5. ASSUME NEW m \in Nat PROVE Queued(m)' <=> In(m, messageQueue')
    BY DEF Queued, In
  <2>6. /\ \A m \in Nat : Queued(m)' => Queued(m) \/ m = k
        /\ currentMessage'.msg # currentMessage.msg =>
             Queued(currentMessage'.msg) \/ currentMessage'.msg = k
        /\ \A m, n \in Nat : n < m /\ Queued(n)' /\ (Queued(m) \/ m = k) => Queued(m)'
        /\ \A m \in Nat : m = k => Queued(m)' \/ currentMessage'.msg = m
    BY <2>1, <2>4, <2>5
  <2>7. \A m \in Messages : Answered(m)' <=> Answered(m)
    BY <2>1 DEF Answered
  <2>8. \A m \in Messages :
          /\ Queued(m)' => Queued(m) \/ submitted < m
          /\ m = currentMessage'.msg => m = currentMessage.msg \/ Queued(m) \/ submitted < m
          /\ submitted < m /\ m <= submitted' => Queued(m)' \/ m = currentMessage'.msg
    BY <1>m, <2>1, <2>2, <2>3, <2>6
  <2>9. \A m, n \in Messages :
          n < m /\ Queued(n)' /\ (Queued(m) \/ submitted < m) /\ m <= submitted' => Queued(m)'
    BY <1>m, <2>1, <2>2, <2>6
  <2> QED BY <2>1, <2>7, <2>8, <2>9 DEF StepMoves, k
<1>2. CASE ConnectSucceeded
  <2> DEFINE conns == [connects EXCEPT !.ok = @ - 1]
  <2>1. submitted' = submitted /\ delivered' = delivered
    BY <1>2 DEF ConnectSucceeded, clock
  <2>2. \A m \in Messages : Answered(m)' <=> Answered(m)
    BY <2>1 DEF Answered
  <2>3. CASE QueueProcessUnsafe("Connected", messageQueue, currentMessage, conns)
    <3>1. conns \in Connects
      BY <1>0, <1>2 DEF ConnectSucceeded, Connects
    <3> HIDE DEF conns
    <3> QED BY <1>m, <2>1, <2>2, <2>3, <3>1, MovesQueue DEF StepMoves, States
  <2>4. CASE UNCHANGED <<messageQueue, currentMessage>>
    <3>1. \A m \in Messages : Queued(m)' <=> Queued(m)
      BY <2>4 DEF Queued
    <3> QED BY <1>m, <2>1, <2>2, <2>4, <3>1 DEF StepMoves
  <2> QED BY <1>2, <2>3, <2>4 DEF ConnectSucceeded
<1>3. CASE ReceiveSucceeded
  <2> DEFINE after == AfterMakeResponse(received)
  <2>1. /\ QueueProcessUnsafe("Connected", messageQueue, after, connects)
        /\ submitted' = submitted
        /\ after \in {NoMessage, currentMessage}
        /\ \/ delivered' = delivered
           \/ delivered' = Append(delivered,
                                  [to |-> currentMessage.msg, for |-> received.for])
    BY <1>3, Outcome
  <2> HIDE DEF after
  <2>2. \A m \in Messages : /\ Answered(m) => Answered(m)'
                            /\ Answered(m)' => Answered(m) \/ m = currentMessage.msg
    <3>1. CASE delivered' = delivered
      BY <3>1 DEF Answered
    <3>2. CASE delivered' = Append(delivered, [to |-> currentMessage.msg, for |-> received.for])
      <4>1. /\ Len(delivered') = Len(delivered) + 1 /\ Len(delivered) \in Nat
            /\ delivered'[Len(delivered) + 1].to = currentMessage.msg
            /\ \A i \in 1..Len(delivered) : delivered'[i] = delivered[i]
        BY <1>0, <3>2
      <4>2. \A i \in 1..(Len(delivered) + 1) : i \in 1..Len(delivered) \/ i = Len(delivered) + 1
        BY <4>1
      <4>3. \A i \in 1..Len(delivered) : i \in 1..(Len(delivered) + 1)
        BY <4>1
      <4> QED BY <4>1, <4>2, <4>3 DEF Answered
    <3> QED BY <2>1, <3>1, <3>2
  <2> QED BY <1>0, <1>m, <2>1, <2>2, MovesQueue DEF StepMoves, States
<1>4. CASE /\ UNCHANGED <<submitted, messageQueue, delivered>>
           /\ currentMessage' \in {NoMessage, currentMessage}
  <2>1. \A m \in Messages : (Queued(m)' <=> Queued(m)) /\ (Answered(m)' <=> Answered(m))
    BY <1>4 DEF Queued, Answered
  <2>2. currentMessage'.msg \in {0, currentMessage.msg}
    BY <1>4 DEF NoMessage
  <2> QED BY <1>0, <1>m, <1>4, <2>1, <2>2 DEF StepMoves
<1> QED BY <1>1, <1>2, <1>3, <1>4, OtherSteps

(* What a step gives to the slaves: nothing, or the answer that was read.  *)
LEMMA GivenStep ==
  ASSUME ClientAssumption, TypeInv, [Next]_vars
  PROVE  \/ delivered' = delivered
         \/ delivered' = Append(delivered, [to |-> currentMessage.msg, for |-> received.for])
<1>1. CASE MessageProcess \/ ConnectSucceeded
  BY <1>1 DEF MessageProcess, ConnectSucceeded
<1>2. CASE ReceiveSucceeded
  BY <1>2, Outcome
<1> QED BY <1>1, <1>2, OtherSteps

(* What a step does to the answers: a request that is answered in it is    *)
(* given its own answer, the others keep theirs.                           *)
LEMMA AnswersStep ==
  ASSUME ClientAssumption, TypeInv, OrderInv, AnswerMatches', [Next]_vars
  PROVE  \A m \in Messages :
           IF StatusOf(m)' = "answered" /\ StatusOf(m) # "answered"
           THEN AnswerOf(m)' \in Service!MayBeGiven(m)
           ELSE AnswerOf(m)' = AnswerOf(m)
<1>1. \A m \in Messages : (StatusOf(m) = "answered") <=> Answered(m)
  BY DEF StatusOf, Answered
<1>2. \A m \in Messages : (StatusOf(m)' = "answered") <=> Answered(m)'
  BY DEF StatusOf, Answered
<1>3. AnswersKnown /\ AnswersKnown'
  <2>1. TypeInv' /\ OrderInv'
    BY TypeStep, OrderStep
  <2> QED BY <2>1, AnswerGiven, PTL
<1>4. \A a \in 1..Len(delivered) : a \in 1..Len(delivered') /\ delivered'[a] = delivered[a]
  <2>1. CASE delivered' = delivered
    BY <2>1
  <2>2. CASE delivered' = Append(delivered, [to |-> currentMessage.msg, for |-> received.for])
    BY <2>2, OrderTypes
  <2> QED BY <2>1, <2>2, GivenStep
<1>5. ASSUME NEW m \in Messages
      PROVE  IF StatusOf(m)' = "answered" /\ StatusOf(m) # "answered"
             THEN AnswerOf(m)' \in Service!MayBeGiven(m)
             ELSE AnswerOf(m)' = AnswerOf(m)
  <2>1. CASE Answered(m)
    <3>1. PICK a \in 1..Len(delivered) : delivered[a].to = m
      BY <2>1 DEF Answered
    <3>2. AnswerOf(m) = delivered[a].for
      BY <1>3, <3>1 DEF AnswersKnown
    <3>3. AnswerOf(m)' = delivered[a].for
      BY <1>3, <1>4, <3>1 DEF AnswersKnown
    <3> QED BY <1>1, <2>1, <3>2, <3>3
  <2>2. CASE ~Answered(m) /\ Answered(m)'
    <3>1. PICK a \in 1..Len(delivered') : delivered'[a].to = m
      BY <2>2 DEF Answered
    <3>2. AnswerOf(m)' = delivered'[a].for
      BY <1>3, <3>1 DEF AnswersKnown
    <3>3. delivered'[a].for = m
      BY <3>1 DEF AnswerMatches
    <3> QED BY <1>1, <1>2, <2>2, <3>2, <3>3 DEF Service!MayBeGiven
  <2>3. CASE ~Answered(m) /\ ~Answered(m)'
    BY <1>2, <1>3, <2>3 DEF AnswersKnown
  <2> QED BY <2>1, <2>2, <2>3
<1> QED BY <1>5

(* Every step of the master is a step of the service.                      *)
LEMMA ServiceStep ==
  ClientAssumption =>
    (TypeInv /\ OrderInv /\ AnswerMatches' /\ [Next]_vars => Service!ServiceNext)
<1> SUFFICES ASSUME ClientAssumption, TypeInv, OrderInv, AnswerMatches', [Next]_vars
             PROVE  Service!ServiceNext
  OBVIOUS
<1>0. TypeInv' /\ OrderInv' /\ StepMoves
  BY TypeStep, OrderStep, MovesStep
<1>1. PlacesApart' /\ AnswersKnown'
  BY <1>0, Places, AnswerGiven, PTL
<1>2. \A m \in Messages : StatusOf(m)' \in Service!Statuses
  BY <1>1 DEF PlacesApart, Service!Statuses
<1>3. \A m \in Messages : AnswerOf(m)' \in 0..MaxMessages
  <2>1. \A m \in Messages : m \in 0..MaxMessages /\ 0 \in 0..MaxMessages
    BY DEF ClientAssumption
  <2>2. ASSUME NEW m \in Messages, Answered(m)' PROVE AnswerOf(m)' = m
    BY <1>1, <2>2 DEF AnswersKnown, Answered, AnswerMatches
  <2> QED BY <1>1, <2>1, <2>2 DEF AnswersKnown
<1>4. /\ \A m \in Messages : StatusOf(m)' \in Service!Successors(StatusOf(m))
      /\ \A m \in Messages :
           (StatusOf(m) = "new" /\ StatusOf(m)' # "new") =>
             \A n \in Messages : IF n < m THEN StatusOf(n) # "new"
                                          ELSE StatusOf(n)' = "new" \/ n = m
      /\ \A m, n \in Messages :
           (n < m /\ StatusOf(m) # StatusOf(m)' /\ StatusOf(m)' \in {"serving", "lost"}
                  /\ StatusOf(m) # "serving")
             => StatusOf(n)' # "waiting"
      /\ \A m, n \in Messages : StatusOf(m)' = "serving" /\ StatusOf(n)' = "serving" => m = n
  BY <1>0, StatusStep
<1>5. \A m \in Messages :
        IF StatusOf(m)' = "answered" /\ StatusOf(m) # "answered"
        THEN AnswerOf(m)' \in Service!MayBeGiven(m)
        ELSE AnswerOf(m)' = AnswerOf(m)
  BY AnswersStep
<1>6. Service!ArrivalsInOrder /\ Service!DeparturesInOrder /\ Service!SingleServing
  BY <1>4 DEF Service!ArrivalsInOrder, Service!DeparturesInOrder, Service!SingleServing,
              Service!Messages
<1>7. Service!AnswersFitting
  BY <1>5 DEF Service!AnswersFitting, Service!Messages
<1> QED BY <1>2, <1>3, <1>4, <1>6, <1>7 DEF Service!ServiceNext, Service!Messages

(* Through failed connects, broken connections, stale connect handlers and *)
(* late answers, the TCP master keeps the promise the slaves rely on, and  *)
(* its transaction ids make it the exact one: every answer it gives is the *)
(* answer to the request it is given for.  The ids must not wrap.          *)
THEOREM ClientImplementsService ==
  ClientAssumption /\ NoWrap => (Spec => ImplementsService)
<1> SUFFICES ASSUME ClientAssumption, NoWrap
             PROVE  Spec => ImplementsService
  OBVIOUS
<1>1. Init => Service!ServiceInit
  <2> SUFFICES ASSUME Init PROVE Service!ServiceInit
    OBVIOUS
  <2>1. \A m \in Messages : StatusOf(m) = "new" /\ AnswerOf(m) = 0
    BY DEF Init, StatusOf, AnswerOf, NoMessage, ClientAssumption
  <2> QED BY <2>1 DEF Service!ServiceInit, Service!Messages
<1>2. Init => TypeInv /\ OrderInv /\ IdInv
  <2>1. Init => OrderInv
    BY DEF Init, OrderInv, AnswersInOrder, Increasing, Above, NoMessage
  <2> QED BY <2>1, TypeInit, IdInit
<1>3. TypeInv /\ OrderInv /\ IdInv /\ [Next]_vars => (TypeInv /\ OrderInv /\ IdInv)'
  BY TypeStep, OrderStep, IdStep
<1>4. IdInv => AnswerMatches
  BY DEF IdInv
<1>5. TypeInv /\ OrderInv /\ IdInv /\ [Next]_vars => Service!ServiceNext
  <2> SUFFICES ASSUME TypeInv, OrderInv, IdInv, [Next]_vars PROVE Service!ServiceNext
    OBVIOUS
  <2>1. AnswerMatches'
    BY <1>3, <1>4, PTL
  <2> QED BY <2>1, ServiceStep
<1> QED BY <1>1, <1>2, <1>3, <1>5, PTL
        DEF Spec, ImplementsService, Service!ServiceSpec
=============================================================================
