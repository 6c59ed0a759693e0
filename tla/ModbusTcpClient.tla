-------------------------- MODULE ModbusTcpClient --------------------------
(***************************************************************************)
(* The TCP master of the gateway: transport/modbus_tcp_client.cpp.         *)
(*                                                                         *)
(* The actor owns one TCP socket to a Modbus device.  Requests arrive      *)
(* through Receive/MessageProcess, wait in messageQueue_, and are sent one *)
(* at a time.  All the rest happens in the completion handlers of asio.    *)
(* Each handler holds m_ from its first statement to its last, so each is  *)
(* one action; between the moment the kernel completes an operation and    *)
(* the moment its handler runs, other handlers and new requests may run,   *)
(* in any order.                                                           *)
(*                                                                         *)
(* A request is represented by its arrival number.  Time appears only as   *)
(* the number of requests whose age has reached timeout_: the oldest       *)
(* requests reach it first, because the age counts from the creation of    *)
(* the message and a message is submitted by the handler that creates it.  *)
(***************************************************************************)
EXTENDS Naturals, Sequences

CONSTANTS
  MaxMessages,   \* requests ever submitted to this actor
  TidMod         \* size of modbus::TransactionId; 2^16 in the code

ASSUME ClientAssumption ==
  /\ MaxMessages \in Nat \ {0}
  /\ TidMod \in Nat \ {0}

VARIABLES
  submitted,       \* how many requests have been submitted
  overdue,         \* requests 1..overdue have reached timeout_
  messageQueue,    \* messageQueue_
  currentMessage,  \* currentMessage_: the request and the id it was sent with
  tidGen,          \* transactionIdGenerator_
  state,           \* state_
  link,            \* the TCP connection under socket_
  connects,        \* async_connect calls not yet handled, by kernel outcome
  sendOp,          \* the outstanding async_send
  recvOp,          \* the outstanding async_receive
  received,        \* what the last completed async_receive read
  timer,           \* timer_: 0, or the last request its deadline is later than
  fired,           \* expirations of timer_ whose handler has not run
  atDevice,        \* requests of this connection the device may still answer
  inbox,           \* answers that have arrived and have not been read
  delivered,       \* history: the answers sent to slaves
  running          \* the io_context is still run (no exception left a handler)

vars == <<submitted, overdue, messageQueue, currentMessage, tidGen, state,
          link, connects, sendOp, recvOp, received, timer, fired, atDevice,
          inbox, delivered, running>>

clock  == <<submitted, overdue>>
wire   == <<atDevice, inbox, received>>
timing == <<timer, fired>>

Messages  == 1..MaxMessages
Tids      == 0..(TidMod - 1)
NoMessage == [msg |-> 0, id |-> 0]
Current   == {NoMessage} \cup [msg : Messages, id : Tids]
States    == {"Idle", "WaitConnect", "Connected", "MessageProcess"}
IoStates  == {"none", "pending", "done", "failed", "aborted"}

(***************************************************************************)
(* What one read returns.  "whole" is exactly one answer frame; "damaged"  *)
(* is anything else that SetAduSize accepts and Check refuses (a corrupted *)
(* frame, a piece of one, several at once); "short" is a read whose size   *)
(* SetAduSize refuses.  id is the transaction id of the frame and for the  *)
(* request whose answer it carries.                                        *)
(***************************************************************************)
Kinds    == {"whole", "damaged", "short"}
Frames   == [kind : Kinds, id : Tids, for : Messages]
NoFrame  == [kind |-> "damaged", id |-> 0, for |-> 1]
Requests == [id : Tids, for : Messages]

TypeOK ==
  /\ submitted \in 0..MaxMessages
  /\ overdue \in 0..submitted
  /\ messageQueue \in Seq(1..submitted)
  /\ currentMessage \in Current
  /\ tidGen \in Tids
  /\ state \in States
  /\ link \in {"down", "up", "broken"}
  /\ connects \in [pending : 0..1, ok : Nat, failed : Nat]
  /\ sendOp \in IoStates
  /\ recvOp \in IoStates
  /\ received \in Frames
  /\ timer \in 0..submitted
  /\ fired \in Nat
  /\ atDevice \subseteq Requests
  /\ inbox \in Seq(Frames)
  /\ delivered \in Seq([to : Messages, for : Messages])
  /\ running \in BOOLEAN

Init ==
  /\ submitted = 0
  /\ overdue = 0
  /\ messageQueue = <<>>
  /\ currentMessage = NoMessage
  /\ tidGen = 0
  /\ state = "Idle"
  /\ link = "down"
  /\ connects = [pending |-> 0, ok |-> 0, failed |-> 0]
  /\ sendOp = "none"
  /\ recvOp = "none"
  /\ received = NoFrame
  /\ timer = 0
  /\ fired = 0
  /\ atDevice = {}
  /\ inbox = <<>>
  /\ delivered = <<>>
  /\ running = TRUE
-----------------------------------------------------------------------------
(***************************************************************************)
(* The members with the suffix Unsafe, and the helpers they use.  They run *)
(* inside a handler, on the values the handler has computed so far.        *)
(***************************************************************************)

(* A pending operation completes with operation_aborted; one the kernel    *)
(* has already completed keeps its result.                                 *)
Aborted(op) == IF op = "pending" THEN "aborted" ELSE op

AbortedConnects(c) ==
  [pending |-> 0, ok |-> c.ok, failed |-> c.failed + c.pending]

(* async_connect with conns outstanding.  On a socket that is already       *)
(* connecting or connected it completes at once with an error, except that *)
(* connect() reports the success of an attempt the reactor has not         *)
(* collected yet.                                                          *)
StartConnectTaskUnsafe(conns) ==
  \/ /\ link = "down" /\ conns.pending = 0
     /\ connects' = [conns EXCEPT !.pending = 1]
  \/ /\ link # "down" \/ conns.pending = 1
     /\ connects' = [conns EXCEPT !.failed = @ + 1]
  \/ /\ link = "up" /\ conns.ok > 0
     /\ connects' = [conns EXCEPT !.ok = @ + 1]

(* The leading requests that TimeoutReached reports are dropped. *)
ExpiredPrefix(queue, n) ==
  /\ \A i \in 1..n : queue[i] <= overdue
  /\ n < Len(queue) => queue[n + 1] > overdue

(* Variant: the id does not wrap. *)
NextTidNoWrap == tidGen + 1
NextTid == (tidGen + 1) % TidMod

(* Variant: the request stays in the queue. *)
TakeNextWithoutPop(queue) ==
  \E n \in 0..Len(queue) :
    /\ ExpiredPrefix(queue, n)
    /\ \/ n = Len(queue) /\ state' = "Connected" /\ messageQueue' = <<>>
          /\ currentMessage' = NoMessage /\ UNCHANGED <<tidGen, sendOp>>
       \/ n < Len(queue) /\ state' = "MessageProcess" /\ sendOp' = "pending"
          /\ tidGen' = NextTid /\ messageQueue' = SubSeq(queue, n + 1, Len(queue))
          /\ currentMessage' = [msg |-> queue[n + 1], id |-> NextTid]

(* Takes the first request that has not expired, gives it the next         *)
(* transaction id and starts its async_send.                               *)
TakeNext(queue) ==
  \E n \in 0..Len(queue) :
    /\ ExpiredPrefix(queue, n)
    /\ \/ /\ n = Len(queue)
          /\ state' = "Connected"
          /\ messageQueue' = <<>>
          /\ currentMessage' = NoMessage
          /\ UNCHANGED <<tidGen, sendOp>>
       \/ /\ n < Len(queue)
          /\ state' = "MessageProcess"
          /\ tidGen' = NextTid
          /\ currentMessage' = [msg |-> queue[n + 1], id |-> NextTid]
          /\ messageQueue' = SubSeq(queue, n + 2, Len(queue))
          /\ sendOp' = "pending"

(* Variant: without the test for a message in process. *)
StartMessageTaskUnguarded(queue, current) == TakeNext(queue)

(* Runs with state_ = Connected. *)
StartMessageTaskUnsafe(queue, current) ==
  \/ /\ current # NoMessage
     /\ state' = "Connected"
     /\ messageQueue' = queue
     /\ currentMessage' = current
     /\ UNCHANGED <<tidGen, sendOp>>
  \/ /\ current = NoMessage
     /\ TakeNext(queue)

(* The parameters are the values the members have when it is called. *)
QueueProcessUnsafe(st, queue, current, conns) ==
  \/ /\ queue = <<>> \/ st \in {"WaitConnect", "MessageProcess"}
     /\ state' = st
     /\ messageQueue' = queue
     /\ currentMessage' = current
     /\ connects' = conns
     /\ UNCHANGED <<tidGen, sendOp>>
  \/ /\ queue # <<>> /\ st = "Idle"
     /\ StartConnectTaskUnsafe(conns)
     /\ state' = st
     /\ messageQueue' = queue
     /\ currentMessage' = current
     /\ UNCHANGED <<tidGen, sendOp>>
  \/ /\ queue # <<>> /\ st = "Connected"
     /\ StartMessageTaskUnsafe(queue, current)
     /\ connects' = conns

(* Closing the socket drops what was not read, and the device can no       *)
(* longer answer on this connection.                                       *)
CloseSocket ==
  /\ link' = "down"
  /\ connects' = AbortedConnects(connects)
  /\ atDevice' = {}
  /\ inbox' = <<>>

StartWaitTask == timer' = submitted
StartReceiveTask == recvOp' = "pending"

(* Variant: state_ stays Connected after an error. *)
AbandonExchangeStaysConnected(op) ==
  /\ currentMessage' = NoMessage
  /\ state' = "Connected"
  /\ IF op = "failed" THEN CloseSocket ELSE UNCHANGED <<link, connects, atDevice, inbox>>

(* The end of an exchange whose send or receive handler got an error: an   *)
(* aborted operation leaves the connection in place, any other error       *)
(* closes it.  Neither looks at the queue.                                 *)
AbandonExchange(op) ==
  /\ currentMessage' = NoMessage
  /\ \/ /\ op = "aborted"
        /\ state' = "Connected"
        /\ UNCHANGED <<link, connects, atDevice, inbox>>
     \/ /\ op = "failed"
        /\ state' = "Idle"
        /\ CloseSocket
-----------------------------------------------------------------------------
(***************************************************************************)
(* The operations of the actor.                                            *)
(***************************************************************************)

(* Variant: the newest request goes first. *)
MessageProcessAtFront ==
  /\ running
  /\ submitted < MaxMessages
  /\ submitted' = submitted + 1
  /\ QueueProcessUnsafe(state, <<submitted + 1>> \o messageQueue, currentMessage, connects)
  /\ UNCHANGED <<overdue, link, recvOp, wire, timing, delivered, running>>

(* A slave forwards a request: MessageProcess, from Receive. *)
MessageProcess ==
  /\ running
  /\ submitted < MaxMessages
  /\ submitted' = submitted + 1
  /\ QueueProcessUnsafe(state, Append(messageQueue, submitted + 1), currentMessage, connects)
  /\ UNCHANGED <<overdue, link, recvOp, wire, timing, delivered, running>>

(* The handler of async_connect, with an error. *)
ConnectFailed ==
  /\ running
  /\ connects.failed > 0
  /\ connects' = [connects EXCEPT !.failed = @ - 1]
  /\ state' = "Idle"
  /\ UNCHANGED <<clock, messageQueue, currentMessage, tidGen, link, sendOp,
                 recvOp, wire, timing, delivered, running>>

(* The handler of async_connect, without one.  It calls remote_endpoint()  *)
(* for the log, which throws when the peer has reset the connection or the *)
(* socket has been closed since; the exception leaves io_context::run.     *)
ConnectSucceeded ==
  /\ running
  /\ connects.ok > 0
  /\ LET conns == [connects EXCEPT !.ok = @ - 1]
     IN \/ /\ link # "down"
           /\ QueueProcessUnsafe("Connected", messageQueue, currentMessage, conns)
           /\ UNCHANGED running
        \/ /\ link # "up"
           /\ running' = FALSE
           /\ state' = "Connected"
           /\ connects' = conns
           /\ UNCHANGED <<messageQueue, currentMessage, tidGen, sendOp>>
  /\ UNCHANGED <<clock, link, recvOp, wire, timing, delivered>>

(* Variant: the wait is not started. *)
SendSucceededWithoutTimer ==
  /\ running
  /\ sendOp = "done"
  /\ sendOp' = "none"
  /\ StartReceiveTask
  /\ UNCHANGED <<clock, messageQueue, currentMessage, tidGen, state, link,
                 connects, wire, timing, delivered, running>>

(* The handler of async_send. *)
SendSucceeded ==
  /\ running
  /\ sendOp = "done"
  /\ sendOp' = "none"
  /\ StartWaitTask
  /\ StartReceiveTask
  /\ UNCHANGED <<clock, messageQueue, currentMessage, tidGen, state, link,
                 connects, wire, fired, delivered, running>>

SendFailed ==
  /\ running
  /\ sendOp \in {"failed", "aborted"}
  /\ sendOp' = "none"
  /\ AbandonExchange(sendOp)
  /\ recvOp' = recvOp
  /\ UNCHANGED <<clock, messageQueue, tidGen, received, timing, delivered, running>>

(* Variant: nothing is cancelled. *)
WaitExpiredWithoutCancel ==
  /\ running
  /\ fired > 0
  /\ fired' = fired - 1
  /\ UNCHANGED <<clock, messageQueue, currentMessage, tidGen, state, link,
                 connects, sendOp, recvOp, wire, timer, delivered, running>>

(* The handler of the wait, when timer_ expired: cancel() aborts whatever  *)
(* the socket has outstanding at this moment.                              *)
WaitExpired ==
  /\ running
  /\ fired > 0
  /\ fired' = fired - 1
  /\ connects' = AbortedConnects(connects)
  /\ sendOp' = Aborted(sendOp)
  /\ recvOp' = Aborted(recvOp)
  /\ UNCHANGED <<clock, messageQueue, currentMessage, tidGen, state, link,
                 wire, timer, delivered, running>>

(* Variant: transaction ids are not compared. *)
MakeResponseAnyId(frame) ==
  IF currentMessage # NoMessage /\ frame.kind = "whole"
  THEN << [to |-> currentMessage.msg, for |-> frame.for] >>
  ELSE <<>>

(* Variant: a refused frame leaves currentMessage_ as it is. *)
AfterMakeResponseChecksFirst(frame) ==
  IF frame.kind # "whole" THEN currentMessage ELSE NoMessage

(* MakeResponse on the frame just read: the answer it returns, as a        *)
(* sequence of at most one, and what it leaves in currentMessage_.         *)
MakeResponse(frame) ==
  IF /\ currentMessage # NoMessage
     /\ frame.kind = "whole"
     /\ frame.id = currentMessage.id
  THEN << [to |-> currentMessage.msg, for |-> frame.for] >>
  ELSE <<>>

AfterMakeResponse(frame) ==
  IF frame.kind = "short" THEN currentMessage ELSE NoMessage

(* Variant: the queue is not looked at. *)
ReceiveSucceededIgnoresQueue ==
  /\ running
  /\ recvOp = "done"
  /\ recvOp' = "none"
  /\ timer' = 0
  /\ delivered' = delivered \o MakeResponse(received)
  /\ currentMessage' = AfterMakeResponse(received)
  /\ state' = "Connected"
  /\ UNCHANGED <<clock, messageQueue, tidGen, link, connects, sendOp, wire, fired, running>>

(* The handler of async_receive. *)
ReceiveSucceeded ==
  /\ running
  /\ recvOp = "done"
  /\ recvOp' = "none"
  /\ timer' = 0
  /\ delivered' = delivered \o MakeResponse(received)
  /\ QueueProcessUnsafe("Connected", messageQueue, AfterMakeResponse(received), connects)
  /\ UNCHANGED <<clock, link, wire, fired, running>>

ReceiveFailed ==
  /\ running
  /\ recvOp \in {"failed", "aborted"}
  /\ recvOp' = "none"
  /\ timer' = 0
  /\ AbandonExchange(recvOp)
  /\ sendOp' = sendOp
  /\ UNCHANGED <<clock, messageQueue, tidGen, received, fired, delivered, running>>
-----------------------------------------------------------------------------
(***************************************************************************)
(* The kernel, the network and the device.                                 *)
(***************************************************************************)
KernelConnects ==
  /\ running
  /\ connects.pending = 1
  /\ \/ /\ link' = "up"
        /\ connects' = [pending |-> 0, ok |-> connects.ok + 1, failed |-> connects.failed]
     \/ /\ link' = link
        /\ connects' = AbortedConnects(connects)
  /\ UNCHANGED <<clock, messageQueue, currentMessage, tidGen, state, sendOp,
                 recvOp, wire, timing, delivered, running>>

(* The bytes are accepted by the kernel.  The request may still never      *)
(* reach the device, or not in full.                                       *)
KernelSends ==
  /\ running
  /\ sendOp = "pending"
  /\ \/ /\ link = "up"
        /\ sendOp' = "done"
        /\ atDevice' \in {atDevice, atDevice \cup
                            {[id |-> currentMessage.id, for |-> currentMessage.msg]}}
     \/ /\ link = "broken"
        /\ sendOp' = "done"
        /\ UNCHANGED atDevice
     \/ /\ link # "up"
        /\ sendOp' = "failed"
        /\ UNCHANGED atDevice
  /\ UNCHANGED <<clock, messageQueue, currentMessage, tidGen, state, link,
                 connects, recvOp, received, inbox, timing, delivered, running>>

(* One read returns one segment, or several at once, which no check takes  *)
(* for a frame.  A read on a connection that ended reports it.             *)
KernelReceives ==
  /\ running
  /\ recvOp = "pending"
  /\ \/ \E n \in 1..Len(inbox) :
          /\ received' = IF n = 1 THEN inbox[1] ELSE [inbox[1] EXCEPT !.kind = "damaged"]
          /\ inbox' = SubSeq(inbox, n + 1, Len(inbox))
          /\ recvOp' = "done"
     \/ /\ link # "up"
        /\ inbox = <<>>
        /\ recvOp' = "failed"
        /\ UNCHANGED <<received, inbox>>
  /\ UNCHANGED <<clock, messageQueue, currentMessage, tidGen, state, link,
                 connects, sendOp, timing, atDevice, delivered, running>>

TimerExpires ==
  /\ running
  /\ timer > 0
  /\ overdue >= timer
  /\ timer' = 0
  /\ fired' = fired + 1
  /\ UNCHANGED <<clock, messageQueue, currentMessage, tidGen, state, link,
                 connects, sendOp, recvOp, wire, delivered, running>>

TimePasses ==
  /\ overdue < submitted
  /\ overdue' = overdue + 1
  /\ UNCHANGED <<submitted, messageQueue, currentMessage, tidGen, state, link,
                 connects, sendOp, recvOp, wire, timing, delivered, running>>

(* The device answers a request it has, in the order it likes: with a      *)
(* frame that arrives whole, spoilt, or cut into two pieces, of which the  *)
(* first may be too short for SetAduSize.                                  *)
DeviceAnswers ==
  /\ link = "up"
  /\ \E r \in atDevice :
       LET segment(kind) == [kind |-> kind, id |-> r.id, for |-> r.for]
       IN /\ atDevice' = atDevice \ {r}
          /\ inbox' \in { Append(inbox, segment("whole")),
                          Append(inbox, segment("damaged")),
                          inbox \o <<segment("damaged"), segment("damaged")>>,
                          inbox \o <<segment("short"), segment("damaged")>> }
  /\ UNCHANGED <<clock, messageQueue, currentMessage, tidGen, state, link, connects,
                 sendOp, recvOp, received, timing, delivered, running>>

(* The device closes or resets the connection; a reset discards what the   *)
(* client has not read.                                                    *)
LinkBreaks ==
  /\ link = "up"
  /\ link' = "broken"
  /\ atDevice' = {}
  /\ inbox' \in {inbox, <<>>}
  /\ UNCHANGED <<clock, messageQueue, currentMessage, tidGen, state, connects,
                 sendOp, recvOp, received, timing, delivered, running>>
-----------------------------------------------------------------------------
Handlers ==
  \/ ConnectFailed \/ ConnectSucceeded
  \/ SendSucceeded \/ SendFailed
  \/ ReceiveSucceeded \/ ReceiveFailed
  \/ WaitExpired

Kernel == KernelConnects \/ KernelSends \/ KernelReceives \/ TimerExpires

Environment == TimePasses \/ DeviceAnswers \/ LinkBreaks

Next == MessageProcess \/ Handlers \/ Kernel \/ Environment

Spec == Init /\ [][Next]_vars

(***************************************************************************)
(* The io_context runs every handler that is ready; the kernel completes a *)
(* connect and a send sooner or later; time passes and a timer that is due *)
(* expires.  Nothing is assumed of the device or of the network: a read    *)
(* may stay pending until the timer cancels it.                            *)
(***************************************************************************)
Fairness ==
  /\ WF_vars(ConnectFailed \/ ConnectSucceeded)
  /\ WF_vars(SendSucceeded \/ SendFailed)
  /\ WF_vars(ReceiveSucceeded \/ ReceiveFailed)
  /\ WF_vars(WaitExpired)
  /\ WF_vars(KernelConnects)
  /\ WF_vars(KernelSends)
  /\ WF_vars(TimerExpires)
  /\ WF_vars(TimePasses)

FairSpec == Spec /\ Fairness
-----------------------------------------------------------------------------
(***************************************************************************)
(* Properties.                                                             *)
(***************************************************************************)

(* Every answer goes to the slave whose request it answers, although an    *)
(* answer may arrive after its request was abandoned and another sent: the *)
(* transaction id check of MakeResponse.                                   *)
AnswerMatches ==
  \A i \in 1..Len(delivered) : delivered[i].to = delivered[i].for

(* Answers leave the actor in the order their requests entered it, and no  *)
(* request is answered twice: messageQueue_ and currentMessage_ together   *)
(* keep the order through failures and reconnections.                      *)
AnswersInOrder ==
  \A i, j \in 1..Len(delivered) : i < j => delivered[i].to < delivered[j].to

(* The socket is never used by two exchanges: at most one of send and      *)
(* receive is outstanding, and only on behalf of currentMessage_.  A stale *)
(* connect handler calls QueueProcessUnsafe while an exchange is running.  *)
ExchangeOwnsSocket ==
  /\ sendOp = "none" \/ recvOp = "none"
  /\ sendOp # "none" \/ recvOp # "none" => currentMessage # NoMessage

(* Whenever state_ says that there is a connection, the socket is open:    *)
(* otherwise the next request would be sent on a closed socket and lost,   *)
(* where a reconnection would have served it.                              *)
ConnectedHasSocket ==
  running /\ state # "Idle" => link # "down"

(* A request is in currentMessage_ and nothing will ever complete for it. *)
Wedged == currentMessage # NoMessage /\ sendOp = "none" /\ recvOp = "none"

(* The only way to keep currentMessage_ occupied with no operation         *)
(* outstanding is a read whose size SetAduSize refuses.                    *)
WedgedOnlyByShortFrame ==
  Wedged => received.kind = "short"

(* Requests wait and no operation, connect or handler is on its way that   *)
(* could look at the queue.                                                *)
Unattended ==
  /\ messageQueue # <<>>
  /\ sendOp = "none" /\ recvOp = "none"
  /\ connects.pending = 0 /\ connects.ok = 0 /\ connects.failed = 0

(* The queue is left without attention only by a handler that got an       *)
(* error, none of which calls QueueProcessUnsafe, by a read that wedges    *)
(* the actor, or by the exception that ends the gateway.                   *)
QueueAbandonedOnlyOnError ==
  [][ Unattended' /\ ~Unattended =>
        SendFailed \/ ReceiveFailed \/ ConnectFailed \/ Wedged' \/ ~running' ]_vars

(* Every exchange ends: answered, refused, timed out or failed.  The timer *)
(* started after the send must cancel a read the device never answers.     *)
ExchangeEnds ==
  \A m \in Messages :
    (currentMessage.msg = m) ~> (currentMessage.msg # m \/ Wedged \/ ~running)

(* A queued request moves on, unless an error has left the queue           *)
(* unattended until the next request arrives.                              *)
QueueMoves ==
  LET Queued(m) == \E i \in 1..Len(messageQueue) : messageQueue[i] = m
  IN  \A m \in Messages :
        Queued(m) ~> (~Queued(m) \/ Unattended \/ Wedged \/ ~running)

(* One connection attempt at a time: State::WaitConnect and the branch     *)
(* that logs "wait connect" for a request that arrives meanwhile.          *)
AtMostOneConnect ==
  connects.pending + connects.ok + connects.failed <= 1

(* The actor always gets over a bad answer and serves the next request.    *)
NeverWedged == ~Wedged

(***************************************************************************)
(* The actor implements the service every master promises.                 *)
(***************************************************************************)
StatusOf(m) ==
  IF \E i \in 1..Len(delivered) : delivered[i].to = m THEN "answered"
  ELSE IF currentMessage.msg = m THEN "serving"
  ELSE IF \E i \in 1..Len(messageQueue) : messageQueue[i] = m THEN "waiting"
  ELSE IF m > submitted THEN "new" ELSE "lost"

AnswerOf(m) ==
  IF \E i \in 1..Len(delivered) : delivered[i].to = m
  THEN delivered[CHOOSE i \in 1..Len(delivered) : delivered[i].to = m].for
  ELSE 0

Service == INSTANCE MasterService WITH
  Exact  <- TRUE,
  status <- [m \in Messages |-> StatusOf(m)],
  answer <- [m \in Messages |-> AnswerOf(m)]

(* Each step of the actor is a step, or a stutter, of the master service:  *)
(* one request on the wire, first come first served, no second answer and  *)
(* no answer to a request that was given up, and to each its own.          *)
ImplementsService == Service!ServiceSpec
=============================================================================
