-------------------------- MODULE ModbusRtuMaster --------------------------
(***************************************************************************)
(* The RTU/ASCII master: transport/modbus_rtu_master.cpp.                  *)
(*                                                                         *)
(* It has the shape of the TCP master, on a serial port that is opened by  *)
(* the constructor and never again: no connection, no state_, and no       *)
(* transaction id on the wire, so that nothing ties an answer to its       *)
(* request.  A handler holds m_ throughout and is one action.  Requests    *)
(* are arrival numbers, and time is how many of them reached timeout_, as  *)
(* in ModbusTcpClient.  The member transactionIdGenerator_ only feeds the  *)
(* log here and is left out.                                               *)
(***************************************************************************)
EXTENDS Naturals, Sequences

CONSTANT MaxMessages   \* requests ever submitted to this actor

ASSUME RtuMasterAssumption == MaxMessages \in Nat \ {0}

VARIABLES
  submitted,       \* how many requests have been submitted
  overdue,         \* requests 1..overdue have reached timeout_
  messageQueue,    \* messageQueue_
  currentMessage,  \* currentMessage_, 0 when it is empty
  port,            \* whether the serial device still works
  writeOp,         \* the outstanding async_write_some
  readOp,          \* the outstanding async_read_some
  received,        \* what the last completed read returned
  timer,           \* timer_: 0, or the last request its deadline is later than
  fired,           \* expirations of timer_ whose handler has not run
  atDevice,        \* requests some device on the bus may still answer
  inbox,           \* bytes in the port's input buffer, as pieces of answers
  delivered,       \* history: the answers sent to slaves
  abandoned        \* history: requests whose exchange ended with no answer

vars == <<submitted, overdue, messageQueue, currentMessage, port, writeOp,
          readOp, received, timer, fired, atDevice, inbox, delivered, abandoned>>

clock  == <<submitted, overdue>>
bus    == <<port, atDevice, inbox, received>>
timing == <<timer, fired>>

Messages == 1..MaxMessages
IoStates == {"none", "pending", "done", "failed", "aborted"}

(* What one read returns: exactly one frame ("whole"), bytes whose check   *)
(* fails ("damaged"), or a size SetAduSize refuses ("short").              *)
Pieces  == [kind : {"whole", "damaged", "short"}, for : Messages]
NoPiece == [kind |-> "damaged", for |-> 1]

TypeOK ==
  /\ submitted \in 0..MaxMessages
  /\ overdue \in 0..submitted
  /\ messageQueue \in Seq(1..submitted)
  /\ currentMessage \in 0..submitted
  /\ port \in {"open", "gone"}
  /\ writeOp \in IoStates
  /\ readOp \in IoStates
  /\ received \in Pieces
  /\ timer \in 0..submitted
  /\ fired \in Nat
  /\ atDevice \subseteq Messages
  /\ inbox \in Seq(Pieces)
  /\ delivered \in Seq([to : Messages, for : Messages])
  /\ abandoned \subseteq 1..submitted

Init ==
  /\ submitted = 0
  /\ overdue = 0
  /\ messageQueue = <<>>
  /\ currentMessage = 0
  /\ port = "open"
  /\ writeOp = "none"
  /\ readOp = "none"
  /\ received = NoPiece
  /\ timer = 0
  /\ fired = 0
  /\ atDevice = {}
  /\ inbox = <<>>
  /\ delivered = <<>>
  /\ abandoned = {}
-----------------------------------------------------------------------------
(* A pending operation completes with operation_aborted; one the kernel    *)
(* has already completed keeps its result.                                 *)
Aborted(op) == IF op = "pending" THEN "aborted" ELSE op

(* The leading requests that TimeoutReached reports are dropped. *)
ExpiredPrefix(queue, n) ==
  /\ \A i \in 1..n : queue[i] <= overdue
  /\ n < Len(queue) => queue[n + 1] > overdue

(* Variant: the request stays in the queue. *)
StartMessageTaskWithoutPop(queue) ==
  currentMessage' = Head(queue) /\ messageQueue' = queue /\ writeOp' = "pending"

StartMessageTaskUnsafe(queue) ==
  /\ currentMessage' = Head(queue)
  /\ messageQueue' = Tail(queue)
  /\ writeOp' = "pending"

DropExpired(queue) ==
  \E n \in 0..Len(queue) :
    /\ ExpiredPrefix(queue, n)
    /\ \/ /\ n = Len(queue)
          /\ messageQueue' = <<>>
          /\ currentMessage' = 0
          /\ UNCHANGED writeOp
       \/ /\ n < Len(queue)
          /\ StartMessageTaskUnsafe(SubSeq(queue, n + 1, Len(queue)))

(* Without the test for a message in process. *)
QueueProcessUnguarded(queue, current) ==
  IF queue = <<>>
  THEN messageQueue' = queue /\ currentMessage' = current /\ UNCHANGED writeOp
  ELSE DropExpired(queue)

(* The parameters are the values the members have when it is called. *)
QueueProcessUnsafe(queue, current) ==
  \/ /\ queue = <<>> \/ current # 0
     /\ messageQueue' = queue
     /\ currentMessage' = current
     /\ UNCHANGED writeOp
  \/ /\ queue # <<>> /\ current = 0
     /\ DropExpired(queue)

StartWaitTask == timer' = submitted
StartReadTask == readOp' = "pending"

(* currentMessage_.reset() with no answer sent. *)
Abandon ==
  /\ currentMessage' = 0
  /\ abandoned' = abandoned \cup {currentMessage}
-----------------------------------------------------------------------------
(* A slave forwards a request: MessageProcess, from Receive. *)
MessageProcess ==
  /\ submitted < MaxMessages
  /\ submitted' = submitted + 1
  /\ QueueProcessUnsafe(Append(messageQueue, submitted + 1), currentMessage)
  /\ UNCHANGED <<overdue, readOp, bus, timing, delivered, abandoned>>

(* Variant: the wait is not started. *)
WriteSucceededWithoutTimer ==
  /\ writeOp = "done"
  /\ writeOp' = "none"
  /\ StartReadTask
  /\ UNCHANGED <<clock, messageQueue, currentMessage, bus, timing, delivered, abandoned>>

(* The handler of async_write_some. *)
WriteSucceeded ==
  /\ writeOp = "done"
  /\ writeOp' = "none"
  /\ StartWaitTask
  /\ StartReadTask
  /\ UNCHANGED <<clock, messageQueue, currentMessage, bus, fired, delivered, abandoned>>

(* An error leaves the port as it is, and does not look at the queue. *)
WriteFailed ==
  /\ writeOp \in {"failed", "aborted"}
  /\ writeOp' = "none"
  /\ Abandon
  /\ UNCHANGED <<clock, messageQueue, readOp, bus, timing, delivered>>

(* Variant: nothing is cancelled. *)
WaitExpiredWithoutCancel ==
  /\ fired > 0
  /\ fired' = fired - 1
  /\ UNCHANGED <<clock, messageQueue, currentMessage, bus, writeOp, readOp, timer,
                 delivered, abandoned>>

(* The handler of the wait, when timer_ expired: cancel() aborts whatever  *)
(* the port has outstanding at this moment.                                *)
WaitExpired ==
  /\ fired > 0
  /\ fired' = fired - 1
  /\ writeOp' = Aborted(writeOp)
  /\ readOp' = Aborted(readOp)
  /\ UNCHANGED <<clock, messageQueue, currentMessage, bus, timer, delivered, abandoned>>

(* The reset of currentMessage_ after the check of the frame. *)
AfterMakeResponseChecksFirst(piece) == IF piece.kind # "whole" THEN currentMessage ELSE 0

(* MakeResponse: what it leaves in currentMessage_.  A response is made of *)
(* any whole frame: no field of it is compared with the request.           *)
AfterMakeResponse(piece) == IF piece.kind = "short" THEN currentMessage ELSE 0

MakeResponse(piece) ==
  IF currentMessage # 0 /\ piece.kind = "whole"
  THEN << [to |-> currentMessage, for |-> piece.for] >>
  ELSE <<>>

(* Variant: the queue is not looked at. *)
ReadSucceededIgnoresQueue ==
  /\ readOp = "done"
  /\ readOp' = "none"
  /\ timer' = 0
  /\ delivered' = delivered \o MakeResponse(received)
  /\ abandoned' = IF received.kind = "damaged" THEN abandoned \cup {currentMessage} ELSE abandoned
  /\ currentMessage' = AfterMakeResponse(received)
  /\ UNCHANGED <<clock, messageQueue, writeOp, bus, fired>>

(* The handler of async_read_some. *)
ReadSucceeded ==
  /\ readOp = "done"
  /\ readOp' = "none"
  /\ timer' = 0
  /\ delivered' = delivered \o MakeResponse(received)
  /\ abandoned' = IF received.kind = "damaged" THEN abandoned \cup {currentMessage}
                                              ELSE abandoned
  /\ QueueProcessUnsafe(messageQueue, AfterMakeResponse(received))
  /\ UNCHANGED <<clock, bus, fired>>

ReadFailed ==
  /\ readOp \in {"failed", "aborted"}
  /\ readOp' = "none"
  /\ timer' = 0
  /\ Abandon
  /\ UNCHANGED <<clock, messageQueue, writeOp, bus, fired, delivered>>
-----------------------------------------------------------------------------
(***************************************************************************)
(* The kernel, the serial line and the devices on it.                      *)
(***************************************************************************)

(* The bytes leave; the devices may get them, in part or not at all. *)
KernelWrites ==
  /\ writeOp = "pending"
  /\ \/ /\ port = "open"
        /\ writeOp' = "done"
        /\ atDevice' \in {atDevice, atDevice \cup {currentMessage}}
     \/ /\ port = "gone"
        /\ writeOp' = "failed"
        /\ UNCHANGED atDevice
  /\ UNCHANGED <<clock, messageQueue, currentMessage, port, readOp, received, timing,
                 inbox, delivered, abandoned>>

(* One read returns what is in the buffer: one piece, or several, which no *)
(* check takes for a frame.                                                *)
KernelReads ==
  /\ readOp = "pending"
  /\ \/ \E n \in 1..Len(inbox) :
          /\ received' = IF n = 1 THEN inbox[1] ELSE [inbox[1] EXCEPT !.kind = "damaged"]
          /\ inbox' = SubSeq(inbox, n + 1, Len(inbox))
          /\ readOp' = "done"
     \/ /\ port = "gone"
        /\ readOp' = "failed"
        /\ UNCHANGED <<received, inbox>>
  /\ UNCHANGED <<clock, messageQueue, currentMessage, port, writeOp, timing, atDevice,
                 delivered, abandoned>>

TimerExpires ==
  /\ timer > 0
  /\ overdue >= timer
  /\ timer' = 0
  /\ fired' = fired + 1
  /\ UNCHANGED <<clock, messageQueue, currentMessage, writeOp, readOp, bus, delivered,
                 abandoned>>

TimePasses ==
  /\ overdue < submitted
  /\ overdue' = overdue + 1
  /\ UNCHANGED <<submitted, messageQueue, currentMessage, writeOp, readOp, bus, timing,
                 delivered, abandoned>>

(* A device answers, in time or late: the frame arrives whole, spoilt, or  *)
(* in two pieces, of which the first may be too short for SetAduSize.      *)
DeviceAnswers ==
  /\ port = "open"
  /\ \E m \in atDevice :
       LET piece(kind) == [kind |-> kind, for |-> m]
       IN /\ atDevice' = atDevice \ {m}
          /\ inbox' \in { Append(inbox, piece("whole")),
                          Append(inbox, piece("damaged")),
                          inbox \o <<piece("damaged"), piece("damaged")>>,
                          inbox \o <<piece("short"), piece("damaged")>> }
  /\ UNCHANGED <<clock, messageQueue, currentMessage, port, writeOp, readOp, received,
                 timing, delivered, abandoned>>

(* The serial device disappears (an USB adapter is unplugged). *)
PortBreaks ==
  /\ port = "open"
  /\ port' = "gone"
  /\ inbox' = <<>>
  /\ atDevice' = {}
  /\ UNCHANGED <<clock, messageQueue, currentMessage, writeOp, readOp, received, timing,
                 delivered, abandoned>>
-----------------------------------------------------------------------------
Handlers ==
  \/ WriteSucceeded \/ WriteFailed
  \/ ReadSucceeded \/ ReadFailed
  \/ WaitExpired

Kernel == KernelWrites \/ KernelReads \/ TimerExpires

Environment == TimePasses \/ DeviceAnswers \/ PortBreaks

Next == MessageProcess \/ Handlers \/ Kernel \/ Environment

Spec == Init /\ [][Next]_vars

(***************************************************************************)
(* The io_context runs every handler that is ready, the kernel completes a *)
(* write, time passes and a timer that is due expires.  Nothing is assumed *)
(* of the devices: a read may stay pending until the timer cancels it.     *)
(***************************************************************************)
Fairness ==
  /\ WF_vars(WriteSucceeded \/ WriteFailed)
  /\ WF_vars(ReadSucceeded \/ ReadFailed)
  /\ WF_vars(WaitExpired)
  /\ WF_vars(KernelWrites)
  /\ WF_vars(TimerExpires)
  /\ WF_vars(TimePasses)

FairSpec == Spec /\ Fairness
-----------------------------------------------------------------------------
(***************************************************************************)
(* Properties.                                                             *)
(***************************************************************************)

(* An answer is given to the slave whose request it answers. *)
AnswerMatches ==
  \A i \in 1..Len(delivered) : delivered[i].to = delivered[i].for

(* As long as every exchange has been answered, answers go where they      *)
(* belong: without transaction ids this rests on having one request on the *)
(* line at a time (the currentMessage_ test of QueueProcessUnsafe).        *)
MatchesUntilAbandoned ==
  abandoned = {} => AnswerMatches

(* Answers leave the actor in the order their requests entered it, and no  *)
(* request is answered twice.                                              *)
AnswersInOrder ==
  \A i, j \in 1..Len(delivered) : i < j => delivered[i].to < delivered[j].to

(* The port is never used by two exchanges. *)
ExchangeOwnsPort ==
  /\ writeOp = "none" \/ readOp = "none"
  /\ writeOp # "none" \/ readOp # "none" => currentMessage # 0

(* A request is in currentMessage_ and nothing will ever complete for it. *)
Wedged == currentMessage # 0 /\ writeOp = "none" /\ readOp = "none"

(* The only way to keep currentMessage_ occupied with no operation         *)
(* outstanding is a read whose size SetAduSize refuses.                    *)
WedgedOnlyByShortFrame == Wedged => received.kind = "short"

(* Requests wait and no operation is outstanding whose handler could look  *)
(* at the queue.                                                           *)
Unattended == messageQueue # <<>> /\ writeOp = "none" /\ readOp = "none"

(* The queue is left without attention only by a handler that got an       *)
(* error, none of which calls QueueProcessUnsafe, or by a wedge.           *)
QueueAbandonedOnlyOnError ==
  [][ Unattended' /\ ~Unattended => WriteFailed \/ ReadFailed \/ Wedged' ]_vars

(* Every exchange ends: answered, refused, timed out or failed.  The timer *)
(* started after the write must cancel a read no device ever answers.      *)
ExchangeEnds ==
  \A m \in Messages : (currentMessage = m) ~> (currentMessage # m \/ Wedged)

(* A queued request moves on, unless an error has left the queue           *)
(* unattended until the next request arrives.                              *)
QueueMoves ==
  LET Queued(m) == \E i \in 1..Len(messageQueue) : messageQueue[i] = m
  IN  \A m \in Messages : Queued(m) ~> (~Queued(m) \/ Unattended \/ Wedged)

(***************************************************************************)
(* The actor implements the service every master promises.                 *)
(***************************************************************************)
StatusOf(m) ==
  IF \E i \in 1..Len(delivered) : delivered[i].to = m THEN "answered"
  ELSE IF currentMessage = m THEN "serving"
  ELSE IF \E i \in 1..Len(messageQueue) : messageQueue[i] = m THEN "waiting"
  ELSE IF m > submitted THEN "new" ELSE "lost"

AnswerOf(m) ==
  IF \E i \in 1..Len(delivered) : delivered[i].to = m
  THEN delivered[CHOOSE i \in 1..Len(delivered) : delivered[i].to = m].for
  ELSE 0

Service == INSTANCE MasterService WITH
  Exact  <- FALSE,
  status <- [m \in Messages |-> StatusOf(m)],
  answer <- [m \in Messages |-> AnswerOf(m)]

(* Each step of the actor is a step, or a stutter, of the master service:  *)
(* one request on the wire, first come first served, no second answer and  *)
(* no answer to a request that was given up; a late answer may go to a     *)
(* later request.                                                          *)
ImplementsService == Service!ServiceSpec
=============================================================================
