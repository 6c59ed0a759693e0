----------------------- MODULE ModbusRtuMasterProofs -----------------------
(***************************************************************************)
(* Theorems about the RTU master, for any number of requests.              *)
(***************************************************************************)
EXTENDS ModbusRtuMaster, TLAPS, SequenceTheorems

USE DEF Messages

Answers == [to : Messages, for : Messages]
-----------------------------------------------------------------------------
(***************************************************************************)
(* Lemmas about the helpers.                                               *)
(***************************************************************************)

(* A sequence over a set is a sequence over any larger set. *)
LEMMA SeqMonotone ==
  ASSUME NEW S, NEW T, S \subseteq T, NEW s \in Seq(S)
  PROVE  s \in Seq(T)
<1>1. Len(s) \in Nat /\ s \in [1..Len(s) -> S]
  BY LenProperties
<1> QED BY <1>1

(* What a call of QueueProcessUnsafe does: it keeps the queue, drops all   *)
(* of it because all has expired, or takes the first that has not.         *)
QueueKept(queue, current) ==
  /\ queue = <<>> \/ current # 0
  /\ messageQueue' = queue
  /\ currentMessage' = current
  /\ writeOp' = writeOp

QueueExpired(queue, current) ==
  /\ current = 0
  /\ \A i \in 1..Len(queue) : queue[i] <= overdue
  /\ messageQueue' = <<>>
  /\ currentMessage' = 0
  /\ writeOp' = writeOp

QueueTaken(queue, current) ==
  /\ current = 0
  /\ writeOp' = "pending"
  /\ \E n \in Nat :
       /\ n < Len(queue)
       /\ currentMessage' = queue[n + 1]
       /\ messageQueue' = SubSeq(queue, n + 2, Len(queue))

LEMMA QueueOutcome ==
  ASSUME NEW S, NEW queue \in Seq(S), NEW current, QueueProcessUnsafe(queue, current)
  PROVE  \/ QueueKept(queue, current)
         \/ QueueExpired(queue, current)
         \/ QueueTaken(queue, current)
<1>0. Len(queue) \in Nat
  BY LenProperties
<1>1. CASE queue = <<>> \/ current # 0
  BY <1>1 DEF QueueProcessUnsafe, QueueKept
<1>2. CASE queue # <<>> /\ current = 0 /\ DropExpired(queue)
  <2>1. PICK n \in 0..Len(queue) :
          \/ /\ n = Len(queue) /\ \A i \in 1..n : queue[i] <= overdue
             /\ messageQueue' = <<>> /\ currentMessage' = 0 /\ writeOp' = writeOp
          \/ n < Len(queue) /\ StartMessageTaskUnsafe(SubSeq(queue, n + 1, Len(queue)))
    BY <1>2 DEF DropExpired, ExpiredPrefix
  <2>2. CASE n = Len(queue)
    BY <1>0, <1>2, <2>1, <2>2 DEF QueueExpired
  <2>3. CASE n < Len(queue)
    <3> DEFINE rest == SubSeq(queue, n + 1, Len(queue))
    <3>1. /\ currentMessage' = Head(rest) /\ messageQueue' = Tail(rest) /\ writeOp' = "pending"
      BY <2>1, <2>3, <1>0 DEF StartMessageTaskUnsafe
    <3>2. Head(rest) = queue[n + 1] /\ Tail(rest) = SubSeq(queue, n + 2, Len(queue))
      BY <1>0, <2>3
    <3> QED BY <1>0, <1>2, <2>3, <3>1, <3>2 DEF QueueTaken
  <2> QED BY <1>0, <2>2, <2>3
<1> QED BY <1>1, <1>2 DEF QueueProcessUnsafe

(* What it leaves: a queue of what was there, and a write only for a       *)
(* request that is taken when there was none.                              *)
LEMMA QueueProcessType ==
  ASSUME NEW k \in Nat, NEW queue \in Seq(1..k), NEW current \in 0..k,
         writeOp \in IoStates, QueueProcessUnsafe(queue, current)
  PROVE  /\ messageQueue' \in Seq(1..k)
         /\ currentMessage' \in 0..k
         /\ writeOp' \in IoStates
         /\ writeOp' # writeOp => current = 0 /\ writeOp' = "pending" /\ currentMessage' # 0
         /\ current # 0 => currentMessage' = current
         /\ currentMessage' # current => writeOp' = "pending"
<1>0. Len(queue) \in Nat /\ \A i \in 1..Len(queue) : queue[i] \in 1..k
  BY LenProperties, ElementOfSeq
<1>1. CASE QueueKept(queue, current) \/ QueueExpired(queue, current)
  BY <1>1, EmptySeq DEF QueueKept, QueueExpired
<1>2. CASE QueueTaken(queue, current)
  <2>1. PICK n \in Nat :
          /\ n < Len(queue)
          /\ currentMessage' = queue[n + 1]
          /\ messageQueue' = SubSeq(queue, n + 2, Len(queue))
    BY <1>2 DEF QueueTaken
  <2>2. \A i \in (n + 2)..Len(queue) : queue[i] \in 1..k
    BY <1>0
  <2>3. messageQueue' \in Seq(1..k)
    BY <1>0, <2>1, <2>2, SubSeqProperties
  <2>4. currentMessage' \in 1..k
    BY <1>0, <2>1
  <2> QED BY <1>2, <2>3, <2>4 DEF QueueTaken, IoStates
<1> QED BY <1>1, <1>2, QueueOutcome

(* What MakeResponse gives to the slaves.                                  *)
LEMMA MakeResponseType ==
  ASSUME TypeOK, delivered' = delivered \o MakeResponse(received)
  PROVE  delivered' \in Seq(Answers)
<1>1. currentMessage # 0 => currentMessage \in Messages
  BY RtuMasterAssumption DEF TypeOK
<1>2. MakeResponse(received) \in Seq(Answers)
  <2>1. CASE currentMessage # 0 /\ received.kind = "whole"
    <3>1. received.for \in Messages
      BY DEF TypeOK, Pieces
    <3>2. [to |-> currentMessage, for |-> received.for] \in Answers
      BY <1>1, <2>1, <3>1 DEF Answers
    <3> QED BY <2>1, <3>2 DEF MakeResponse
  <2>2. CASE ~(currentMessage # 0 /\ received.kind = "whole")
    BY <2>2, EmptySeq DEF MakeResponse
  <2> QED BY <2>1, <2>2
<1> QED BY <1>2, ConcatProperties DEF TypeOK, Answers
-----------------------------------------------------------------------------
(***************************************************************************)
(* Types, and the exclusive use of the port: the second is what keeps an   *)
(* empty currentMessage_ out of abandoned and off the line.                *)
(***************************************************************************)
TypeInv == TypeOK /\ ExchangeOwnsPort

LEMMA TypeStart == Init => TypeInv
<1> SUFFICES ASSUME Init PROVE TypeInv
  OBVIOUS
<1>1. /\ <<>> \in Seq(1..submitted) /\ <<>> \in Seq(Pieces)
      /\ <<>> \in Seq([to : Messages, for : Messages])
  OBVIOUS
<1>2. NoPiece \in Pieces
  BY RtuMasterAssumption DEF NoPiece, Pieces
<1> QED BY <1>1, <1>2, RtuMasterAssumption DEF Init, TypeInv, TypeOK, ExchangeOwnsPort, IoStates

LEMMA TypeMessageProcess ==
  ASSUME TypeInv, MessageProcess
  PROVE  TypeInv'
<1> DEFINE k == submitted + 1
<1>0. submitted \in Nat /\ submitted < MaxMessages /\ submitted' = k /\ k \in Nat
      /\ 1..submitted \subseteq 1..k
  BY RtuMasterAssumption DEF MessageProcess, TypeInv, TypeOK
<1>1. Append(messageQueue, k) \in Seq(1..k)
  <2>1. messageQueue \in Seq(1..k)
    BY <1>0, SeqMonotone DEF TypeInv, TypeOK
  <2> QED BY <1>0, <2>1
<1>2. currentMessage \in 0..k /\ writeOp \in IoStates
  BY <1>0 DEF TypeInv, TypeOK
<1>3. QueueProcessUnsafe(Append(messageQueue, k), currentMessage)
  BY DEF MessageProcess
<1>4. /\ messageQueue' \in Seq(1..k)
      /\ currentMessage' \in 0..k
      /\ writeOp' \in IoStates
      /\ writeOp' # writeOp =>
           currentMessage = 0 /\ writeOp' = "pending" /\ currentMessage' # 0
      /\ currentMessage # 0 => currentMessage' = currentMessage
  <2> HIDE DEF k
  <2> QED BY <1>0, <1>1, <1>2, <1>3, QueueProcessType
<1>5. UNCHANGED <<overdue, readOp, port, atDevice, inbox, received, timer, fired,
                  delivered, abandoned>>
  BY DEF MessageProcess, bus, timing
<1>6. TypeOK'
  <2>1. abandoned' \subseteq 1..k /\ overdue' \in 0..k /\ timer' \in 0..k
    BY <1>0, <1>5 DEF TypeInv, TypeOK
  <2> QED BY <1>0, <1>4, <1>5, <2>1, RtuMasterAssumption DEF TypeInv, TypeOK
<1>7. ExchangeOwnsPort'
  BY <1>4, <1>5 DEF TypeInv, ExchangeOwnsPort
<1> QED BY <1>6, <1>7 DEF TypeInv

LEMMA TypeReadSucceeded ==
  ASSUME TypeInv, ReadSucceeded
  PROVE  TypeInv'
<1>0. submitted \in Nat /\ currentMessage \in 1..submitted /\ writeOp = "none"
  BY DEF TypeInv, TypeOK, ExchangeOwnsPort, ReadSucceeded
<1>1. AfterMakeResponse(received) \in 0..submitted
  BY <1>0 DEF AfterMakeResponse
<1>2. QueueProcessUnsafe(messageQueue, AfterMakeResponse(received))
      /\ messageQueue \in Seq(1..submitted) /\ writeOp \in IoStates
  BY DEF ReadSucceeded, TypeInv, TypeOK
<1>3. /\ messageQueue' \in Seq(1..submitted)
      /\ currentMessage' \in 0..submitted
      /\ writeOp' \in IoStates
      /\ writeOp' # writeOp => currentMessage' # 0
  BY <1>0, <1>1, <1>2, QueueProcessType
<1>4. delivered' \in Seq(Answers)
  BY MakeResponseType DEF TypeInv, ReadSucceeded
<1>5. abandoned' \subseteq 1..submitted
  BY <1>0 DEF ReadSucceeded, TypeInv, TypeOK
<1>6. /\ readOp' = "none" /\ timer' = 0
      /\ UNCHANGED <<submitted, overdue, port, atDevice, inbox, received, fired>>
  BY DEF ReadSucceeded, clock, bus
<1>7. TypeOK'
  BY <1>0, <1>3, <1>4, <1>5, <1>6 DEF TypeInv, TypeOK, IoStates, Answers
<1>8. ExchangeOwnsPort'
  BY <1>0, <1>3, <1>6 DEF ExchangeOwnsPort
<1> QED BY <1>7, <1>8 DEF TypeInv

LEMMA TypeKernelReads ==
  ASSUME TypeInv, KernelReads
  PROVE  TypeInv'
<1>1. received' \in Pieces /\ inbox' \in Seq(Pieces) /\ readOp' \in {"done", "failed"}
  <2>1. CASE readOp' = "failed" /\ UNCHANGED <<received, inbox>>
    BY <2>1 DEF TypeInv, TypeOK
  <2>2. ASSUME NEW n \in 1..Len(inbox),
               received' = IF n = 1 THEN inbox[1] ELSE [inbox[1] EXCEPT !.kind = "damaged"],
               inbox' = SubSeq(inbox, n + 1, Len(inbox)),
               readOp' = "done"
        PROVE  received' \in Pieces /\ inbox' \in Seq(Pieces) /\ readOp' \in {"done", "failed"}
    <3>1. inbox \in Seq(Pieces) /\ Len(inbox) \in Nat
      BY LenProperties DEF TypeInv, TypeOK
    <3>2. inbox[1] \in Pieces /\ \A i \in (n + 1)..Len(inbox) : inbox[i] \in Pieces
      BY <2>2, <3>1, ElementOfSeq
    <3>3. [inbox[1] EXCEPT !.kind = "damaged"] \in Pieces
      BY <3>2 DEF Pieces
    <3>4. inbox' \in Seq(Pieces)
      BY <2>2, <3>1, <3>2, SubSeqProperties
    <3> QED BY <2>2, <3>2, <3>3, <3>4
  <2> QED BY <2>1, <2>2 DEF KernelReads
<1> QED BY <1>1 DEF KernelReads, TypeInv, TypeOK, ExchangeOwnsPort, IoStates, clock, timing

LEMMA TypeDeviceAnswers ==
  ASSUME TypeInv, DeviceAnswers
  PROVE  TypeInv'
<1>1. inbox' \in Seq(Pieces) /\ atDevice' \subseteq atDevice
  <2>1. PICK m \in atDevice :
          /\ atDevice' = atDevice \ {m}
          /\ \/ inbox' = Append(inbox, [kind |-> "whole", for |-> m])
             \/ inbox' = Append(inbox, [kind |-> "damaged", for |-> m])
             \/ inbox' = inbox \o <<[kind |-> "damaged", for |-> m], [kind |-> "damaged", for |-> m]>>
             \/ inbox' = inbox \o <<[kind |-> "short", for |-> m], [kind |-> "damaged", for |-> m]>>
    BY DEF DeviceAnswers
  <2>2. \A kind \in {"whole", "damaged", "short"} : [kind |-> kind, for |-> m] \in Pieces
    BY DEF Pieces, TypeInv, TypeOK
  <2>3. inbox \in Seq(Pieces)
    BY DEF TypeInv, TypeOK
  <2>4. \A p, q \in Pieces : Append(inbox, p) \in Seq(Pieces) /\ inbox \o <<p, q>> \in Seq(Pieces)
    BY <2>3
  <2> QED BY <2>1, <2>2, <2>4
<1> QED BY <1>1 DEF DeviceAnswers, TypeInv, TypeOK, ExchangeOwnsPort, clock, timing

LEMMA TypeStep ==
  ASSUME TypeInv, [Next]_vars
  PROVE  TypeInv'
<1> USE DEF TypeInv, TypeOK, ExchangeOwnsPort, IoStates, clock, bus, timing
<1>1. CASE MessageProcess
  BY <1>1, TypeMessageProcess
<1>2. CASE WriteSucceeded
  BY <1>2 DEF WriteSucceeded, StartWaitTask, StartReadTask
<1>3. CASE WriteFailed
  BY <1>3 DEF WriteFailed, Abandon
<1>4. CASE ReadSucceeded
  BY <1>4, TypeReadSucceeded
<1>5. CASE ReadFailed
  BY <1>5 DEF ReadFailed, Abandon
<1>6. CASE WaitExpired
  BY <1>6 DEF WaitExpired, Aborted
<1>7. CASE KernelWrites
  <2>1. currentMessage \in Messages
    BY <1>7, RtuMasterAssumption DEF KernelWrites
  <2> QED BY <1>7, <2>1 DEF KernelWrites
<1>8. CASE KernelReads
  BY <1>8, TypeKernelReads
<1>9. CASE TimerExpires
  BY <1>9 DEF TimerExpires
<1>10. CASE TimePasses
  BY <1>10 DEF TimePasses
<1>11. CASE DeviceAnswers
  BY <1>11, TypeDeviceAnswers
<1>12. CASE PortBreaks
  BY <1>12 DEF PortBreaks
<1>13. CASE UNCHANGED vars
  BY <1>13 DEF vars
<1> QED BY <1>1, <1>2, <1>3, <1>4, <1>5, <1>6, <1>7, <1>8, <1>9, <1>10, <1>11, <1>12,
           <1>13 DEF Next, Handlers, Kernel, Environment

(* Every member of the actor keeps to its values, for any number of        *)
(* requests.                                                               *)
THEOREM TypeCorrect == Spec => []TypeOK
<1>1. TypeInv => TypeOK
  BY DEF TypeInv
<1> QED BY TypeStart, TypeStep, <1>1, PTL DEF Spec

(* currentMessage_ guards the port: no two exchanges use it, whatever      *)
(* errors, cancellations and arrivals come between.                        *)
THEOREM PortOwnedByExchange == Spec => []ExchangeOwnsPort
<1>1. TypeInv => ExchangeOwnsPort
  BY DEF TypeInv
<1> QED BY TypeStart, TypeStep, <1>1, PTL DEF Spec
-----------------------------------------------------------------------------
(***************************************************************************)
(* What becomes of the queue.                                              *)
(***************************************************************************)
LEMMA WedgedStep ==
  ASSUME TypeInv, WedgedOnlyByShortFrame, [Next]_vars
  PROVE  WedgedOnlyByShortFrame'
<1> USE DEF WedgedOnlyByShortFrame, Wedged, clock, bus, timing
<1>0. /\ messageQueue \in Seq(1..submitted) /\ submitted \in Nat
      /\ Append(messageQueue, submitted + 1) \in Seq(Nat)
      /\ messageQueue \in Seq(Nat)
  <2>1. messageQueue \in Seq(1..submitted) /\ submitted \in Nat
    BY DEF TypeInv, TypeOK
  <2>2. messageQueue \in Seq(Nat)
    BY <2>1, SeqMonotone
  <2> QED BY <2>1, <2>2
<1>1. CASE MessageProcess
  <2>1. QueueProcessUnsafe(Append(messageQueue, submitted + 1), currentMessage)
        /\ UNCHANGED <<received, readOp>>
    BY <1>1 DEF MessageProcess
  <2> QED BY <1>0, <2>1, QueueOutcome DEF QueueKept, QueueExpired, QueueTaken
<1>2. CASE ReadSucceeded
  <2>1. QueueProcessUnsafe(messageQueue, AfterMakeResponse(received)) /\ UNCHANGED received
    BY <1>2 DEF ReadSucceeded
  <2>2. \/ QueueKept(messageQueue, AfterMakeResponse(received))
        \/ QueueExpired(messageQueue, AfterMakeResponse(received))
        \/ QueueTaken(messageQueue, AfterMakeResponse(received))
    BY <1>0, <2>1, QueueOutcome
  <2> QED BY <2>1, <2>2 DEF QueueKept, QueueExpired, QueueTaken, AfterMakeResponse
<1>3. CASE WriteSucceeded \/ WriteFailed \/ ReadFailed
  BY <1>3 DEF WriteSucceeded, WriteFailed, ReadFailed, StartReadTask, Abandon
<1>4. CASE WaitExpired
  BY <1>4 DEF WaitExpired, Aborted
<1>5. CASE KernelWrites \/ KernelReads
  BY <1>5 DEF KernelWrites, KernelReads
<1>6. CASE TimerExpires \/ TimePasses \/ DeviceAnswers \/ PortBreaks \/ UNCHANGED vars
  BY <1>6 DEF TimerExpires, TimePasses, DeviceAnswers, PortBreaks, vars
<1> QED BY <1>1, <1>2, <1>3, <1>4, <1>5, <1>6 DEF Next, Handlers, Kernel, Environment

(* MakeResponse's early return for a size SetAduSize refuses is the only   *)
(* way to leave currentMessage_ occupied with nothing outstanding.         *)
THEOREM OnlyShortFrameWedges == Spec => []WedgedOnlyByShortFrame
<1>1. Init => WedgedOnlyByShortFrame
  BY DEF Init, WedgedOnlyByShortFrame, Wedged
<1> QED BY TypeStart, TypeStep, WedgedStep, <1>1, PTL DEF Spec

LEMMA AttentionStep ==
  ASSUME TypeInv, [Next]_vars, Unattended', ~Unattended
  PROVE  WriteFailed \/ ReadFailed \/ Wedged'
<1> USE DEF Unattended, Wedged, clock, bus, timing
<1>0. /\ messageQueue \in Seq(Nat) /\ submitted \in Nat
      /\ Append(messageQueue, submitted + 1) \in Seq(Nat)
      /\ Append(messageQueue, submitted + 1) # <<>>
  <2>1. messageQueue \in Seq(1..submitted) /\ submitted \in Nat
    BY DEF TypeInv, TypeOK
  <2>2. messageQueue \in Seq(Nat)
    BY <2>1, SeqMonotone
  <2> QED BY <2>1, <2>2
<1>1. CASE MessageProcess
  <2>1. QueueProcessUnsafe(Append(messageQueue, submitted + 1), currentMessage)
    BY <1>1 DEF MessageProcess
  <2> QED BY <1>0, <2>1, QueueOutcome DEF QueueKept, QueueExpired, QueueTaken
<1>2. CASE ReadSucceeded
  <2>1. QueueProcessUnsafe(messageQueue, AfterMakeResponse(received))
    BY <1>2 DEF ReadSucceeded
  <2>2. \/ QueueKept(messageQueue, AfterMakeResponse(received))
        \/ QueueExpired(messageQueue, AfterMakeResponse(received))
        \/ QueueTaken(messageQueue, AfterMakeResponse(received))
    BY <1>0, <2>1, QueueOutcome
  <2> QED BY <2>2 DEF QueueKept, QueueExpired, QueueTaken
<1>3. CASE WriteSucceeded
  BY <1>3 DEF WriteSucceeded, StartReadTask
<1>4. CASE WaitExpired
  BY <1>4 DEF WaitExpired, Aborted
<1>5. CASE KernelWrites \/ KernelReads
  BY <1>5 DEF KernelWrites, KernelReads
<1>6. CASE TimerExpires \/ TimePasses \/ DeviceAnswers \/ PortBreaks \/ UNCHANGED vars
  BY <1>6 DEF TimerExpires, TimePasses, DeviceAnswers, PortBreaks, vars
<1> QED BY <1>1, <1>2, <1>3, <1>4, <1>5, <1>6 DEF Next, Handlers, Kernel, Environment

(* Requests are left in the queue with nobody to look at it only by a      *)
(* handler that got an error, or by the wedge.                             *)
THEOREM AttentionLostOnlyOnError == Spec => QueueAbandonedOnlyOnError
<1>1. TypeInv /\ [Next]_vars =>
        [Unattended' /\ ~Unattended => WriteFailed \/ ReadFailed \/ Wedged']_vars
  BY AttentionStep
<1> QED BY TypeStart, TypeStep, <1>1, PTL DEF Spec, QueueAbandonedOnlyOnError
-----------------------------------------------------------------------------
(***************************************************************************)
(* Answers in the order of the requests.  The strengthening: the queue is  *)
(* in the order of arrival, what is in process is older than all of it,    *)
(* and what was answered is older than both.                               *)
(***************************************************************************)
OrderInv ==
  /\ \A i, j \in 1..Len(messageQueue) : i < j => messageQueue[i] < messageQueue[j]
  /\ \A i \in 1..Len(messageQueue) : currentMessage < messageQueue[i]
  /\ \A a \in 1..Len(delivered) :
       /\ delivered[a].to <= submitted
       /\ currentMessage # 0 => delivered[a].to < currentMessage
       /\ \A i \in 1..Len(messageQueue) : delivered[a].to < messageQueue[i]
  /\ AnswersInOrder

(* What is left of an ordered queue is ordered and younger than the        *)
(* request taken from it.                                                  *)
LEMMA QueueOrder ==
  ASSUME NEW queue \in Seq(Nat), NEW current \in Nat,
         \A i, j \in 1..Len(queue) : i < j => queue[i] < queue[j],
         \A i \in 1..Len(queue) : current < queue[i],
         QueueProcessUnsafe(queue, current)
  PROVE  /\ \A i, j \in 1..Len(messageQueue') :
              i < j => messageQueue'[i] < messageQueue'[j]
         /\ \A i \in 1..Len(messageQueue') : currentMessage' < messageQueue'[i]
<1>1. CASE QueueKept(queue, current) \/ QueueExpired(queue, current)
  BY <1>1 DEF QueueKept, QueueExpired
<1>2. CASE QueueTaken(queue, current)
  <2>1. PICK n \in Nat :
          /\ n < Len(queue)
          /\ currentMessage' = queue[n + 1]
          /\ messageQueue' = SubSeq(queue, n + 2, Len(queue))
    BY <1>2 DEF QueueTaken
  <2>2. Len(queue) \in Nat /\ \A i \in 1..Len(queue) : queue[i] \in Nat
    BY LenProperties, ElementOfSeq
  <2>3. /\ Len(messageQueue') = Len(queue) - n - 1
        /\ \A i \in 1..(Len(queue) - n - 1) : messageQueue'[i] = queue[n + 1 + i]
    BY <2>1, <2>2
  <2> DEFINE m == Len(queue) - n - 1
  <2>4. m \in Nat /\ \A i \in 1..m : n + 1 + i \in 1..Len(queue)
    BY <2>1, <2>2
  <2>5. \A i, j \in 1..m : i < j => messageQueue'[i] < messageQueue'[j]
    BY <2>3, <2>4
  <2>6. \A i \in 1..m : currentMessage' < messageQueue'[i]
    BY <2>1, <2>2, <2>3, <2>4
  <2> QED BY <2>3, <2>5, <2>6
<1> QED BY <1>1, <1>2, QueueOutcome

(* Whatever is older than the queue stays older than it, and than a        *)
(* request that is taken from it.                                          *)
LEMMA QueueAbove ==
  ASSUME NEW queue \in Seq(Nat), NEW current, NEW d \in Nat,
         \A i \in 1..Len(queue) : d < queue[i],
         current # 0 => d < current,
         QueueProcessUnsafe(queue, current)
  PROVE  /\ \A i \in 1..Len(messageQueue') : d < messageQueue'[i]
         /\ currentMessage' # 0 => d < currentMessage'
<1>1. CASE QueueKept(queue, current) \/ QueueExpired(queue, current)
  BY <1>1 DEF QueueKept, QueueExpired
<1>2. CASE QueueTaken(queue, current)
  <2>1. PICK n \in Nat :
          /\ n < Len(queue)
          /\ currentMessage' = queue[n + 1]
          /\ messageQueue' = SubSeq(queue, n + 2, Len(queue))
    BY <1>2 DEF QueueTaken
  <2>2. Len(queue) \in Nat
    BY LenProperties
  <2>3. /\ Len(messageQueue') = Len(queue) - n - 1
        /\ \A i \in 1..(Len(queue) - n - 1) : messageQueue'[i] = queue[n + 1 + i]
    BY <2>1, <2>2
  <2> QED BY <2>1, <2>2, <2>3
<1> QED BY <1>1, <1>2, QueueOutcome

(* The types the order is about.                                           *)
LEMMA OrderTypes ==
  ASSUME TypeInv
  PROVE  /\ submitted \in Nat /\ currentMessage \in Nat /\ currentMessage <= submitted
         /\ messageQueue \in Seq(Nat) /\ Len(messageQueue) \in Nat
         /\ \A i \in 1..Len(messageQueue) : messageQueue[i] \in 1..submitted
         /\ delivered \in Seq(Answers) /\ Len(delivered) \in Nat
         /\ \A a \in 1..Len(delivered) : delivered[a].to \in Nat
<1>1. messageQueue \in Seq(1..submitted) /\ submitted \in Nat /\ delivered \in Seq(Answers)
  BY DEF TypeInv, TypeOK, Answers
<1>2. messageQueue \in Seq(Nat)
  BY <1>1, SeqMonotone
<1>3. \A a \in 1..Len(delivered) : delivered[a].to \in Nat
  <2>1. \A a \in 1..Len(delivered) : delivered[a] \in Answers
    BY <1>1, ElementOfSeq
  <2> QED BY <2>1, RtuMasterAssumption DEF Answers
<1>4. currentMessage \in Nat /\ currentMessage <= submitted
  BY <1>1 DEF TypeInv, TypeOK
<1>5. \A i \in 1..Len(messageQueue) : messageQueue[i] \in 1..submitted
  BY <1>1, ElementOfSeq
<1>6. Len(messageQueue) \in Nat /\ Len(delivered) \in Nat
  BY <1>1, LenProperties
<1> QED BY <1>1, <1>2, <1>3, <1>4, <1>5, <1>6

LEMMA OrderMessageProcess ==
  ASSUME TypeInv, OrderInv, MessageProcess
  PROVE  OrderInv'
<1> DEFINE k == submitted + 1
           queue == Append(messageQueue, k)
<1>0. /\ QueueProcessUnsafe(queue, currentMessage)
      /\ submitted' = k /\ delivered' = delivered
  BY DEF MessageProcess
<1>1. /\ queue \in Seq(Nat) /\ Len(queue) = Len(messageQueue) + 1 /\ queue[Len(queue)] = k
      /\ \A i \in 1..Len(messageQueue) : queue[i] = messageQueue[i]
  BY OrderTypes
<1>6. \A i \in 1..Len(queue) :
        \/ i \in 1..Len(messageQueue) /\ queue[i] = messageQueue[i] /\ queue[i] < k
        \/ i = Len(messageQueue) + 1 /\ queue[i] = k
  <2> HIDE DEF queue
  <2> QED BY <1>1, OrderTypes
<1>2. \A i, j \in 1..Len(queue) : i < j => queue[i] < queue[j]
  <2> HIDE DEF queue, k
  <2>1. SUFFICES ASSUME NEW i \in 1..Len(queue), NEW j \in 1..Len(queue), i < j
                 PROVE  queue[i] < queue[j]
    OBVIOUS
  <2>2. i \in 1..Len(messageQueue) /\ queue[i] = messageQueue[i] /\ queue[i] < k
    BY <1>1, <1>6, <2>1, OrderTypes
  <2>3. CASE j \in 1..Len(messageQueue) /\ queue[j] = messageQueue[j]
    BY <2>1, <2>2, <2>3 DEF OrderInv
  <2>4. CASE queue[j] = k
    BY <2>2, <2>4
  <2> QED BY <1>6, <2>3, <2>4
<1>3. \A i \in 1..Len(queue) : currentMessage < queue[i]
  <2>1. currentMessage < k
    BY OrderTypes
  <2> HIDE DEF queue, k
  <2> QED BY <1>6, <2>1 DEF OrderInv
<1>4. /\ \A i, j \in 1..Len(messageQueue') :
           i < j => messageQueue'[i] < messageQueue'[j]
      /\ \A i \in 1..Len(messageQueue') : currentMessage' < messageQueue'[i]
  <2> HIDE DEF queue
  <2> QED BY <1>0, <1>1, <1>2, <1>3, QueueOrder, OrderTypes
<1>5. ASSUME NEW a \in 1..Len(delivered)
      PROVE  /\ delivered[a].to <= k
             /\ currentMessage' # 0 => delivered[a].to < currentMessage'
             /\ \A i \in 1..Len(messageQueue') : delivered[a].to < messageQueue'[i]
  <2> HIDE DEF queue
  <2>1. delivered[a].to \in Nat /\ delivered[a].to <= submitted
    BY OrderTypes DEF OrderInv
  <2>2. \A i \in 1..Len(queue) : delivered[a].to < queue[i]
    <3>1. delivered[a].to < k
      BY <2>1, OrderTypes
    <3> HIDE DEF k
    <3> QED BY <1>6, <3>1 DEF OrderInv
  <2>3. currentMessage # 0 => delivered[a].to < currentMessage
    BY DEF OrderInv
  <2>4. /\ currentMessage' # 0 => delivered[a].to < currentMessage'
        /\ \A i \in 1..Len(messageQueue') : delivered[a].to < messageQueue'[i]
    BY <1>0, <1>1, <2>1, <2>2, <2>3, QueueAbove
  <2> QED BY <2>1, <2>4, OrderTypes
<1> HIDE DEF k
<1> QED BY <1>0, <1>4, <1>5 DEF OrderInv, AnswersInOrder

LEMMA OrderReadSucceeded ==
  ASSUME TypeInv, OrderInv, ReadSucceeded
  PROVE  OrderInv'
<1> DEFINE after == AfterMakeResponse(received)
<1>0. /\ QueueProcessUnsafe(messageQueue, after)
      /\ submitted' = submitted
      /\ delivered' = delivered \o MakeResponse(received)
      /\ after = currentMessage \/ after = 0
      /\ currentMessage # 0
  BY DEF ReadSucceeded, clock, AfterMakeResponse, TypeInv, ExchangeOwnsPort
<1>1. /\ \A i, j \in 1..Len(messageQueue') :
           i < j => messageQueue'[i] < messageQueue'[j]
      /\ \A i \in 1..Len(messageQueue') : currentMessage' < messageQueue'[i]
  <2>1. \A i \in 1..Len(messageQueue) : after < messageQueue[i]
    BY <1>0, OrderTypes DEF OrderInv
  <2> HIDE DEF after
  <2>2. after \in Nat
    BY <1>0, OrderTypes
  <2> QED BY <1>0, <2>1, <2>2, OrderTypes, QueueOrder DEF OrderInv
<1>2. ASSUME NEW d \in Nat,
             \A i \in 1..Len(messageQueue) : d < messageQueue[i],
             after # 0 => d < after
      PROVE  /\ currentMessage' # 0 => d < currentMessage'
             /\ \A i \in 1..Len(messageQueue') : d < messageQueue'[i]
  <2> HIDE DEF after
  <2> QED BY <1>0, <1>2, OrderTypes, QueueAbove
<1>3. ASSUME NEW a \in 1..Len(delivered)
      PROVE  /\ currentMessage' # 0 => delivered[a].to < currentMessage'
             /\ \A i \in 1..Len(messageQueue') : delivered[a].to < messageQueue'[i]
  <2>1. /\ delivered[a].to \in Nat
        /\ \A i \in 1..Len(messageQueue) : delivered[a].to < messageQueue[i]
        /\ after # 0 => delivered[a].to < after
    BY <1>0, OrderTypes DEF OrderInv
  <2> HIDE DEF after
  <2> QED BY <1>2, <2>1
<1>4. CASE MakeResponse(received) = <<>>
  <2>1. delivered' = delivered
    BY <1>0, <1>4, OrderTypes
  <2> QED BY <1>0, <1>1, <1>3, <2>1 DEF OrderInv, AnswersInOrder
<1>5. CASE MakeResponse(received) # <<>>
  <2> DEFINE n == Len(delivered) + 1
  <2>1. after = 0
        /\ MakeResponse(received) = << [to |-> currentMessage, for |-> received.for] >>
    BY <1>5 DEF MakeResponse, AfterMakeResponse
  <2>2. /\ Len(delivered') = n /\ delivered'[n].to = currentMessage
        /\ \A a \in 1..Len(delivered) : delivered'[a] = delivered[a]
    BY <1>0, <2>1, OrderTypes
  <2>3. /\ currentMessage' # 0 => currentMessage < currentMessage'
        /\ \A i \in 1..Len(messageQueue') : currentMessage < messageQueue'[i]
    <3>1. currentMessage \in Nat /\ \A i \in 1..Len(messageQueue) : currentMessage < messageQueue[i]
      BY OrderTypes DEF OrderInv
    <3> QED BY <1>2, <2>1, <3>1
  <2>4. \A a \in 1..Len(delivered) : delivered[a].to < currentMessage
    BY <1>0 DEF OrderInv
  <2>5. Len(delivered) \in Nat
    BY OrderTypes
  <2>6. AnswersInOrder'
    <3>1. \A i, j \in 1..n : i < j => delivered'[i].to < delivered'[j].to
      BY <2>2, <2>4, <2>5 DEF OrderInv, AnswersInOrder
    <3> QED BY <2>2, <3>1 DEF AnswersInOrder
  <2>7. \A a \in 1..n :
          /\ delivered'[a].to <= submitted
          /\ currentMessage' # 0 => delivered'[a].to < currentMessage'
          /\ \A i \in 1..Len(messageQueue') : delivered'[a].to < messageQueue'[i]
    <3>1. currentMessage \in Nat /\ submitted \in Nat /\ currentMessage <= submitted
      BY OrderTypes
    <3>2. \A a \in 1..Len(delivered) : delivered[a].to <= submitted
      BY DEF OrderInv
    <3>3. \A a \in 1..n : a \in 1..Len(delivered) \/ a = n
      BY <2>5
    <3> HIDE DEF n
    <3> QED BY <1>3, <2>2, <2>3, <3>1, <3>2, <3>3
  <2> HIDE DEF n
  <2> QED BY <1>0, <1>1, <2>2, <2>6, <2>7 DEF OrderInv
<1> QED BY <1>4, <1>5

LEMMA OrderStep ==
  ASSUME TypeInv, OrderInv, [Next]_vars
  PROVE  OrderInv'
<1> USE DEF OrderInv, AnswersInOrder, clock, bus, timing
<1>1. CASE MessageProcess
  BY <1>1, OrderMessageProcess
<1>2. CASE ReadSucceeded
  BY <1>2, OrderReadSucceeded
<1>3. CASE WriteFailed \/ ReadFailed
  <2>1. currentMessage' = 0 /\ UNCHANGED <<submitted, messageQueue, delivered>>
    BY <1>3 DEF WriteFailed, ReadFailed, Abandon
  <2> QED BY <2>1, OrderTypes
<1>4. CASE UNCHANGED <<submitted, messageQueue, currentMessage, delivered>>
  BY <1>4
<1>5. WriteSucceeded \/ WaitExpired \/ Kernel \/ Environment \/ UNCHANGED vars =>
        UNCHANGED <<submitted, messageQueue, currentMessage, delivered>>
  BY DEF WriteSucceeded, WaitExpired, Kernel, KernelWrites, KernelReads, TimerExpires,
         Environment, TimePasses, DeviceAnswers, PortBreaks, vars
<1> QED BY <1>1, <1>2, <1>3, <1>4, <1>5 DEF Next, Handlers

(* The slaves get the answers in the order in which the requests came, and *)
(* none twice, through expiry, errors and cancellations.                   *)
THEOREM AnsweredInOrder == Spec => []AnswersInOrder
<1>1. Init => OrderInv
  BY DEF Init, OrderInv, AnswersInOrder
<1>2. OrderInv => AnswersInOrder
  BY DEF OrderInv
<1> QED BY TypeStart, TypeStep, OrderStep, <1>1, <1>2, PTL DEF Spec
-----------------------------------------------------------------------------
(***************************************************************************)
(* Answers go where they belong, until an exchange is abandoned.  The      *)
(* strengthening: everything on the line belongs to the one exchange in    *)
(* process, and once its whole answer has come nothing is left on it.      *)
(***************************************************************************)
LineClean ==
  /\ \A m \in atDevice : m = currentMessage
  /\ \A i \in 1..Len(inbox) : inbox[i].for = currentMessage
  /\ readOp = "done" => received.for = currentMessage
  /\ atDevice # {} => inbox = <<>> /\ readOp # "done" /\ writeOp # "pending"
  /\ readOp = "done" /\ received.kind = "whole" => inbox = <<>> /\ atDevice = {}
  /\ \A i \in 1..Len(inbox) : inbox[i].kind = "whole" => Len(inbox) = 1
  /\ writeOp = "pending" => inbox = <<>>

MatchInv == abandoned = {} => LineClean /\ AnswerMatches

LEMMA InboxType ==
  ASSUME TypeInv
  PROVE  /\ inbox \in Seq(Pieces) /\ Len(inbox) \in Nat
         /\ \A i \in 1..Len(inbox) : inbox[i] \in Pieces /\ inbox[i].for # 0
<1>1. inbox \in Seq(Pieces)
  BY DEF TypeInv, TypeOK
<1>2. Len(inbox) \in Nat /\ \A i \in 1..Len(inbox) : inbox[i] \in Pieces
  BY <1>1, LenProperties, ElementOfSeq
<1>3. \A p \in Pieces : p.for # 0
  BY RtuMasterAssumption DEF Pieces
<1> QED BY <1>1, <1>2, <1>3

(* With no exchange in process the line is quiet.                          *)
LEMMA QuietLine ==
  ASSUME TypeInv, LineClean, currentMessage = 0
  PROVE  atDevice = {} /\ inbox = <<>> /\ readOp = "none" /\ writeOp = "none"
<1>1. atDevice = {}
  BY RtuMasterAssumption DEF LineClean, TypeInv, TypeOK
<1>2. inbox = <<>>
  <2>1. Len(inbox) = 0
    BY InboxType DEF LineClean
  <2> QED BY <2>1, InboxType
<1>3. readOp = "none" /\ writeOp = "none"
  BY DEF TypeInv, ExchangeOwnsPort
<1> QED BY <1>1, <1>2, <1>3

LEMMA MatchReadSucceeded ==
  ASSUME TypeInv, ReadSucceeded, abandoned' = {}, LineClean, AnswerMatches
  PROVE  LineClean' /\ AnswerMatches'
<1>0. /\ QueueProcessUnsafe(messageQueue, AfterMakeResponse(received))
      /\ readOp = "done" /\ readOp' = "none"
      /\ UNCHANGED <<port, atDevice, inbox, received>>
      /\ delivered' = delivered \o MakeResponse(received)
  BY DEF ReadSucceeded, bus
<1>1. received.kind \in {"whole", "short"} /\ received.for = currentMessage
  <2>1. received.kind # "damaged"
    BY DEF ReadSucceeded
  <2> QED BY <1>0, <2>1 DEF LineClean, TypeInv, TypeOK, Pieces
<1>2. LineClean'
  <2>1. CASE received.kind = "whole"
    BY <1>0, <2>1 DEF LineClean
  <2>2. CASE received.kind = "short"
    <3>1. AfterMakeResponse(received) = currentMessage /\ currentMessage # 0
      BY <1>0, <2>2 DEF AfterMakeResponse, TypeInv, ExchangeOwnsPort
    <3>2. currentMessage' = currentMessage /\ writeOp' = writeOp
      BY <1>0, <3>1 DEF QueueProcessUnsafe
    <3> QED BY <1>0, <3>2 DEF LineClean
  <2> QED BY <1>1, <2>1, <2>2
<1>3. AnswerMatches'
  <2>1. delivered \in Seq(Answers) /\ Len(delivered) \in Nat
    BY OrderTypes
  <2>2. CASE MakeResponse(received) = <<>>
    <3>1. delivered' = delivered
      BY <1>0, <2>1, <2>2
    <3> QED BY <3>1 DEF AnswerMatches
  <2>3. CASE MakeResponse(received) # <<>>
    <3>1. MakeResponse(received) = << [to |-> currentMessage, for |-> received.for] >>
      BY <2>3 DEF MakeResponse
    <3>2. /\ Len(delivered') = Len(delivered) + 1
          /\ delivered'[Len(delivered) + 1].to = currentMessage
          /\ delivered'[Len(delivered) + 1].for = received.for
          /\ \A i \in 1..Len(delivered) : delivered'[i] = delivered[i]
      BY <1>0, <2>1, <3>1
    <3>3. \A i \in 1..(Len(delivered) + 1) : delivered'[i].to = delivered'[i].for
      BY <1>1, <2>1, <3>2 DEF AnswerMatches
    <3> QED BY <3>2, <3>3 DEF AnswerMatches
  <2> QED BY <2>2, <2>3
<1> QED BY <1>2, <1>3

LEMMA MatchKernelReads ==
  ASSUME TypeInv, KernelReads, LineClean
  PROVE  LineClean'
<1>0. readOp = "pending" /\ UNCHANGED <<currentMessage, writeOp, atDevice>>
  BY DEF KernelReads
<1>1. CASE readOp' = "failed" /\ UNCHANGED <<received, inbox>>
  BY <1>0, <1>1 DEF LineClean
<1>2. ASSUME NEW n \in 1..Len(inbox),
             received' = IF n = 1 THEN inbox[1] ELSE [inbox[1] EXCEPT !.kind = "damaged"],
             inbox' = SubSeq(inbox, n + 1, Len(inbox)),
             readOp' = "done"
      PROVE  LineClean'
  <2>1. n \in Nat /\ 1 \in 1..Len(inbox) /\ inbox # <<>> /\ inbox[1] \in Pieces
    BY InboxType
  <2>2. atDevice = {} /\ writeOp # "pending"
    BY <2>1 DEF LineClean
  <2>3. received'.for = currentMessage
    <3>1. inbox[1].for = currentMessage
      BY <2>1 DEF LineClean
    <3>2. [inbox[1] EXCEPT !.kind = "damaged"].for = inbox[1].for
      BY <2>1 DEF Pieces
    <3> QED BY <1>2, <3>1, <3>2
  <2>4. /\ Len(inbox') = Len(inbox) - n
        /\ \A i \in 1..(Len(inbox) - n) : inbox'[i] = inbox[n + i] /\ n + i \in 1..Len(inbox)
    BY <1>2, <2>1, InboxType
  <2>5. \A i \in 1..(Len(inbox) - n) :
          inbox'[i].for = currentMessage /\ inbox'[i].kind # "whole"
    BY <2>1, <2>4, InboxType DEF LineClean
  <2>6. received'.kind = "whole" => inbox' = <<>>
    <3>1. CASE n = 1
      <4>1. received'.kind = "whole" => Len(inbox) = 1
        BY <1>2, <2>1, <3>1 DEF LineClean
      <4> QED BY <1>2, <2>1, <3>1, <4>1, InboxType
    <3>2. CASE n # 1
      BY <1>2, <2>1, <3>2 DEF Pieces
    <3> QED BY <3>1, <3>2
  <2> QED BY <1>0, <1>2, <2>2, <2>3, <2>4, <2>5, <2>6 DEF LineClean
<1> QED BY <1>1, <1>2 DEF KernelReads

LEMMA MatchDeviceAnswers ==
  ASSUME TypeInv, DeviceAnswers, LineClean
  PROVE  LineClean'
<1>0. UNCHANGED <<currentMessage, writeOp, readOp, received>>
  BY DEF DeviceAnswers
<1>1. PICK m \in atDevice :
        /\ atDevice' = atDevice \ {m}
        /\ \/ inbox' = Append(inbox, [kind |-> "whole", for |-> m])
           \/ inbox' = Append(inbox, [kind |-> "damaged", for |-> m])
           \/ inbox' = inbox \o <<[kind |-> "damaged", for |-> m], [kind |-> "damaged", for |-> m]>>
           \/ inbox' = inbox \o <<[kind |-> "short", for |-> m], [kind |-> "damaged", for |-> m]>>
  BY DEF DeviceAnswers
<1>2. m = currentMessage /\ inbox = <<>> /\ readOp # "done" /\ writeOp # "pending"
  BY DEF LineClean
<1>3. atDevice' = {}
  BY <1>1, <1>2 DEF LineClean
<1>4. \A i \in 1..Len(inbox') :
        inbox'[i].for = currentMessage /\ (inbox'[i].kind = "whole" => Len(inbox') = 1)
  BY <1>1, <1>2
<1> QED BY <1>0, <1>2, <1>3, <1>4 DEF LineClean

LEMMA MatchStep ==
  ASSUME TypeInv, MatchInv, [Next]_vars
  PROVE  MatchInv'
<1> SUFFICES ASSUME abandoned' = {}
             PROVE  LineClean' /\ AnswerMatches'
  BY DEF MatchInv
<1> USE DEF clock, bus, timing
<1>0. abandoned = {}
  BY DEF Next, Handlers, Kernel, Environment, MessageProcess, WriteSucceeded, WriteFailed,
         ReadSucceeded, ReadFailed, WaitExpired, KernelWrites, KernelReads, TimerExpires,
         TimePasses, DeviceAnswers, PortBreaks, Abandon, vars
<1>1. LineClean /\ AnswerMatches
  BY <1>0 DEF MatchInv
<1>2. CASE MessageProcess
  <2>1. /\ QueueProcessUnsafe(Append(messageQueue, submitted + 1), currentMessage)
        /\ UNCHANGED <<readOp, atDevice, inbox, received, delivered>>
    BY <1>2 DEF MessageProcess
  <2>2. CASE currentMessage # 0
    <3>1. UNCHANGED <<currentMessage, writeOp>>
      BY <2>1, <2>2 DEF QueueProcessUnsafe
    <3> QED BY <1>1, <2>1, <3>1 DEF LineClean, AnswerMatches
  <2>3. CASE currentMessage = 0
    BY <1>1, <2>1, <2>3, QuietLine DEF LineClean, AnswerMatches
  <2> QED BY <2>2, <2>3
<1>3. CASE WriteSucceeded
  BY <1>1, <1>3 DEF WriteSucceeded, StartReadTask, LineClean, AnswerMatches
<1>4. CASE WriteFailed \/ ReadFailed
  BY <1>4 DEF WriteFailed, ReadFailed, Abandon
<1>5. CASE ReadSucceeded
  BY <1>1, <1>5, MatchReadSucceeded
<1>6. CASE WaitExpired
  BY <1>1, <1>6 DEF WaitExpired, Aborted, LineClean, AnswerMatches
<1>7. CASE KernelWrites
  BY <1>1, <1>7 DEF KernelWrites, LineClean, AnswerMatches, TypeInv, ExchangeOwnsPort
<1>8. CASE KernelReads
  BY <1>1, <1>8, MatchKernelReads DEF KernelReads, AnswerMatches
<1>9. CASE DeviceAnswers
  BY <1>1, <1>9, MatchDeviceAnswers DEF DeviceAnswers, AnswerMatches
<1>10. CASE PortBreaks
  BY <1>1, <1>10 DEF PortBreaks, LineClean, AnswerMatches
<1>11. CASE TimerExpires \/ TimePasses \/ UNCHANGED vars
  BY <1>1, <1>11 DEF TimerExpires, TimePasses, vars, LineClean, AnswerMatches
<1> QED BY <1>2, <1>3, <1>4, <1>5, <1>6, <1>7, <1>8, <1>9, <1>10, <1>11
        DEF Next, Handlers, Kernel, Environment

(* One request on the line at a time is enough to give every answer to the *)
(* slave that asked, as long as no exchange ends without an answer.        *)
THEOREM AnswersMatchUntilAbandoned == Spec => []MatchesUntilAbandoned
<1>1. Init => MatchInv
  BY DEF Init, MatchInv, LineClean, AnswerMatches
<1>2. MatchInv => MatchesUntilAbandoned
  BY DEF MatchInv, MatchesUntilAbandoned
<1> QED BY TypeStart, TypeStep, MatchStep, <1>1, <1>2, PTL DEF Spec
-----------------------------------------------------------------------------
(***************************************************************************)
(* The master service.  Where a request is, read from three predicates.    *)
(***************************************************************************)
In(m, s)    == \E i \in 1..Len(s) : s[i] = m
Queued(m)   == In(m, messageQueue)
Answered(m) == \E i \in 1..Len(delivered) : delivered[i].to = m

(* A request is in one place at a time, and StatusOf names it.             *)
PlacesApart ==
  \A m \in Messages :
    /\ Answered(m) => StatusOf(m) = "answered" /\ m <= submitted
                      /\ m # currentMessage /\ ~Queued(m)
    /\ m = currentMessage => StatusOf(m) = "serving" /\ m <= submitted /\ ~Queued(m)
    /\ Queued(m) => StatusOf(m) = "waiting" /\ m <= submitted /\ currentMessage < m
    /\ m > submitted => StatusOf(m) = "new"
    /\ ~Answered(m) /\ m # currentMessage /\ ~Queued(m) /\ m <= submitted
         => StatusOf(m) = "lost"
    /\ StatusOf(m) \in {"new", "waiting", "serving", "answered", "lost"}

LEMMA Places == TypeInv /\ OrderInv => PlacesApart
<1> SUFFICES ASSUME TypeInv, OrderInv, NEW m \in Messages
             PROVE  /\ Answered(m) => StatusOf(m) = "answered" /\ m <= submitted
                                      /\ m # currentMessage /\ ~Queued(m)
                    /\ m = currentMessage =>
                         StatusOf(m) = "serving" /\ m <= submitted /\ ~Queued(m)
                    /\ Queued(m) => StatusOf(m) = "waiting" /\ m <= submitted
                                    /\ currentMessage < m
                    /\ m > submitted => StatusOf(m) = "new"
                    /\ ~Answered(m) /\ m # currentMessage /\ ~Queued(m) /\ m <= submitted
                         => StatusOf(m) = "lost"
                    /\ StatusOf(m) \in {"new", "waiting", "serving", "answered", "lost"}
  BY DEF PlacesApart
<1>1. Answered(m) => m <= submitted /\ m # currentMessage /\ ~Queued(m)
  <2>1. SUFFICES ASSUME NEW a \in 1..Len(delivered), delivered[a].to = m
                 PROVE  m <= submitted /\ m # currentMessage /\ ~Queued(m)
    BY DEF Answered
  <2>2. /\ m <= submitted
        /\ currentMessage # 0 => m < currentMessage
        /\ \A i \in 1..Len(messageQueue) : m < messageQueue[i]
    BY <2>1 DEF OrderInv
  <2>3. m # currentMessage
    BY <2>2, RtuMasterAssumption
  <2> QED BY <2>2, <2>3, OrderTypes DEF Queued, In
<1>2. Queued(m) => m <= submitted /\ currentMessage < m
  BY OrderTypes DEF Queued, In, OrderInv
<1>3. m = currentMessage => m <= submitted /\ ~Queued(m)
  BY <1>2, OrderTypes
<1>4. m > submitted => ~(m <= submitted)
  BY OrderTypes
<1>5. StatusOf(m) = IF Answered(m) THEN "answered"
                    ELSE IF currentMessage = m THEN "serving"
                    ELSE IF Queued(m) THEN "waiting"
                    ELSE IF m > submitted THEN "new" ELSE "lost"
  BY DEF StatusOf, Answered, Queued, In
<1>6. m <= submitted => ~(m > submitted)
  BY OrderTypes
<1> QED BY <1>1, <1>2, <1>3, <1>4, <1>5, <1>6

(* The answer a request was given, and that of one not answered yet.       *)
AnswersKnown ==
  \A m \in Messages :
    /\ \A a \in 1..Len(delivered) : delivered[a].to = m => AnswerOf(m) = delivered[a].for
    /\ ~Answered(m) => AnswerOf(m) = 0

LEMMA AnswerGiven == TypeInv /\ OrderInv => AnswersKnown
<1> SUFFICES ASSUME TypeInv, OrderInv PROVE AnswersKnown
  OBVIOUS
<1>1. ASSUME NEW a \in 1..Len(delivered)
      PROVE  AnswerOf(delivered[a].to) = delivered[a].for
  <2> DEFINE b == CHOOSE i \in 1..Len(delivered) : delivered[i].to = delivered[a].to
  <2>1. b \in 1..Len(delivered) /\ delivered[b].to = delivered[a].to
    OBVIOUS
  <2> HIDE DEF b
  <2>2. ~(a < b) /\ ~(b < a)
    BY <2>1, OrderTypes DEF OrderInv, AnswersInOrder
  <2>3. a = b
    BY <2>1, <2>2, OrderTypes
  <2> QED BY <2>3 DEF AnswerOf, b
<1>2. \A m \in Messages : ~Answered(m) => AnswerOf(m) = 0
  BY DEF AnswerOf, Answered
<1> QED BY <1>1, <1>2 DEF AnswersKnown

(***************************************************************************)
(* What any step does to the places: the facts from which the step is one  *)
(* of the service.                                                         *)
(***************************************************************************)
StepMoves ==
  /\ submitted' \in {submitted, submitted + 1}
  /\ \A m \in Messages :
       /\ Answered(m) => Answered(m)'
       /\ Answered(m)' => Answered(m) \/ m = currentMessage
       /\ m = currentMessage' => m = currentMessage \/ Queued(m) \/ submitted < m
       /\ Queued(m)' => Queued(m) \/ submitted < m
       /\ submitted < m /\ m <= submitted' => Queued(m)' \/ m = currentMessage'
  /\ \A m, n \in Messages :
       n < m /\ Queued(n)' /\ (Queued(m) \/ submitted < m) /\ m <= submitted' => Queued(m)'

LEMMA StatusStep ==
  ASSUME TypeInv, OrderInv, TypeInv', OrderInv', StepMoves
  PROVE  /\ \A m \in Messages : StatusOf(m)' \in Service!Successors(StatusOf(m))
         /\ \A m \in Messages :
              (StatusOf(m) = "new" /\ StatusOf(m)' # "new") =>
                \A n \in Messages : IF n < m THEN StatusOf(n) # "new"
                                             ELSE StatusOf(n)' = "new" \/ n = m
         /\ \A m, n \in Messages :
              (n < m /\ StatusOf(m) # StatusOf(m)' /\ StatusOf(m)' \in {"serving", "lost"}
                     /\ StatusOf(m) # "serving")
                => StatusOf(n)' # "waiting"
         /\ \A m, n \in Messages : StatusOf(m)' = "serving" /\ StatusOf(n)' = "serving" => m = n
<1> DEFINE S(m) == StatusOf(m)
           T(m) == StatusOf(m)'
<1>0. submitted \in Nat /\ submitted' \in {submitted, submitted + 1}
  BY OrderTypes DEF StepMoves
<1>1. ASSUME NEW m \in Messages
      PROVE  /\ Answered(m) => S(m) = "answered" /\ m <= submitted
                               /\ m # currentMessage /\ ~Queued(m)
             /\ m = currentMessage => S(m) = "serving" /\ m <= submitted /\ ~Queued(m)
             /\ Queued(m) => S(m) = "waiting" /\ m <= submitted /\ currentMessage < m
             /\ m > submitted => S(m) = "new"
             /\ ~Answered(m) /\ m # currentMessage /\ ~Queued(m) /\ m <= submitted
                  => S(m) = "lost"
             /\ S(m) \in {"new", "waiting", "serving", "answered", "lost"}
  BY Places DEF PlacesApart
<1>2. ASSUME NEW m \in Messages
      PROVE  /\ Answered(m)' => T(m) = "answered" /\ m <= submitted'
                               /\ m # currentMessage' /\ ~Queued(m)'
             /\ m = currentMessage' => T(m) = "serving" /\ m <= submitted' /\ ~Queued(m)'
             /\ Queued(m)' => T(m) = "waiting" /\ m <= submitted' /\ currentMessage' < m
             /\ m > submitted' => T(m) = "new"
             /\ ~Answered(m)' /\ m # currentMessage' /\ ~Queued(m)' /\ m <= submitted'
                  => T(m) = "lost"
             /\ T(m) \in {"new", "waiting", "serving", "answered", "lost"}
  <2>1. PlacesApart'
    BY Places, PTL
  <2> QED BY <2>1 DEF PlacesApart
<1>3. ASSUME NEW m \in Messages
      PROVE  /\ Answered(m) => Answered(m)'
             /\ Answered(m)' => Answered(m) \/ m = currentMessage
             /\ m = currentMessage' => m = currentMessage \/ Queued(m) \/ submitted < m
             /\ Queued(m)' => Queued(m) \/ submitted < m
             /\ submitted < m /\ m <= submitted' => Queued(m)' \/ m = currentMessage'
  BY DEF StepMoves
<1>4. \A m, n \in Messages :
        n < m /\ Queued(n)' /\ (Queued(m) \/ submitted < m) /\ m <= submitted' => Queued(m)'
  BY DEF StepMoves
<1>5. ASSUME NEW m \in Messages
      PROVE  T(m) \in Service!Successors(S(m))
  <2> HIDE DEF S, T
  <2>1. CASE submitted < m
    BY <1>0, <1>1, <1>2, <1>3, <2>1 DEF Service!Successors
  <2>2. CASE m <= submitted
    <3>1. S(m) # "new" /\ T(m) # "new" /\ m <= submitted'
      BY <1>0, <1>1, <1>2, <2>2
    <3>2. ~(submitted < m)
      BY <1>0, <2>2
    <3> QED BY <1>1, <1>2, <1>3, <2>2, <3>1, <3>2 DEF Service!Successors
  <2> QED BY <1>0, <2>1, <2>2
<1>6. ASSUME NEW m \in Messages, S(m) = "new", T(m) # "new", NEW n \in Messages
      PROVE  IF n < m THEN S(n) # "new" ELSE T(n) = "new" \/ n = m
  <2> HIDE DEF S, T
  <2>1. submitted < m /\ m <= submitted'
    BY <1>0, <1>1, <1>2, <1>6
  <2>2. m = submitted + 1 /\ submitted' = submitted + 1
    BY <1>0, <2>1
  <2>3. CASE n < m
    <3>1. n <= submitted
      BY <1>0, <2>2, <2>3
    <3> QED BY <1>1, <2>3, <3>1
  <2>4. CASE n > m
    <3>1. n > submitted'
      BY <1>0, <2>2, <2>4
    <3> QED BY <1>2, <2>4, <3>1
  <2> QED BY <2>3, <2>4
<1>7. ASSUME NEW m \in Messages, NEW n \in Messages, n < m, S(m) # T(m),
             T(m) \in {"serving", "lost"}, S(m) # "serving"
      PROVE  T(n) # "waiting"
  <2> HIDE DEF S, T
  <2>1. SUFFICES ASSUME T(n) = "waiting" PROVE FALSE
    OBVIOUS
  <2>8. Queued(n)'
    BY <1>0, <1>2, <2>1
  <2>2. m <= submitted' /\ ~Queued(m)' /\ ~(m > submitted')
    BY <1>0, <1>2, <1>7
  <2>3. ~Queued(m) /\ ~(submitted < m)
    BY <1>4, <1>7, <2>8, <2>2
  <2>4. m <= submitted
    BY <1>0, <2>3
  <2>5. ~Answered(m) /\ m # currentMessage
    BY <1>1, <1>2, <1>3, <1>7
  <2>6. S(m) = "lost"
    BY <1>1, <2>3, <2>4, <2>5
  <2>7. T(m) = "serving" /\ m = currentMessage'
    BY <1>2, <1>7, <2>2, <2>6
  <2> QED BY <1>3, <2>3, <2>5, <2>7
<1>8. ASSUME NEW m \in Messages, NEW n \in Messages, T(m) = "serving", T(n) = "serving"
      PROVE  m = n
  <2> HIDE DEF S, T
  <2>1. ASSUME NEW k \in Messages, T(k) = "serving" PROVE k = currentMessage'
    BY <1>0, <1>2, <2>1
  <2> QED BY <1>8, <2>1
<1> QED BY <1>5, <1>6, <1>7, <1>8

(* What is left of the queue, by its members: nothing new, and whatever    *)
(* came after a request that is left.  A request that has not expired is   *)
(* left in it or taken when it is the last.                                *)
LEMMA QueueMembers ==
  ASSUME NEW queue \in Seq(Nat), NEW current \in Nat, QueueProcessUnsafe(queue, current)
  PROVE  /\ \A m \in Nat : In(m, messageQueue') => In(m, queue)
         /\ currentMessage' # current => /\ current = 0 /\ writeOp' = "pending"
                                         /\ currentMessage' \in Nat
                                         /\ In(currentMessage', queue)
         /\ currentMessage' = current /\ current # 0 => writeOp' = writeOp
         /\ writeOp' # writeOp => current = 0 /\ In(currentMessage', queue)
         /\ (\A i, j \in 1..Len(queue) : i < j => queue[i] < queue[j]) =>
              \A m, n \in Nat :
                n < m /\ In(n, messageQueue') /\ In(m, queue) => In(m, messageQueue')
         /\ queue # <<>> /\ queue[Len(queue)] > overdue /\ overdue \in Nat =>
              In(queue[Len(queue)], messageQueue') \/ currentMessage' = queue[Len(queue)]
<1>0. Len(queue) \in Nat /\ \A i \in 1..Len(queue) : queue[i] \in Nat
  BY LenProperties, ElementOfSeq
<1>1. CASE QueueKept(queue, current)
  <2>1. queue # <<>> => In(queue[Len(queue)], queue)
    BY <1>0 DEF In
  <2> QED BY <1>1, <2>1 DEF QueueKept
<1>2. CASE QueueExpired(queue, current)
  <2>1. \A m : ~In(m, messageQueue')
    BY <1>2 DEF QueueExpired, In
  <2>2. queue # <<>> /\ overdue \in Nat => ~(queue[Len(queue)] > overdue)
    BY <1>0, <1>2 DEF QueueExpired
  <2> QED BY <1>2, <2>1, <2>2 DEF QueueExpired
<1>3. CASE QueueTaken(queue, current)
  <2>1. PICK n \in Nat :
          /\ n < Len(queue)
          /\ currentMessage' = queue[n + 1]
          /\ messageQueue' = SubSeq(queue, n + 2, Len(queue))
    BY <1>3 DEF QueueTaken
  <2>2. /\ Len(messageQueue') = Len(queue) - n - 1
        /\ \A i \in 1..(Len(queue) - n - 1) : messageQueue'[i] = queue[n + 1 + i]
    BY <1>0, <2>1
  <2>3. \A m : In(m, messageQueue') <=> \E i \in (n + 2)..Len(queue) : queue[i] = m
    <3>1. \A i \in (n + 2)..Len(queue) :
            i - n - 1 \in 1..(Len(queue) - n - 1) /\ n + 1 + (i - n - 1) = i
      BY <1>0, <2>1
    <3>2. \A i \in 1..(Len(queue) - n - 1) : n + 1 + i \in (n + 2)..Len(queue)
      BY <1>0, <2>1
    <3> QED BY <2>2, <3>1, <3>2 DEF In
  <2>4. n + 1 \in 1..Len(queue) /\ (n + 2)..Len(queue) \subseteq 1..Len(queue)
    BY <1>0, <2>1
  <2>5. In(currentMessage', queue) /\ currentMessage' \in Nat
    BY <1>0, <2>1, <2>4 DEF In
  <2>6. \A m \in Nat : In(m, messageQueue') => In(m, queue)
    BY <2>3, <2>4 DEF In
  <2>7. ASSUME \A i, j \in 1..Len(queue) : i < j => queue[i] < queue[j],
               NEW m \in Nat, NEW k \in Nat, k < m, In(k, messageQueue'), In(m, queue)
        PROVE  In(m, messageQueue')
    <3>1. PICK i \in (n + 2)..Len(queue) : queue[i] = k
      BY <2>3, <2>7
    <3>2. PICK j \in 1..Len(queue) : queue[j] = m
      BY <2>7 DEF In
    <3>3. ~(j < i)
      BY <2>4, <2>7, <3>1, <3>2
    <3>4. j \in (n + 2)..Len(queue)
      BY <1>0, <3>1, <3>2, <3>3
    <3> QED BY <2>3, <3>2, <3>4
  <2>8. In(queue[Len(queue)], messageQueue') \/ currentMessage' = queue[Len(queue)]
    <3>1. CASE n + 1 = Len(queue)
      BY <2>1, <3>1
    <3>2. CASE n + 1 # Len(queue)
      <4>1. Len(queue) \in (n + 2)..Len(queue)
        BY <1>0, <2>1, <3>2
      <4> QED BY <2>3, <4>1
    <3> QED BY <3>1, <3>2
  <2>9. currentMessage' = current /\ current # 0 => writeOp' = writeOp
    BY <1>3 DEF QueueTaken
  <2> QED BY <1>3, <2>5, <2>6, <2>7, <2>8, <2>9 DEF QueueTaken
<1> QED BY <1>1, <1>2, <1>3, QueueOutcome

(* A new request: the queue it is appended to.                             *)
LEMMA Arrival ==
  ASSUME TypeInv, OrderInv, MessageProcess
  PROVE  LET k     == submitted + 1
             queue == Append(messageQueue, k)
         IN  /\ submitted' = k /\ delivered' = delivered
             /\ queue \in Seq(Nat) /\ queue # <<>> /\ queue[Len(queue)] = k
             /\ QueueProcessUnsafe(queue, currentMessage)
             /\ \A i, j \in 1..Len(queue) : i < j => queue[i] < queue[j]
             /\ \A m : In(m, queue) <=> Queued(m) \/ m = k
<1> DEFINE k     == submitted + 1
           queue == Append(messageQueue, k)
<1>0. QueueProcessUnsafe(queue, currentMessage) /\ submitted' = k /\ delivered' = delivered
  BY DEF MessageProcess
<1>1. /\ queue \in Seq(Nat) /\ queue # <<>> /\ Len(queue) = Len(messageQueue) + 1
      /\ queue[Len(queue)] = k /\ \A i \in 1..Len(messageQueue) : queue[i] = messageQueue[i]
  <2>1. messageQueue \in Seq(Nat) /\ Len(messageQueue) \in Nat /\ k \in Nat
    BY OrderTypes
  <2> HIDE DEF k
  <2> QED BY <2>1
<1>2. \A i \in 1..Len(queue) :
        \/ i \in 1..Len(messageQueue) /\ queue[i] = messageQueue[i] /\ queue[i] < k
        \/ i = Len(messageQueue) + 1 /\ queue[i] = k
  <2> HIDE DEF queue
  <2> QED BY <1>1, OrderTypes
<1>3. ASSUME NEW i \in 1..Len(queue), NEW j \in 1..Len(queue), i < j
      PROVE  queue[i] < queue[j]
  <2> HIDE DEF queue, k
  <2>1. i \in 1..Len(messageQueue) /\ queue[i] = messageQueue[i] /\ queue[i] < k
    BY <1>1, <1>2, <1>3, OrderTypes
  <2>2. CASE j \in 1..Len(messageQueue) /\ queue[j] = messageQueue[j]
    BY <1>3, <2>1, <2>2 DEF OrderInv
  <2>3. CASE queue[j] = k
    BY <2>1, <2>3
  <2> QED BY <1>2, <2>2, <2>3
<1>4. \A m : In(m, queue) <=> Queued(m) \/ m = k
  <2>1. \A i \in 1..Len(messageQueue) : i \in 1..Len(queue)
    BY <1>1, OrderTypes
  <2>2. Len(queue) \in 1..Len(queue)
    BY <1>1, OrderTypes
  <2> HIDE DEF queue, k
  <2> QED BY <1>1, <1>2, <2>1, <2>2 DEF In, Queued
<1> QED BY <1>0, <1>1, <1>3, <1>4

(* The outcome of a read: what is delivered and what is left in process.   *)
LEMMA Outcome ==
  ASSUME TypeInv, ReadSucceeded
  PROVE  LET after == AfterMakeResponse(received)
         IN  /\ QueueProcessUnsafe(messageQueue, after)
             /\ submitted' = submitted /\ currentMessage # 0 /\ writeOp = "none"
             /\ after \in {0, currentMessage}
             /\ \/ delivered' = delivered
                \/ /\ received.kind = "whole" /\ after = 0
                   /\ delivered' = Append(delivered,
                                          [to |-> currentMessage, for |-> received.for])
<1> DEFINE after == AfterMakeResponse(received)
<1>1. /\ QueueProcessUnsafe(messageQueue, after)
      /\ delivered' = delivered \o MakeResponse(received)
      /\ submitted' = submitted /\ currentMessage # 0 /\ writeOp = "none"
  BY DEF ReadSucceeded, clock, TypeInv, ExchangeOwnsPort
<1>2. CASE received.kind = "whole"
  <2>1. MakeResponse(received) = << [to |-> currentMessage, for |-> received.for] >>
        /\ after = 0
    BY <1>1, <1>2 DEF MakeResponse, AfterMakeResponse
  <2>2. delivered' = Append(delivered, [to |-> currentMessage, for |-> received.for])
    BY <1>1, <2>1, OrderTypes
  <2> QED BY <1>1, <1>2, <2>1, <2>2
<1>3. CASE received.kind # "whole"
  <2>1. MakeResponse(received) = <<>>
    BY <1>3 DEF MakeResponse
  <2>2. delivered' = delivered
    BY <1>1, <2>1, OrderTypes
  <2> QED BY <1>1, <2>2 DEF AfterMakeResponse
<1> QED BY <1>2, <1>3

(* The rest of the steps leave the queue and the answers alone.            *)
LEMMA OtherSteps ==
  ASSUME [Next]_vars
  PROVE  \/ MessageProcess \/ ReadSucceeded
         \/ /\ UNCHANGED <<submitted, messageQueue, delivered>>
            /\ currentMessage' \in {0, currentMessage}
<1> USE DEF clock, bus, timing
<1>1. CASE WriteFailed \/ ReadFailed
  BY <1>1 DEF WriteFailed, ReadFailed, Abandon
<1>2. CASE WriteSucceeded \/ WaitExpired \/ Kernel \/ Environment \/ UNCHANGED vars
  BY <1>2 DEF WriteSucceeded, WaitExpired, Kernel, KernelWrites, KernelReads, TimerExpires,
         Environment, TimePasses, DeviceAnswers, PortBreaks, vars
<1> QED BY <1>1, <1>2 DEF Next, Handlers

LEMMA MovesStep ==
  ASSUME TypeInv, OrderInv, [Next]_vars
  PROVE  StepMoves
<1>0. submitted \in Nat /\ currentMessage \in Nat /\ currentMessage <= submitted
      /\ messageQueue \in Seq(Nat) /\ delivered \in Seq(Answers)
  BY OrderTypes
<1>1. CASE MessageProcess
  <2> DEFINE k     == submitted + 1
             queue == Append(messageQueue, k)
  <2>1. /\ submitted' = k /\ delivered' = delivered
        /\ queue \in Seq(Nat) /\ queue # <<>> /\ queue[Len(queue)] = k
        /\ QueueProcessUnsafe(queue, currentMessage)
        /\ \A i, j \in 1..Len(queue) : i < j => queue[i] < queue[j]
        /\ \A m : In(m, queue) <=> Queued(m) \/ m = k
    BY <1>1, Arrival
  <2>2. \A m \in Messages : submitted < m /\ m <= k => m = k
    BY <1>0
  <2>3. k > overdue /\ overdue \in Nat
    BY <1>0 DEF TypeInv, TypeOK
  <2>8. submitted < k
    BY <1>0
  <2> HIDE DEF queue, k
  <2>7. /\ \A m \in Nat : In(m, messageQueue') => In(m, queue)
        /\ currentMessage' # currentMessage => In(currentMessage', queue)
        /\ \A m, n \in Nat : n < m /\ In(n, messageQueue') /\ In(m, queue) => In(m, messageQueue')
        /\ In(k, messageQueue') \/ currentMessage' = k
    <3>1. queue[Len(queue)] > overdue
      BY <2>1, <2>3
    <3>2. /\ queue \in Seq(Nat) /\ currentMessage \in Nat
          /\ QueueProcessUnsafe(queue, currentMessage)
          /\ queue # <<>> /\ queue[Len(queue)] = k
          /\ \A i, j \in 1..Len(queue) : i < j => queue[i] < queue[j]
      BY <1>0, <2>1
    <3> QED BY <2>3, <3>1, <3>2, QueueMembers
  <2>6. ASSUME NEW m \in Nat PROVE Queued(m)' <=> In(m, messageQueue')
    BY DEF Queued, In
  <2>4. /\ \A m \in Nat : Queued(m)' => Queued(m) \/ m = k
        /\ currentMessage' # currentMessage => Queued(currentMessage') \/ currentMessage' = k
        /\ \A m, n \in Nat : n < m /\ Queued(n)' /\ (Queued(m) \/ m = k) => Queued(m)'
        /\ \A m \in Nat : m = k => Queued(m)' \/ currentMessage' = m
    BY <2>1, <2>6, <2>7
  <2>5. \A m \in Messages : Answered(m)' <=> Answered(m)
    BY <2>1 DEF Answered
  <2>11. \A m \in Messages : m \in Nat
    OBVIOUS
  <2>9. \A m \in Messages :
          /\ Queued(m)' => Queued(m) \/ submitted < m
          /\ m = currentMessage' => m = currentMessage \/ Queued(m) \/ submitted < m
          /\ submitted < m /\ m <= submitted' => Queued(m)' \/ m = currentMessage'
    BY <2>1, <2>2, <2>4, <2>8, <2>11
  <2>10. \A m, n \in Messages :
           n < m /\ Queued(n)' /\ (Queued(m) \/ submitted < m) /\ m <= submitted' => Queued(m)'
    BY <2>1, <2>2, <2>4, <2>8, <2>11
  <2> QED BY <2>1, <2>5, <2>9, <2>10 DEF StepMoves, k
<1>2. CASE ReadSucceeded
  <2> DEFINE after == AfterMakeResponse(received)
  <2>1. /\ QueueProcessUnsafe(messageQueue, after)
        /\ submitted' = submitted
        /\ after \in {0, currentMessage}
        /\ \/ delivered' = delivered
           \/ /\ received.kind = "whole" /\ after = 0
              /\ delivered' = Append(delivered,
                                     [to |-> currentMessage, for |-> received.for])
    BY <1>2, Outcome
  <2> HIDE DEF after
  <2>2. /\ \A m \in Nat : Queued(m)' => Queued(m)
        /\ currentMessage' # after => Queued(currentMessage')
        /\ \A m, n \in Nat : n < m /\ Queued(n)' /\ Queued(m) => Queued(m)'
    <3>1. \A i, j \in 1..Len(messageQueue) : i < j => messageQueue[i] < messageQueue[j]
      BY DEF OrderInv
    <3>2. after \in Nat
      BY <1>0, <2>1
    <3> QED BY <1>0, <2>1, <3>1, <3>2, QueueMembers DEF Queued
  <2>3. \A m \in Messages : /\ Answered(m) => Answered(m)'
                            /\ Answered(m)' => Answered(m) \/ m = currentMessage
    <3>1. CASE delivered' = delivered
      BY <3>1 DEF Answered
    <3>2. CASE delivered' = Append(delivered, [to |-> currentMessage, for |-> received.for])
      <4>1. /\ Len(delivered') = Len(delivered) + 1 /\ Len(delivered) \in Nat
            /\ delivered'[Len(delivered) + 1].to = currentMessage
            /\ \A i \in 1..Len(delivered) : delivered'[i] = delivered[i]
        BY <1>0, <3>2
      <4>2. \A i \in 1..(Len(delivered) + 1) : i \in 1..Len(delivered) \/ i = Len(delivered) + 1
        BY <4>1
      <4>3. \A i \in 1..Len(delivered) : i \in 1..(Len(delivered) + 1)
        BY <4>1
      <4> QED BY <4>1, <4>2, <4>3 DEF Answered
    <3> QED BY <2>1, <3>1, <3>2
  <2>4. \A m \in Messages : submitted < m => ~(m <= submitted)
    BY <1>0
  <2>5. \A m \in Messages : m # 0 /\ m \in Nat
    BY RtuMasterAssumption
  <2> QED BY <1>0, <2>1, <2>2, <2>3, <2>4, <2>5 DEF StepMoves
<1>3. CASE /\ UNCHANGED <<submitted, messageQueue, delivered>>
           /\ currentMessage' \in {0, currentMessage}
  <2>1. \A m \in Messages : m # 0 /\ (submitted < m => ~(m <= submitted))
    BY <1>0, RtuMasterAssumption
  <2>2. \A m \in Messages : (Queued(m)' <=> Queued(m)) /\ (Answered(m)' <=> Answered(m))
    BY <1>3 DEF Queued, Answered
  <2> QED BY <1>0, <1>3, <2>1, <2>2 DEF StepMoves
<1> QED BY <1>1, <1>2, <1>3, OtherSteps

(***************************************************************************)
(* Whose answer may still be given.  A request written to the line puts at *)
(* most one whole answer there, in one of three places on its way, and it  *)
(* is older than whatever waits; nobody has been given it.                 *)
(***************************************************************************)
Passed(m) ==
  /\ m <= submitted
  /\ currentMessage # 0 => m <= currentMessage
  /\ \A i \in 1..Len(messageQueue) : m < messageQueue[i]

Ungiven(m) == \A a \in 1..Len(delivered) : delivered[a].for # m

WholeInbox == {i \in 1..Len(inbox) : inbox[i].kind = "whole"}
WholeRead  == readOp = "done" /\ received.kind = "whole"

FreshInv ==
  /\ \A m \in atDevice : Passed(m) /\ Ungiven(m)
  /\ \A i \in WholeInbox :
       /\ Passed(inbox[i].for) /\ Ungiven(inbox[i].for)
       /\ inbox[i].for \notin atDevice
  /\ \A i, j \in WholeInbox : inbox[i].for = inbox[j].for => i = j
  /\ WholeRead =>
       /\ Passed(received.for) /\ Ungiven(received.for)
       /\ received.for \notin atDevice
       /\ \A i \in WholeInbox : inbox[i].for # received.for
  /\ writeOp = "pending" =>
       /\ Ungiven(currentMessage)
       /\ currentMessage \notin atDevice
       /\ \A i \in WholeInbox : inbox[i].for # currentMessage
  /\ \A a \in 1..Len(delivered) : Passed(delivered[a].for)

(* What is older than the queue stays so, and is older than a request that *)
(* is taken from it.                                                       *)
LEMMA PassedStep ==
  ASSUME TypeInv, OrderInv, [Next]_vars, NEW m \in Nat, Passed(m)
  PROVE  /\ Passed(m)'
         /\ currentMessage' \notin {0, currentMessage} => m < currentMessage'
<1>0. submitted \in Nat /\ currentMessage \in Nat /\ messageQueue \in Seq(Nat)
  BY OrderTypes
<1>1. ASSUME NEW queue \in Seq(Nat), NEW current \in {0, currentMessage},
             QueueProcessUnsafe(queue, current),
             \A i \in 1..Len(queue) : m < queue[i],
             submitted' \in {submitted, submitted + 1}
      PROVE  /\ Passed(m)'
             /\ currentMessage' \notin {0, currentMessage} => m < currentMessage'
  <2>1. current \in Nat
    BY <1>0
  <2>2. /\ \A i \in Nat : In(i, messageQueue') => In(i, queue)
        /\ currentMessage' # current => /\ current = 0 /\ currentMessage' \in Nat
                                        /\ In(currentMessage', queue)
    BY <1>1, <2>1, QueueMembers
  <2>3. \A i \in 1..Len(messageQueue') : messageQueue'[i] \in Nat
    <3>1. messageQueue' \in Seq(1..submitted')
      BY TypeStep DEF TypeInv, TypeOK
    <3> QED BY <1>0, <1>1, <3>1, ElementOfSeq
  <2>4. \A i \in 1..Len(messageQueue') : m < messageQueue'[i]
    BY <1>1, <2>2, <2>3 DEF In
  <2>5. currentMessage' # current => m < currentMessage'
    BY <1>1, <2>2 DEF In
  <2>6. m <= submitted'
    BY <1>0, <1>1 DEF Passed
  <2>7. currentMessage' # 0 => m <= currentMessage'
    BY <1>0, <1>1, <2>2, <2>5 DEF Passed
  <2> QED BY <1>1, <2>4, <2>5, <2>6, <2>7 DEF Passed
<1>2. CASE MessageProcess
  <2> DEFINE k     == submitted + 1
             queue == Append(messageQueue, k)
  <2>1. /\ submitted' = k
        /\ queue \in Seq(Nat)
        /\ QueueProcessUnsafe(queue, currentMessage)
        /\ \A i : In(i, queue) <=> Queued(i) \/ i = k
    BY <1>2, Arrival
  <2>2. m < k
    BY <1>0 DEF Passed
  <2>3. \A i \in 1..Len(queue) : m < queue[i]
    <3> HIDE DEF queue, k
    <3>1. \A i \in 1..Len(queue) : In(queue[i], queue)
      BY DEF In
    <3>2. \A i : Queued(i) => m < i
      BY DEF Queued, In, Passed
    <3> QED BY <2>1, <2>2, <3>1, <3>2
  <2> HIDE DEF queue
  <2> QED BY <1>1, <2>1, <2>3
<1>3. CASE ReadSucceeded
  <2>1. /\ AfterMakeResponse(received) \in {0, currentMessage}
        /\ QueueProcessUnsafe(messageQueue, AfterMakeResponse(received))
        /\ submitted' = submitted
    BY <1>3, Outcome
  <2> QED BY <1>0, <1>1, <2>1 DEF Passed
<1>4. CASE /\ UNCHANGED <<submitted, messageQueue, delivered>>
           /\ currentMessage' \in {0, currentMessage}
  BY <1>4 DEF Passed
<1> QED BY <1>2, <1>3, <1>4, OtherSteps

(* What a step gives to the slaves: nothing, or the whole answer that was  *)
(* read, which nobody had been given.                                      *)
LEMMA GivenStep ==
  ASSUME TypeInv, OrderInv, FreshInv, [Next]_vars
  PROVE  \/ delivered' = delivered
         \/ /\ ReadSucceeded /\ WholeRead /\ currentMessage # 0
            /\ delivered' = Append(delivered, [to |-> currentMessage, for |-> received.for])
<1>1. CASE MessageProcess
  BY <1>1 DEF MessageProcess
<1>2. CASE ReadSucceeded
  BY <1>2, Outcome DEF WholeRead, ReadSucceeded
<1> QED BY <1>1, <1>2, OtherSteps

LEMMA UngivenStep ==
  ASSUME TypeInv, OrderInv, FreshInv, [Next]_vars, NEW m, Ungiven(m),
         ReadSucceeded /\ WholeRead => received.for # m
  PROVE  Ungiven(m)'
<1>1. CASE delivered' = delivered
  BY <1>1 DEF Ungiven
<1>2. CASE /\ ReadSucceeded /\ WholeRead
           /\ delivered' = Append(delivered, [to |-> currentMessage, for |-> received.for])
  <2>1. /\ Len(delivered') = Len(delivered) + 1 /\ Len(delivered) \in Nat
        /\ delivered'[Len(delivered) + 1].for = received.for
        /\ \A i \in 1..Len(delivered) : delivered'[i] = delivered[i]
    BY <1>2, OrderTypes
  <2> QED BY <1>2, <2>1 DEF Ungiven
<1> QED BY <1>1, <1>2, GivenStep

(* The requests whose answers have been given are behind the queue.        *)
LEMMA GivenPassed ==
  ASSUME TypeInv, OrderInv, FreshInv, [Next]_vars
  PROVE  (\A a \in 1..Len(delivered) : Passed(delivered[a].for))'
<1>0. ASSUME NEW m \in Nat, Passed(m)
      PROVE  /\ m <= submitted' /\ (currentMessage' # 0 => m <= currentMessage')
             /\ \A i \in 1..Len(messageQueue') : m < messageQueue'[i]
  BY <1>0, PassedStep DEF Passed
<1>1. \A a \in 1..Len(delivered) : delivered[a].for \in Nat /\ Passed(delivered[a].for)
  <2>1. \A a \in 1..Len(delivered) : delivered[a] \in Answers
    BY OrderTypes, ElementOfSeq
  <2> QED BY <2>1, RtuMasterAssumption DEF Answers, FreshInv
<1>2. \A a \in 1..Len(delivered) :
        /\ delivered[a].for <= submitted'
        /\ currentMessage' # 0 => delivered[a].for <= currentMessage'
        /\ \A i \in 1..Len(messageQueue') : delivered[a].for < messageQueue'[i]
  BY <1>0, <1>1
<1>3. CASE delivered' = delivered
  BY <1>2, <1>3 DEF Passed
<1>4. CASE /\ ReadSucceeded /\ WholeRead
           /\ delivered' = Append(delivered, [to |-> currentMessage, for |-> received.for])
  <2>1. /\ Len(delivered') = Len(delivered) + 1 /\ Len(delivered) \in Nat
        /\ delivered'[Len(delivered) + 1].for = received.for
        /\ \A i \in 1..Len(delivered) : delivered'[i] = delivered[i]
    BY <1>4, OrderTypes
  <2>2. received.for \in Nat /\ Passed(received.for)
    BY <1>4, RtuMasterAssumption DEF FreshInv, TypeInv, TypeOK, Pieces
  <2>3. /\ received.for <= submitted'
        /\ currentMessage' # 0 => received.for <= currentMessage'
        /\ \A i \in 1..Len(messageQueue') : received.for < messageQueue'[i]
    BY <1>0, <2>2
  <2>4. \A a \in 1..Len(delivered') : a \in 1..Len(delivered) \/ a = Len(delivered) + 1
    BY <2>1
  <2> QED BY <1>2, <2>1, <2>3, <2>4 DEF Passed
<1> QED BY <1>3, <1>4, GivenStep

(* What is on the line is a request that was sent.                         *)
LEMMA LineTypes ==
  ASSUME TypeInv
  PROVE  /\ atDevice \subseteq Nat
         /\ \A i \in WholeInbox : inbox[i].for \in Nat
         /\ received.for \in Nat
         /\ inbox \in Seq(Pieces) /\ Len(inbox) \in Nat
<1>1. \A p \in Pieces : p.for \in Nat
  BY RtuMasterAssumption DEF Pieces
<1> QED BY <1>1, InboxType DEF WholeInbox, TypeInv, TypeOK

(* The steps that leave the line as it is.                                 *)
LEMMA FreshLineSame ==
  ASSUME TypeInv, OrderInv, FreshInv, [Next]_vars,
         UNCHANGED <<atDevice, inbox, received>>,
         WholeRead' => WholeRead /\ ~ReadSucceeded,
         writeOp' = "pending" => \/ writeOp = "pending" /\ currentMessage' = currentMessage
                                    /\ ~ReadSucceeded
                                 \/ currentMessage' \notin {0, currentMessage}
  PROVE  FreshInv'
<1>1. ASSUME NEW m \in Nat, Passed(m), Ungiven(m),
             ReadSucceeded /\ WholeRead => received.for # m
      PROVE  Passed(m)' /\ Ungiven(m)'
  BY <1>1, PassedStep, UngivenStep
<1>2. \A m \in atDevice : Passed(m)' /\ Ungiven(m)'
  BY <1>1, LineTypes DEF FreshInv
<1>3. WholeInbox' = WholeInbox
  BY DEF WholeInbox
<1>4. ASSUME NEW i \in WholeInbox
      PROVE  Passed(inbox[i].for)' /\ Ungiven(inbox[i].for)' /\ inbox[i].for \notin atDevice
  <2> DEFINE m == inbox[i].for
  <2>1. m \in Nat /\ Passed(m) /\ Ungiven(m) /\ (WholeRead => received.for # m)
        /\ m \notin atDevice
    BY LineTypes DEF FreshInv
  <2>2. m' = m
    OBVIOUS
  <2> QED BY <1>1, <2>1, <2>2
<1>5. WholeRead' =>
        /\ Passed(received.for)' /\ Ungiven(received.for)'
        /\ received.for \notin atDevice
        /\ \A i \in WholeInbox : inbox[i].for # received.for
  <2>1. SUFFICES ASSUME WholeRead, ~ReadSucceeded
                 PROVE  /\ Passed(received.for)' /\ Ungiven(received.for)'
                        /\ received.for \notin atDevice
                        /\ \A i \in WholeInbox : inbox[i].for # received.for
    OBVIOUS
  <2> DEFINE m == received.for
  <2>2. m \in Nat /\ Passed(m) /\ Ungiven(m)
    BY <2>1, LineTypes DEF FreshInv
  <2>3. m' = m
    OBVIOUS
  <2>4. Passed(m)' /\ Ungiven(m)'
    BY <1>1, <2>1, <2>2, <2>3
  <2> QED BY <2>1, <2>4 DEF FreshInv
<1>6. writeOp' = "pending" =>
        /\ Ungiven(currentMessage)'
        /\ currentMessage' \notin atDevice
        /\ \A i \in WholeInbox : inbox[i].for # currentMessage'
  <2>1. CASE writeOp = "pending" /\ currentMessage' = currentMessage /\ ~ReadSucceeded
    <3>1. delivered' = delivered
      BY <2>1, GivenStep
    <3> QED BY <2>1, <3>1 DEF FreshInv, Ungiven
  <2>2. CASE currentMessage' \notin {0, currentMessage}
    <3>1. \A m \in Nat : Passed(m) => m # currentMessage'
      <4>1. \A m \in Nat : Passed(m) => m < currentMessage'
        BY <2>2, PassedStep
      <4> QED BY <4>1
    <3>2. currentMessage' \notin atDevice /\ \A i \in WholeInbox : inbox[i].for # currentMessage'
      BY <3>1, LineTypes DEF FreshInv
    <3>3. \A a \in 1..Len(delivered) : delivered[a].for # currentMessage'
      <4>1. \A a \in 1..Len(delivered) : delivered[a] \in Answers
        BY OrderTypes, ElementOfSeq
      <4> QED BY <3>1, <4>1, RtuMasterAssumption DEF FreshInv, Answers
    <3>4. CASE delivered' = delivered
      BY <3>2, <3>3, <3>4 DEF Ungiven
    <3>5. CASE /\ WholeRead
               /\ delivered' = Append(delivered, [to |-> currentMessage, for |-> received.for])
      <4>1. /\ Len(delivered') = Len(delivered) + 1 /\ Len(delivered) \in Nat
            /\ delivered'[Len(delivered) + 1].for = received.for
            /\ \A a \in 1..Len(delivered) : delivered'[a] = delivered[a]
        BY <3>5, OrderTypes
      <4>2. received.for # currentMessage'
        BY <3>1, <3>5, LineTypes DEF FreshInv
      <4> QED BY <3>2, <3>3, <4>1, <4>2 DEF Ungiven
    <3> QED BY <3>4, <3>5, GivenStep
  <2> QED BY <2>1, <2>2
<1>7. UNCHANGED <<atDevice, inbox, received>>
  OBVIOUS
<1>8. (\A a \in 1..Len(delivered) : Passed(delivered[a].for))'
  BY GivenPassed
<1>9. /\ \A i \in WholeInbox : inbox[i].for \notin atDevice
      /\ \A i, j \in WholeInbox : inbox[i].for = inbox[j].for => i = j
  BY DEF FreshInv
<1> QED BY <1>2, <1>3, <1>4, <1>5, <1>6, <1>7, <1>8, <1>9 DEF FreshInv

(* The kernel and the devices neither answer a slave nor look at the       *)
(* queue.                                                                  *)
LEMMA FreshLineMoves ==
  ASSUME TypeInv, OrderInv, FreshInv, KernelWrites \/ KernelReads \/ DeviceAnswers \/ PortBreaks
  PROVE  FreshInv'
<1>0. UNCHANGED <<submitted, messageQueue, currentMessage, delivered>>
  BY DEF KernelWrites, KernelReads, DeviceAnswers, PortBreaks, clock
<1>1. (\A a \in 1..Len(delivered) : Passed(delivered[a].for))'
  BY <1>0 DEF FreshInv, Passed
<1>2. ASSUME NEW m PROVE (Passed(m)' <=> Passed(m)) /\ (Ungiven(m)' <=> Ungiven(m))
  BY <1>0 DEF Passed, Ungiven
<1>3. CASE KernelWrites
  <2>1. /\ writeOp = "pending" /\ writeOp' # "pending"
        /\ readOp = "none" /\ readOp' = "none"
        /\ atDevice' \subseteq atDevice \cup {currentMessage}
        /\ UNCHANGED <<inbox, received>>
    BY <1>3 DEF KernelWrites, TypeInv, ExchangeOwnsPort
  <2>2. Passed(currentMessage)
    BY OrderTypes DEF Passed, OrderInv
  <2>3. /\ Ungiven(currentMessage) /\ \A i \in WholeInbox : inbox[i].for # currentMessage
    BY <2>1 DEF FreshInv
  <2>4. WholeInbox' = WholeInbox
    BY <2>1 DEF WholeInbox
  <2>5. ~WholeRead'
    BY <2>1 DEF WholeRead
  <2>6. \A m \in atDevice' : Passed(m)' /\ Ungiven(m)'
    BY <1>2, <2>1, <2>2, <2>3 DEF FreshInv
  <2>7. \A i \in WholeInbox :
          /\ Passed(inbox[i].for)' /\ Ungiven(inbox[i].for)'
          /\ inbox[i].for \notin atDevice'
    BY <1>0, <2>1, <2>3 DEF FreshInv, Passed, Ungiven
  <2> QED BY <1>1, <2>1, <2>4, <2>5, <2>6, <2>7 DEF FreshInv
<1>4. CASE KernelReads
  <2>0. readOp = "pending" /\ writeOp' = "none" /\ atDevice' = atDevice
    BY <1>4 DEF KernelReads, TypeInv, ExchangeOwnsPort
  <2>1. CASE readOp' = "failed" /\ UNCHANGED <<received, inbox>>
    <3>1. WholeInbox' = WholeInbox /\ ~WholeRead'
      BY <2>1 DEF WholeInbox, WholeRead
    <3> QED BY <1>0, <1>1, <2>0, <2>1, <3>1 DEF FreshInv, Passed, Ungiven
  <2>2. ASSUME NEW n \in 1..Len(inbox),
               received' = IF n = 1 THEN inbox[1] ELSE [inbox[1] EXCEPT !.kind = "damaged"],
               inbox' = SubSeq(inbox, n + 1, Len(inbox)),
               readOp' = "done"
        PROVE  FreshInv'
    <3>0. Len(inbox) \in Nat /\ inbox \in Seq(Pieces) /\ n \in Nat /\ inbox[1] \in Pieces
      BY InboxType
    <3>1. /\ Len(inbox') = Len(inbox) - n
          /\ \A i \in 1..(Len(inbox) - n) : inbox'[i] = inbox[n + i]
      BY <2>2, <3>0
    <3>2. \A i \in WholeInbox' :
            /\ i \in Nat /\ n + i \in WholeInbox /\ n + i # 1 /\ inbox'[i].for = inbox[n + i].for
      BY <3>0, <3>1 DEF WholeInbox
    <3>3. WholeRead' => 1 \in WholeInbox /\ received' = inbox[1]
      <4>1. n # 1 => received'.kind = "damaged"
        BY <2>2, <3>0 DEF Pieces
      <4> QED BY <2>2, <3>0, <4>1 DEF WholeRead, WholeInbox
    <3>4. ASSUME NEW i \in WholeInbox'
          PROVE  /\ Passed(inbox'[i].for) /\ Ungiven(inbox'[i].for)
                 /\ inbox'[i].for \notin atDevice
      BY <3>2 DEF FreshInv
    <3>5. ASSUME NEW i \in WholeInbox', NEW j \in WholeInbox', inbox'[i].for = inbox'[j].for
          PROVE  i = j
      <4>1. n + i = n + j
        BY <3>2, <3>5 DEF FreshInv
      <4>2. i \in Nat /\ j \in Nat
        BY <3>2
      <4> QED BY <3>0, <4>1, <4>2
    <3>6. ASSUME WholeRead'
          PROVE  /\ Passed(received'.for) /\ Ungiven(received'.for)
                 /\ received'.for \notin atDevice
                 /\ \A i \in WholeInbox' : inbox'[i].for # received'.for
      BY <3>2, <3>3, <3>6 DEF FreshInv
    <3>7. \A m \in atDevice : Passed(m) /\ Ungiven(m)
      BY DEF FreshInv
    <3> QED BY <1>0, <1>1, <2>0, <3>4, <3>5, <3>6, <3>7 DEF FreshInv, Passed, Ungiven
  <2> QED BY <1>4, <2>1, <2>2 DEF KernelReads
<1>5. CASE DeviceAnswers
  <2>0. UNCHANGED <<writeOp, readOp, received>>
    BY <1>5 DEF DeviceAnswers
  <2>1. PICK m \in atDevice :
          /\ atDevice' = atDevice \ {m}
          /\ \/ inbox' = Append(inbox, [kind |-> "whole", for |-> m])
             \/ inbox' = Append(inbox, [kind |-> "damaged", for |-> m])
             \/ inbox' = inbox \o <<[kind |-> "damaged", for |-> m], [kind |-> "damaged", for |-> m]>>
             \/ inbox' = inbox \o <<[kind |-> "short", for |-> m], [kind |-> "damaged", for |-> m]>>
    BY <1>5 DEF DeviceAnswers
  <2>2. \A i \in WholeInbox' :
          \/ i \in WholeInbox /\ inbox'[i] = inbox[i]
          \/ i = Len(inbox) + 1 /\ inbox'[i].for = m
    <3>1. inbox \in Seq(Pieces) /\ Len(inbox) \in Nat
      BY InboxType
    <3>2. \A i \in 1..Len(inbox') :
            \/ i \in 1..Len(inbox) /\ inbox'[i] = inbox[i]
            \/ i = Len(inbox) + 1 /\ inbox'[i].for = m
            \/ inbox'[i].kind # "whole"
      BY <2>1, <3>1
    <3> QED BY <3>2 DEF WholeInbox
  <2>3. /\ Passed(m) /\ Ungiven(m) /\ \A i \in WholeInbox : inbox[i].for # m
        /\ WholeRead => received.for # m
        /\ writeOp = "pending" => currentMessage # m
    BY <2>1 DEF FreshInv
  <2>4. ASSUME NEW i \in WholeInbox'
        PROVE  /\ Passed(inbox'[i].for) /\ Ungiven(inbox'[i].for)
               /\ inbox'[i].for \notin atDevice'
               /\ WholeRead => received.for # inbox'[i].for
               /\ writeOp = "pending" => currentMessage # inbox'[i].for
    BY <2>1, <2>2, <2>3 DEF FreshInv
  <2>5. ASSUME NEW i \in WholeInbox', NEW j \in WholeInbox', inbox'[i].for = inbox'[j].for
        PROVE  i = j
    BY <2>2, <2>3, <2>5 DEF FreshInv
  <2>6. WholeRead' = WholeRead
    BY <2>0 DEF WholeRead
  <2>7. \A k \in atDevice' : Passed(k) /\ Ungiven(k)
    BY <2>1 DEF FreshInv
  <2>8. WholeRead => /\ Passed(received.for) /\ Ungiven(received.for)
                     /\ received.for \notin atDevice'
    BY <2>1 DEF FreshInv
  <2>9. writeOp = "pending" => Ungiven(currentMessage) /\ currentMessage \notin atDevice'
    BY <2>1 DEF FreshInv
  <2> QED BY <1>0, <1>1, <2>0, <2>4, <2>5, <2>6, <2>7, <2>8, <2>9 DEF FreshInv, Passed, Ungiven
<1>6. CASE PortBreaks
  <2>1. /\ inbox' = <<>> /\ atDevice' = {} /\ UNCHANGED <<readOp, received, writeOp>>
    BY <1>6 DEF PortBreaks
  <2>2. WholeInbox' = {}
    BY <2>1 DEF WholeInbox
  <2> QED BY <1>0, <1>1, <2>1, <2>2 DEF FreshInv, WholeRead, Passed, Ungiven
<1> QED BY <1>3, <1>4, <1>5, <1>6

LEMMA FreshStep ==
  ASSUME TypeInv, OrderInv, FreshInv, [Next]_vars
  PROVE  FreshInv'
<1> USE DEF clock, bus, timing
<1>0. currentMessage \in Nat /\ messageQueue \in Seq(Nat)
  BY OrderTypes
<1>1. CASE MessageProcess
  <2> DEFINE queue == Append(messageQueue, submitted + 1)
  <2>1. QueueProcessUnsafe(queue, currentMessage) /\ queue \in Seq(Nat)
    BY <1>1, Arrival
  <2>2. UNCHANGED <<atDevice, inbox, received, readOp>> /\ ~ReadSucceeded
    BY <1>1 DEF MessageProcess, ReadSucceeded
  <2>3. WholeRead' => WholeRead
    BY <2>2 DEF WholeRead
  <2>4. writeOp' = "pending" => currentMessage' # 0
    BY TypeStep DEF TypeInv, ExchangeOwnsPort
  <2> HIDE DEF queue
  <2>5. currentMessage' = currentMessage /\ currentMessage # 0 => writeOp' = writeOp
    BY <1>0, <2>1, QueueMembers
  <2> QED BY <2>2, <2>3, <2>4, <2>5, FreshLineSame
<1>2. CASE ReadSucceeded
  <2> DEFINE after == AfterMakeResponse(received)
  <2>1. /\ QueueProcessUnsafe(messageQueue, after) /\ writeOp = "none"
        /\ after \in {0, currentMessage}
    BY <1>2, Outcome
  <2>2. UNCHANGED <<atDevice, inbox, received>> /\ readOp' = "none"
    BY <1>2 DEF ReadSucceeded
  <2>3. ~WholeRead'
    BY <2>2 DEF WholeRead
  <2> HIDE DEF after
  <2>4. writeOp' = "pending" => In(currentMessage', messageQueue)
    BY <1>0, <2>1, QueueMembers
  <2>5. \A i \in 1..Len(messageQueue) : /\ messageQueue[i] \in Nat
                                        /\ currentMessage < messageQueue[i]
    BY OrderTypes DEF OrderInv
  <2>6. writeOp' = "pending" => currentMessage' \notin {0, currentMessage}
    BY <1>0, <2>4, <2>5 DEF In
  <2> QED BY <2>2, <2>3, <2>6, FreshLineSame
<1>3. CASE WriteFailed \/ WriteSucceeded \/ ReadFailed \/ WaitExpired
  <2>1. UNCHANGED <<atDevice, inbox, received>> /\ ~ReadSucceeded /\ writeOp' # "pending"
    BY <1>3 DEF WriteFailed, WriteSucceeded, ReadFailed, WaitExpired, Abandon, Aborted,
                StartReadTask, ReadSucceeded, TypeInv, ExchangeOwnsPort
  <2>2. WholeRead' => WholeRead
    BY <1>3 DEF WriteFailed, WriteSucceeded, ReadFailed, WaitExpired, Aborted, WholeRead,
                StartReadTask
  <2> QED BY <2>1, <2>2, FreshLineSame
<1>4. CASE TimerExpires \/ TimePasses \/ UNCHANGED vars
  <2>1. /\ UNCHANGED <<atDevice, inbox, received, readOp, writeOp, currentMessage>>
        /\ ~ReadSucceeded
    BY <1>4 DEF TimerExpires, TimePasses, vars, ReadSucceeded
  <2>2. WholeRead' => WholeRead
    BY <2>1 DEF WholeRead
  <2> QED BY <2>1, <2>2, FreshLineSame
<1>5. CASE KernelWrites \/ KernelReads \/ DeviceAnswers \/ PortBreaks
  BY <1>5, FreshLineMoves
<1> QED BY <1>1, <1>2, <1>3, <1>4, <1>5 DEF Next, Handlers, Kernel, Environment

(* The answer that is given is the request's own, or one to an earlier     *)
(* request that is over and that nobody was given.                         *)
LEMMA AnswerAllowed ==
  ASSUME TypeInv, OrderInv, FreshInv, WholeRead, currentMessage # 0
  PROVE  received.for \in Service!MayBeGiven(currentMessage)
<1> DEFINE f == received.for
<1>1. /\ f \in Messages /\ f \in Nat /\ f # 0
      /\ currentMessage \in Messages /\ currentMessage \in Nat
  BY RtuMasterAssumption DEF TypeInv, TypeOK, Pieces
<1>2. Passed(f) /\ Ungiven(f)
  BY DEF FreshInv
<1> HIDE DEF f
<1>3. CASE f # currentMessage
  <2>1. f \in 1..(currentMessage - 1)
    BY <1>1, <1>2, <1>3 DEF Passed
  <2>2. ~Queued(f) /\ f <= submitted
    BY <1>1, <1>2 DEF Passed, Queued, In
  <2>3. StatusOf(f) \in {"lost", "answered"}
    BY <1>1, <1>3, <2>2, Places DEF PlacesApart
  <2>4. ASSUME NEW k \in Messages PROVE AnswerOf(k) # f
    <3>1. CASE Answered(k)
      BY <1>2, <3>1, AnswerGiven DEF AnswersKnown, Answered, Ungiven
    <3>2. CASE ~Answered(k)
      BY <1>1, <3>2, AnswerGiven DEF AnswersKnown
    <3> QED BY <3>1, <3>2
  <2> QED BY <1>1, <2>1, <2>3, <2>4 DEF Service!MayBeGiven, Service!Messages, f
<1> QED BY <1>3 DEF Service!MayBeGiven, f

(* What a step does to the answers.                                        *)
LEMMA AnswersStep ==
  ASSUME TypeInv, OrderInv, FreshInv, [Next]_vars
  PROVE  \A m \in Messages :
           IF StatusOf(m)' = "answered" /\ StatusOf(m) # "answered"
           THEN AnswerOf(m)' \in Service!MayBeGiven(m)
           ELSE AnswerOf(m)' = AnswerOf(m)
<1>1. \A m \in Messages : (StatusOf(m) = "answered") <=> Answered(m)
  BY DEF StatusOf, Answered
<1>2. \A m \in Messages : (StatusOf(m)' = "answered") <=> Answered(m)'
  BY DEF StatusOf, Answered
<1>3. CASE delivered' = delivered
  <2>1. \A m \in Messages : (Answered(m)' <=> Answered(m)) /\ AnswerOf(m)' = AnswerOf(m)
    BY <1>3 DEF Answered, AnswerOf
  <2> QED BY <1>1, <1>2, <2>1
<1>4. CASE /\ WholeRead /\ currentMessage # 0
           /\ delivered' = Append(delivered, [to |-> currentMessage, for |-> received.for])
  <2> DEFINE n == Len(delivered) + 1
             f == received.for
  <2>1. /\ Len(delivered') = n /\ n - 1 \in Nat /\ n - 1 = Len(delivered)
        /\ delivered'[n].to = currentMessage /\ delivered'[n].for = f
        /\ \A i \in 1..Len(delivered) : delivered'[i] = delivered[i]
    BY <1>4, OrderTypes
  <2>2. AnswersKnown /\ AnswersKnown'
    <3>1. TypeInv' /\ OrderInv'
      BY TypeStep, OrderStep
    <3> QED BY <3>1, AnswerGiven, PTL
  <2>3. ASSUME NEW m \in Messages, NEW a \in 1..n, delivered'[a].to = m
        PROVE  AnswerOf(m)' = delivered'[a].for
    BY <2>1, <2>2, <2>3 DEF AnswersKnown
  <2>4. n \in 1..n /\ \A i \in 1..n : i \in 1..Len(delivered) \/ i = n
    BY <2>1
  <2>5. \A i \in 1..Len(delivered) : i \in 1..n
    BY <2>1
  <2>6. f \in Service!MayBeGiven(currentMessage)
    BY <1>4, AnswerAllowed
  <2> HIDE DEF n, f
  <2>7. ASSUME NEW m \in Messages
        PROVE  IF StatusOf(m)' = "answered" /\ StatusOf(m) # "answered"
               THEN AnswerOf(m)' \in Service!MayBeGiven(m)
               ELSE AnswerOf(m)' = AnswerOf(m)
    <3>1. CASE Answered(m)
      <4>1. PICK a \in 1..Len(delivered) : delivered[a].to = m
        BY <3>1 DEF Answered
      <4>2. AnswerOf(m) = delivered[a].for
        BY <2>2, <4>1 DEF AnswersKnown
      <4>3. AnswerOf(m)' = delivered[a].for
        BY <2>1, <2>3, <2>5, <4>1
      <4> QED BY <1>1, <3>1, <4>2, <4>3
    <3>2. CASE ~Answered(m) /\ m = currentMessage
      <4>1. Answered(m)'
        BY <2>1, <2>4, <3>2 DEF Answered
      <4>2. AnswerOf(m)' = f
        BY <2>1, <2>3, <2>4, <3>2
      <4> QED BY <1>1, <1>2, <2>6, <3>2, <4>1, <4>2
    <3>3. CASE ~Answered(m) /\ m # currentMessage
      <4>1. ~Answered(m)'
        BY <2>1, <2>4, <3>3 DEF Answered
      <4>2. AnswerOf(m) = 0 /\ AnswerOf(m)' = 0
        BY <2>2, <3>3, <4>1 DEF AnswersKnown
      <4> QED BY <1>2, <4>1, <4>2
    <3> QED BY <3>1, <3>2, <3>3
  <2> QED BY <2>7
<1> QED BY <1>3, <1>4, GivenStep

(* Every step of the master is a step of the service.                      *)
LEMMA ServiceStep ==
  TypeInv /\ OrderInv /\ FreshInv /\ [Next]_vars => Service!ServiceNext
<1> SUFFICES ASSUME TypeInv, OrderInv, FreshInv, [Next]_vars
             PROVE  Service!ServiceNext
  OBVIOUS
<1>0. TypeInv' /\ OrderInv' /\ StepMoves
  BY TypeStep, OrderStep, MovesStep
<1>1. PlacesApart' /\ AnswersKnown'
  BY <1>0, Places, AnswerGiven, PTL
<1>2. \A m \in Messages : StatusOf(m)' \in Service!Statuses
  BY <1>1 DEF PlacesApart, Service!Statuses
<1>3. \A m \in Messages : AnswerOf(m)' \in 0..MaxMessages
  <2>1. \A a \in 1..Len(delivered') : delivered'[a].for \in Messages
    <3>1. delivered' \in Seq(Answers)
      BY <1>0 DEF TypeInv, TypeOK, Answers
    <3>2. \A a \in 1..Len(delivered') : delivered'[a] \in Answers
      BY <3>1, ElementOfSeq
    <3> QED BY <3>2 DEF Answers
  <2>2. ASSUME NEW m \in Messages PROVE AnswerOf(m)' \in 0..MaxMessages
    <3>1. CASE Answered(m)'
      BY <1>1, <2>1, <3>1, RtuMasterAssumption DEF AnswersKnown, Answered
    <3>2. CASE ~Answered(m)'
      BY <1>1, <3>2, RtuMasterAssumption DEF AnswersKnown
    <3> QED BY <3>1, <3>2
  <2> QED BY <2>2
<1>4. /\ \A m \in Messages : StatusOf(m)' \in Service!Successors(StatusOf(m))
      /\ \A m \in Messages :
           (StatusOf(m) = "new" /\ StatusOf(m)' # "new") =>
             \A n \in Messages : IF n < m THEN StatusOf(n) # "new"
                                          ELSE StatusOf(n)' = "new" \/ n = m
      /\ \A m, n \in Messages :
           (n < m /\ StatusOf(m) # StatusOf(m)' /\ StatusOf(m)' \in {"serving", "lost"}
                  /\ StatusOf(m) # "serving")
             => StatusOf(n)' # "waiting"
      /\ \A m, n \in Messages : StatusOf(m)' = "serving" /\ StatusOf(n)' = "serving" => m = n
  BY <1>0, StatusStep
<1>5. \A m \in Messages :
        IF StatusOf(m)' = "answered" /\ StatusOf(m) # "answered"
        THEN AnswerOf(m)' \in Service!MayBeGiven(m)
        ELSE AnswerOf(m)' = AnswerOf(m)
  BY AnswersStep
<1>6. Service!ArrivalsInOrder /\ Service!DeparturesInOrder /\ Service!SingleServing
  BY <1>4 DEF Service!ArrivalsInOrder, Service!DeparturesInOrder, Service!SingleServing,
              Service!Messages
<1>7. Service!AnswersFitting
  BY <1>5 DEF Service!AnswersFitting, Service!Messages
<1> QED BY <1>2, <1>3, <1>4, <1>6, <1>7 DEF Service!ServiceNext, Service!Messages

(* Through write errors, aborted operations, damaged and late frames and   *)
(* lost ports, the master keeps the promise the slaves rely on: one        *)
(* request on the line, first come first served, no second answer, no      *)
(* answer to a request that was given up, and none given to two requests.  *)
THEOREM MasterImplementsService == Spec => ImplementsService
<1>1. Init => Service!ServiceInit
  <2> SUFFICES ASSUME Init PROVE Service!ServiceInit
    OBVIOUS
  <2>1. \A m \in Messages : StatusOf(m) = "new" /\ AnswerOf(m) = 0
    BY RtuMasterAssumption DEF Init, StatusOf, AnswerOf
  <2> QED BY <2>1 DEF Service!ServiceInit, Service!Messages
<1>2. Init => TypeInv /\ OrderInv /\ FreshInv
  <2>1. Init => OrderInv
    BY DEF Init, OrderInv, AnswersInOrder
  <2>2. Init => FreshInv
    BY DEF Init, FreshInv, WholeInbox, WholeRead
  <2> QED BY <2>1, <2>2, TypeStart
<1>3. TypeInv /\ OrderInv /\ FreshInv /\ [Next]_vars => (TypeInv /\ OrderInv /\ FreshInv)'
  BY TypeStep, OrderStep, FreshStep
<1> QED BY <1>1, <1>2, <1>3, ServiceStep, PTL
        DEF Spec, ImplementsService, Service!ServiceSpec
=============================================================================
