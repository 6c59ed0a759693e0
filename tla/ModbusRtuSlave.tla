--------------------------- MODULE ModbusRtuSlave --------------------------
(***************************************************************************)
(* The RTU/ASCII slave: transport/modbus_rtu_slave.cpp.                    *)
(*                                                                         *)
(* A Modbus master on the serial line sends requests to the gateway.  The  *)
(* actor reads them, gives each a transaction id of its own, because the   *)
(* line carries none, remembers the id of the last one in syncRequestInfo_ *)
(* and forwards the request to a master of the gateway.  The answer comes  *)
(* back much later or never, and is written only if it carries the id      *)
(* remembered.                                                             *)
(*                                                                         *)
(* The line's master is free to give a request up and send the next at any *)
(* time.  Requests are numbered as it sends them.  The masters of the      *)
(* gateway appear as the set of requests they hold: a request may time out *)
(* at one while another answers.  The actor id is given at the start and   *)
(* never again, so that the comparison of source ids always succeeds and   *)
(* is left out, as is the null buffer no master of src/ ever sends.        *)
(***************************************************************************)
EXTENDS Naturals, Sequences

CONSTANTS
  MaxRequests,   \* requests the line's master ever sends
  TidMod         \* size of modbus::TransactionId; 2^16 in the code

ASSUME RtuSlaveAssumption ==
  /\ MaxRequests \in Nat \ {0}
  /\ TidMod \in Nat \ {0}

VARIABLES
  sent,             \* requests the line's master has sent
  line,             \* the input buffer: requests, 0 for bytes that make none
  port,             \* whether the serial device still works
  readOp,           \* the outstanding async_read_some
  received,         \* the request read, 0 for bytes that make none
  idGenerator,      \* idGenerator_
  syncRequestInfo,  \* syncRequestInfo_: <<>>, or <<id>>
  stamp,            \* request -> transaction id of its ModbusMessageInfo
  latest,           \* history: the last request stamped
  atMasters,        \* requests the masters of the gateway hold
  writes,           \* the async_write_some outstanding, as requests answered
  answered          \* history: the requests whose answers were written

vars == <<sent, line, port, readOp, received, idGenerator, syncRequestInfo, stamp,
          latest, atMasters, writes, answered>>

Requests == 1..MaxRequests
Tids     == 0..(TidMod - 1)

TypeOK ==
  /\ sent \in 0..MaxRequests
  /\ line \in Seq(0..sent)
  /\ port \in {"open", "gone"}
  /\ readOp \in {"none", "pending", "done", "eof", "failed"}
  /\ received \in 0..sent
  /\ idGenerator \in Tids
  /\ syncRequestInfo \in Seq(Tids)
  /\ stamp \in [Requests -> Tids]
  /\ latest \in 0..sent
  /\ atMasters \subseteq 1..latest
  /\ writes \in Seq(1..latest)
  /\ answered \in Seq(1..latest)

(* The constructor and Start, which starts the first read. *)
Init ==
  /\ sent = 0
  /\ line = <<>>
  /\ port = "open"
  /\ readOp = "pending"
  /\ received = 0
  /\ idGenerator = 0
  /\ syncRequestInfo = <<>>
  /\ stamp = [r \in Requests |-> 0]
  /\ latest = 0
  /\ atMasters = {}
  /\ writes = <<>>
  /\ answered = <<>>
-----------------------------------------------------------------------------
StartReadTask == readOp' = "pending"

(* Variant: the id does not wrap. *)
GetNextIdNoWrap == idGenerator + 1

GetNextId == (idGenerator + 1) % TidMod

(* The handler of async_read_some, with a request in the buffer: it is     *)
(* stamped, replaces whatever was waited for, and goes to the master the   *)
(* router names, if it names one.                                          *)
RequestRead ==
  /\ readOp = "done"
  /\ received # 0
  /\ idGenerator' = GetNextId
  /\ stamp' = [stamp EXCEPT ![received] = GetNextId]
  /\ syncRequestInfo' = <<GetNextId>>
  /\ latest' = received
  /\ atMasters' \in {atMasters, atMasters \cup {received}}
  /\ StartReadTask
  /\ UNCHANGED <<sent, line, port, received, writes, answered>>

(* Variant: only a request restarts the read. *)
ReadAgainNever ==
  /\ (readOp = "done" /\ received = 0) \/ readOp = "failed"
  /\ readOp' = "none"
  /\ UNCHANGED <<sent, line, port, received, idGenerator, syncRequestInfo, stamp, latest,
                 atMasters, writes, answered>>

(* Bytes that MakeRequest refuses, or an error that does not end reading. *)
ReadAgain ==
  /\ (readOp = "done" /\ received = 0) \/ readOp = "failed"
  /\ StartReadTask
  /\ UNCHANGED <<sent, line, port, received, idGenerator, syncRequestInfo, stamp, latest,
                 atMasters, writes, answered>>

(* End of file: the handler returns, and the slave never reads again. *)
ReadEnded ==
  /\ readOp = "eof"
  /\ readOp' = "none"
  /\ UNCHANGED <<sent, line, port, received, idGenerator, syncRequestInfo, stamp, latest,
                 atMasters, writes, answered>>

(* Variant: an answer is taken while any request is waited for. *)
StartWriteTaskAnyId(r) ==
  IF syncRequestInfo # <<>>
  THEN /\ syncRequestInfo' = <<>>
       /\ writes' = Append(writes, r)
       /\ answered' = Append(answered, r)
  ELSE UNCHANGED <<syncRequestInfo, writes, answered>>

(* MakeResponse and StartWriteTask on the answer to r.  A write may start  *)
(* while earlier ones are outstanding.                                     *)
StartWriteTask(r) ==
  IF syncRequestInfo = <<stamp[r]>>
  THEN /\ syncRequestInfo' = <<>>
       /\ writes' = Append(writes, r)
       /\ answered' = Append(answered, r)
  ELSE UNCHANGED <<syncRequestInfo, writes, answered>>

(* Receive: a master answers r. *)
MasterAnswers(r) ==
  /\ r \in atMasters
  /\ atMasters' = atMasters \ {r}
  /\ StartWriteTask(r)
  /\ UNCHANGED <<sent, line, port, readOp, received, idGenerator, stamp, latest>>

(* A master gives r up: it says nothing to the slave. *)
MasterGivesUp(r) ==
  /\ r \in atMasters
  /\ atMasters' = atMasters \ {r}
  /\ UNCHANGED <<sent, line, port, readOp, received, idGenerator, syncRequestInfo, stamp,
                 latest, writes, answered>>
-----------------------------------------------------------------------------
(***************************************************************************)
(* The line, its master and the kernel.                                    *)
(***************************************************************************)

(* A request arrives whole, spoilt or in two pieces. *)
LineRequest ==
  /\ port = "open"
  /\ sent < MaxRequests
  /\ sent' = sent + 1
  /\ line' \in {Append(line, sent + 1), Append(line, 0), line \o <<0, 0>>}
  /\ UNCHANGED <<port, readOp, received, idGenerator, syncRequestInfo, stamp, latest,
                 atMasters, writes, answered>>

(* One read returns what is in the buffer: one request, or several pieces, *)
(* which no check takes for one.  A device that is gone reads as an end of *)
(* file or an error.                                                       *)
KernelReads ==
  /\ readOp = "pending"
  /\ \/ \E n \in 1..Len(line) :
          /\ received' = IF n = 1 THEN Head(line) ELSE 0
          /\ line' = SubSeq(line, n + 1, Len(line))
          /\ readOp' = "done"
     \/ /\ port = "gone"
        /\ readOp' \in {"eof", "failed"}
        /\ UNCHANGED <<received, line>>
  /\ UNCHANGED <<sent, port, idGenerator, syncRequestInfo, stamp, latest, atMasters,
                 writes, answered>>

(* The oldest write ends, in full, in part or with an error: its handler   *)
(* only logs, and is part of the action.                                   *)
KernelWrites ==
  /\ writes # <<>>
  /\ writes' = Tail(writes)
  /\ UNCHANGED <<sent, line, port, readOp, received, idGenerator, syncRequestInfo, stamp,
                 latest, atMasters, answered>>

PortBreaks ==
  /\ port = "open"
  /\ port' = "gone"
  /\ line' = <<>>
  /\ UNCHANGED <<sent, readOp, received, idGenerator, syncRequestInfo, stamp, latest,
                 atMasters, writes, answered>>
-----------------------------------------------------------------------------
ReadHandler == RequestRead \/ ReadAgain \/ ReadEnded

Next ==
  \/ ReadHandler
  \/ \E r \in Requests : MasterAnswers(r) \/ MasterGivesUp(r)
  \/ LineRequest \/ KernelReads \/ KernelWrites \/ PortBreaks

Spec == Init /\ [][Next]_vars

(***************************************************************************)
(* The io_context runs a handler that is ready and the kernel reports what *)
(* there is to read.  The masters and the line promise nothing.            *)
(***************************************************************************)
FairSpec == Spec /\ WF_vars(ReadHandler) /\ WF_vars(KernelReads)
-----------------------------------------------------------------------------
(***************************************************************************)
(* Properties.                                                             *)
(***************************************************************************)

(* What is on the line is read sooner or later, as long as the device      *)
(* works: no early return of the read handler leaves the slave deaf.       *)
LineDrained == (line # <<>>) ~> (line = <<>> \/ port = "gone")

(* Late answers of a master are never written as answers to a newer        *)
(* request, whatever the order in which they come back: each step is one   *)
(* of SlaveSession, or a stutter.  It rests on the ids of GetNextId and on *)
(* the reset of syncRequestInfo_ in MakeResponse.                          *)
Session == INSTANCE SlaveSession WITH open <- syncRequestInfo # <<>>

ImplementsSession == Session!SessionSpec
=============================================================================
