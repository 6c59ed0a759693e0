------------------------ MODULE ModbusRtuSlaveProofs -----------------------
(***************************************************************************)
(* Theorems about the RTU/ASCII slave, for any number of requests and any  *)
(* size of the transaction id.                                             *)
(***************************************************************************)
EXTENDS ModbusRtuSlave, TLAPS, SequenceTheorems

USE DEF Requests, Tids

(* Requests are read in the order in which the line's master sent them,    *)
(* however many are lost on the way.                                       *)
LineInOrder ==
  /\ \A i \in 1..Len(line) :
       line[i] # 0 => /\ latest < line[i]
                      /\ readOp = "done" => received < line[i]
  /\ \A i, j \in 1..Len(line) : i < j /\ line[i] # 0 /\ line[j] # 0 => line[i] < line[j]
  /\ readOp = "done" /\ received # 0 => latest < received

TypeInv == TypeOK /\ LineInOrder

(* No id is given out twice: it may wrap only at the last request. *)
FewRequests == MaxRequests <= TidMod

(* The id waited for is the last one given, and no request that a master   *)
(* still holds shares it with a newer one.                                 *)
OnlyLatestMatches ==
  /\ syncRequestInfo \in {<<>>, <<idGenerator>>}
  /\ \A r \in atMasters : stamp[r] = idGenerator => r = latest

(* Until the last request the ids given are 1, 2, ... idGenerator.         *)
IdsGiven ==
  latest < MaxRequests => /\ idGenerator <= latest
                          /\ \A r \in atMasters : stamp[r] \in 1..idGenerator

StampInv == OnlyLatestMatches /\ IdsGiven
-----------------------------------------------------------------------------
(***************************************************************************)
(* Types and the order of the line.                                        *)
(***************************************************************************)

(* A sequence over a set is a sequence over any larger set. *)
LEMMA SeqMonotone ==
  ASSUME NEW S, NEW T, S \subseteq T, NEW s \in Seq(S)
  PROVE  s \in Seq(T)
<1>1. Len(s) \in Nat /\ s \in [1..Len(s) -> S]
  BY LenProperties
<1> QED BY <1>1

(* A request in two pieces lengthens the line by two unreadable pieces. *)
LEMMA TwoPieces ==
  ASSUME NEW S, 0 \in S, NEW s \in Seq(S)
  PROVE  /\ s \o <<0, 0>> \in Seq(S)
         /\ Len(s \o <<0, 0>>) = Len(s) + 2
         /\ \A i \in 1..Len(s) : (s \o <<0, 0>>)[i] = s[i]
         /\ \A i \in {Len(s) + 1, Len(s) + 2} : (s \o <<0, 0>>)[i] = 0
<1>1. <<0, 0>> \in Seq(S) /\ Len(<<0, 0>>) = 2
  OBVIOUS
<1>2. Len(s) \in Nat
  BY LenProperties
<1>3. s \o <<0, 0>> \in Seq(S) /\ Len(s \o <<0, 0>>) = Len(s) + 2
  BY <1>1, ConcatProperties
<1> QED BY <1>1, <1>2, <1>3, ConcatProperties

(* The slave starts with nothing read and nothing on the line. *)
LEMMA TypeInit == RtuSlaveAssumption => (Init => TypeInv)
BY DEF Init, TypeInv, TypeOK, LineInOrder, RtuSlaveAssumption

(* A request that is read is newer than the latest, and older than what is *)
(* still on the line.                                                      *)
LEMMA TypeRequestRead ==
  ASSUME RtuSlaveAssumption, TypeInv, RequestRead
  PROVE  TypeInv'
<1> USE DEF TypeInv, RequestRead, StartReadTask
<1>1. GetNextId \in Tids
  BY DEF GetNextId, TypeOK, RtuSlaveAssumption
<1>2. latest < received /\ latest \in Nat /\ received \in 1..sent /\ sent \in 0..MaxRequests
  BY DEF LineInOrder, TypeOK, RtuSlaveAssumption
<1>3. TypeOK'
  <2>1. 1..latest \subseteq 1..latest' /\ latest' = received
    BY <1>2
  <2>2. writes \in Seq(1..latest') /\ answered \in Seq(1..latest')
    BY <2>1, SeqMonotone DEF TypeOK
  <2>3. atMasters' \subseteq 1..latest'
    <3>1. atMasters \subseteq 1..latest'
      BY <2>1 DEF TypeOK
    <3>2. received \in 1..latest'
      BY <1>2, <2>1
    <3> QED BY <3>1, <3>2
  <2>4. syncRequestInfo' \in Seq(Tids) /\ stamp' \in [Requests -> Tids]
    BY <1>1 DEF TypeOK
  <2> QED BY <1>1, <1>2, <2>1, <2>2, <2>3, <2>4 DEF TypeOK
<1>4. LineInOrder'
  BY <1>2 DEF LineInOrder, TypeOK
<1> QED BY <1>3, <1>4

(* A new request is newer than everything on the line. *)
LEMMA TypeLineRequest ==
  ASSUME RtuSlaveAssumption, TypeInv, LineRequest
  PROVE  TypeInv'
<1> USE DEF TypeInv, LineRequest
<1>1. sent' = sent + 1 /\ sent \in Nat /\ sent' \in 0..MaxRequests
  BY DEF TypeOK, RtuSlaveAssumption
<1>2. line \in Seq(0..sent') /\ line \in Seq(0..sent)
  BY <1>1, SeqMonotone DEF TypeOK
<1>3. line' \in Seq(0..sent')
  <2>1. CASE line' = Append(line, sent + 1) \/ line' = Append(line, 0)
    <3>1. 0 \in 0..sent' /\ sent + 1 \in 0..sent'
      BY <1>1
    <3>2. \A S : \A x \in S : line \in Seq(S) => Append(line, x) \in Seq(S)
      BY AppendProperties
    <3> QED BY <1>2, <2>1, <3>1, <3>2
  <2>2. CASE line' = line \o <<0, 0>>
    <3>1. 0 \in 0..sent'
      BY <1>1
    <3>2. \A S : 0 \in S /\ line \in Seq(S) => line \o <<0, 0>> \in Seq(S)
      BY TwoPieces
    <3> QED BY <1>2, <2>2, <3>1, <3>2
  <2> QED BY <2>1, <2>2
<1>4. TypeOK'
  <2>1. 0..sent \subseteq 0..sent' /\ received' \in 0..sent' /\ latest' \in 0..sent'
    BY <1>1 DEF TypeOK
  <2> QED BY <1>1, <1>3, <2>1 DEF TypeOK
<1>5. LineInOrder'
  <2>1. \A i \in 1..Len(line') :
          \/ i \in 1..Len(line) /\ line'[i] = line[i]
          \/ line'[i] = 0
          \/ i = Len(line) + 1 /\ i = Len(line') /\ line'[i] = sent + 1
    <3>1. CASE line' = Append(line, sent + 1) \/ line' = Append(line, 0)
      <4>1. PICK x \in {0, sent + 1} : line' = Append(line, x)
        BY <3>1
      <4>2. Len(line) \in Nat /\ line \in Seq(0..sent')
        BY <1>1, <1>2, LenProperties
      <4>3. x \in 0..sent'
        BY <1>1
      <4>4. /\ Len(line') = Len(line) + 1
            /\ \A i \in 1..Len(line) : line'[i] = line[i]
            /\ line'[Len(line) + 1] = x
        BY <4>1, <4>2, <4>3, AppendProperties
      <4> QED BY <4>2, <4>4
    <3>2. CASE line' = line \o <<0, 0>>
      <4>1. 0 \in 0..sent /\ Len(line) \in Nat
        BY <1>1, <1>2, LenProperties
      <4>2. /\ Len(line') = Len(line) + 2
            /\ \A i \in 1..Len(line) : line'[i] = line[i]
            /\ \A i \in {Len(line) + 1, Len(line) + 2} : line'[i] = 0
        BY <1>2, <3>2, <4>1, TwoPieces
      <4> QED BY <4>1, <4>2
    <3> QED BY <3>1, <3>2
  <2>2. \A i \in 1..Len(line) : line[i] \in 0..sent
    BY <1>2, ElementOfSeq
  <2>3. received <= sent /\ latest <= sent /\ received \in Nat /\ latest \in Nat
    BY <1>1 DEF TypeOK
  <2>4. Len(line) \in Nat /\ Len(line') \in Nat
    BY <1>2, <1>3, LenProperties
  <2>5. \A i \in 1..Len(line') : line'[i] # 0 => latest < line'[i]
    BY <1>1, <2>1, <2>3, SMTT(40) DEF LineInOrder
  <2>6. \A i \in 1..Len(line') : line'[i] # 0 /\ readOp = "done" => received < line'[i]
    BY <1>1, <2>1, <2>3, SMTT(40) DEF LineInOrder
  <2>7. ASSUME NEW i \in 1..Len(line'), NEW j \in 1..Len(line'),
               i < j, line'[i] # 0, line'[j] # 0
        PROVE  line'[i] < line'[j]
    <3>1. i \in 1..Len(line) /\ line'[i] = line[i]
      BY <2>1, <2>4, <2>7
    <3>2. CASE j \in 1..Len(line) /\ line'[j] = line[j]
      BY <2>7, <3>1, <3>2 DEF LineInOrder
    <3>3. CASE line'[j] = sent + 1
      BY <1>1, <2>2, <3>1, <3>3
    <3> QED BY <2>1, <2>7, <3>2, <3>3
  <2> QED BY <2>5, <2>6, <2>7 DEF LineInOrder
<1> QED BY <1>4, <1>5

(* A read takes the oldest of the line, or an unreadable heap of it. *)
LEMMA TypeKernelReads ==
  ASSUME RtuSlaveAssumption, TypeInv, KernelReads
  PROVE  TypeInv'
<1> USE DEF TypeInv
<1>1. CASE UNCHANGED <<received, line>> /\ readOp' \in {"eof", "failed"}
  BY <1>1 DEF TypeOK, LineInOrder, KernelReads
<1>2. ASSUME NEW n \in 1..Len(line),
             received' = IF n = 1 THEN Head(line) ELSE 0,
             line' = SubSeq(line, n + 1, Len(line)),
             readOp' = "done"
      PROVE  TypeInv'
  <2>1. line \in Seq(0..sent) /\ Len(line) \in Nat /\ n \in Nat /\ sent \in Nat
    BY LenProperties DEF TypeOK
  <2>2. /\ line' \in Seq(0..sent)
        /\ Len(line') = Len(line) - n
        /\ \A i \in 1..Len(line') : i + n \in 1..Len(line) /\ line'[i] = line[i + n]
    BY <1>2, <2>1
  <2>3. /\ received' = 0 \/ (n = 1 /\ received' = line[1])
        /\ received' \in 0..sent
    BY <1>2, <2>1, ElementOfSeq
  <2>4. \A i \in 1..Len(line) : line[i] \in 0..sent
    BY <2>1, ElementOfSeq
  <2>5. TypeOK'
    BY <1>2, <2>2, <2>3 DEF TypeOK, KernelReads
  <2>6. latest' = latest /\ latest \in Nat
    BY DEF TypeOK, KernelReads
  <2>7. \A i \in 1..Len(line') : line'[i] # 0 => latest' < line'[i] /\ received' < line'[i]
    <3> TAKE i \in 1..Len(line')
    <3> HAVE line'[i] # 0
    <3>1. i + n \in 1..Len(line) /\ line'[i] = line[i + n] /\ line[i + n] # 0
      BY <2>2
    <3>2. latest < line'[i]
      BY <3>1 DEF LineInOrder
    <3>3. received' < line'[i]
      <4>1. CASE received' = 0
        BY <2>4, <3>1, <4>1
      <4>2. CASE received' # 0
        <5>1. n = 1 /\ line[1] # 0 /\ 1 \in 1..Len(line) /\ 1 < i + n
          BY <2>1, <2>2, <2>3, <4>2
        <5> QED BY <2>3, <3>1, <4>2, <5>1 DEF LineInOrder
      <4> QED BY <4>1, <4>2
    <3> QED BY <2>6, <3>2, <3>3
  <2>8. \A i, j \in 1..Len(line') :
          i < j /\ line'[i] # 0 /\ line'[j] # 0 => line'[i] < line'[j]
    <3> TAKE i, j \in 1..Len(line')
    <3> HAVE i < j /\ line'[i] # 0 /\ line'[j] # 0
    <3>1. i + n < j + n
      BY <2>1, <2>2
    <3> QED BY <2>2, <3>1 DEF LineInOrder
  <2>9. received' # 0 => latest' < received'
    BY <2>1, <2>3, <2>6 DEF LineInOrder
  <2> QED BY <2>5, <2>7, <2>8, <2>9 DEF LineInOrder
<1> QED BY <1>1, <1>2 DEF KernelReads

(* Every step of the slave, its masters and its line keeps the members     *)
(* well typed and the line in order.                                       *)
LEMMA TypeStep == RtuSlaveAssumption => (TypeInv /\ [Next]_vars => TypeInv')
<1> SUFFICES ASSUME RtuSlaveAssumption, TypeInv, [Next]_vars
             PROVE  TypeInv'
  OBVIOUS
<1> USE DEF TypeInv
<1>1. CASE RequestRead
  BY <1>1, TypeRequestRead
<1>2. CASE ReadAgain \/ ReadEnded
  BY <1>2 DEF ReadAgain, ReadEnded, StartReadTask, TypeOK, LineInOrder
<1>3. ASSUME NEW r \in Requests, MasterAnswers(r)
      PROVE  TypeInv'
  <2>1. r \in 1..latest
    BY <1>3 DEF MasterAnswers, TypeOK
  <2>2. /\ syncRequestInfo' \in Seq(Tids)
        /\ writes' \in Seq(1..latest)
        /\ answered' \in Seq(1..latest)
    <3>1. CASE syncRequestInfo = <<stamp[r]>>
      <4>1. Append(writes, r) \in Seq(1..latest) /\ Append(answered, r) \in Seq(1..latest)
        BY <2>1, AppendProperties DEF TypeOK
      <4>2. /\ syncRequestInfo' = <<>>
            /\ writes' = Append(writes, r)
            /\ answered' = Append(answered, r)
        BY <1>3, <3>1 DEF MasterAnswers, StartWriteTask
      <4> QED BY <4>1, <4>2
    <3>2. CASE syncRequestInfo # <<stamp[r]>>
      BY <1>3, <3>2 DEF MasterAnswers, StartWriteTask, TypeOK
    <3> QED BY <3>1, <3>2
  <2> QED BY <1>3, <2>2 DEF MasterAnswers, TypeOK, LineInOrder
<1>4. ASSUME NEW r \in Requests, MasterGivesUp(r)
      PROVE  TypeInv'
  BY <1>4 DEF MasterGivesUp, TypeOK, LineInOrder
<1>5. CASE LineRequest
  BY <1>5, TypeLineRequest
<1>6. CASE KernelReads
  BY <1>6, TypeKernelReads
<1>7. CASE KernelWrites
  BY <1>7 DEF KernelWrites, TypeOK, LineInOrder
<1>8. CASE PortBreaks
  BY <1>8 DEF PortBreaks, TypeOK, LineInOrder
<1>9. CASE UNCHANGED vars
  BY <1>9 DEF vars, TypeOK, LineInOrder
<1> QED BY <1>1, <1>2, <1>3, <1>4, <1>5, <1>6, <1>7, <1>8, <1>9 DEF Next, ReadHandler

(* In every reachable state the members have the values the model gives    *)
(* them a meaning for.  It needs the order of the line: a request that is  *)
(* read is newer than the ones the masters hold.                           *)
THEOREM SlaveTypeCorrect == RtuSlaveAssumption => (Spec => []TypeOK)
<1> SUFFICES ASSUME RtuSlaveAssumption
             PROVE  Spec => []TypeOK
  OBVIOUS
<1>1. TypeInv => TypeOK
  BY DEF TypeInv
<1> QED BY <1>1, TypeInit, TypeStep, PTL DEF Spec
-----------------------------------------------------------------------------
(***************************************************************************)
(* Ids.                                                                    *)
(***************************************************************************)

(* No id has been given and no request is held. *)
LEMMA StampInit == RtuSlaveAssumption => (Init => StampInv)
BY DEF Init, StampInv, OnlyLatestMatches, IdsGiven, RtuSlaveAssumption

(* The id of a request that is read is one no request held by a master has. *)
LEMMA StampRequestRead ==
  ASSUME RtuSlaveAssumption, FewRequests, TypeInv, StampInv, RequestRead
  PROVE  StampInv'
<1> USE DEF StampInv, RequestRead
<1>1. /\ latest < received /\ latest \in Nat
      /\ received \in 1..MaxRequests
      /\ latest' = received
      /\ atMasters \subseteq 1..latest
  BY DEF TypeInv, LineInOrder, TypeOK, RtuSlaveAssumption
<1>2. /\ idGenerator \in Nat /\ idGenerator <= latest
      /\ \A r \in atMasters : stamp[r] \in 1..idGenerator
  BY <1>1 DEF IdsGiven, TypeInv, TypeOK, RtuSlaveAssumption
<1>3. \/ idGenerator' = idGenerator + 1
      \/ idGenerator' = 0 /\ received = MaxRequests
  <2>1. idGenerator + 1 <= TidMod /\ TidMod \in Nat \ {0} /\ MaxRequests \in Nat
    BY <1>1, <1>2 DEF FewRequests, RtuSlaveAssumption
  <2>2. CASE idGenerator + 1 < TidMod
    BY <1>2, <2>1, <2>2 DEF GetNextId
  <2>3. CASE idGenerator + 1 = TidMod
    <3>1. idGenerator' = 0
      BY <1>2, <2>1, <2>3 DEF GetNextId
    <3>2. received = MaxRequests
      BY <1>1, <1>2, <2>1, <2>3 DEF FewRequests
    <3> QED BY <3>1, <3>2
  <2> QED BY <1>2, <2>1, <2>2, <2>3
<1>4. stamp'[received] = idGenerator'
  BY <1>1 DEF TypeInv, TypeOK
<1>5. \A r \in atMasters : r # received /\ stamp'[r] = stamp[r]
  BY <1>1 DEF TypeInv, TypeOK
<1>6. OnlyLatestMatches'
  <2>1. syncRequestInfo' = <<idGenerator'>>
    OBVIOUS
  <2>2. \A r \in atMasters : stamp'[r] # idGenerator'
    BY <1>2, <1>3, <1>5
  <2> QED BY <1>1, <2>1, <2>2 DEF OnlyLatestMatches
<1>7. IdsGiven'
  BY <1>1, <1>2, <1>3, <1>4, <1>5 DEF IdsGiven
<1> QED BY <1>6, <1>7

(* Every other step gives out no id; it can only end a request.            *)
LEMMA StampStep ==
  RtuSlaveAssumption /\ FewRequests =>
    (TypeInv /\ StampInv /\ [Next]_vars => StampInv')
<1> SUFFICES ASSUME RtuSlaveAssumption, FewRequests, TypeInv, StampInv, [Next]_vars
             PROVE  StampInv'
  OBVIOUS
<1> USE DEF StampInv, OnlyLatestMatches, IdsGiven
<1>1. CASE RequestRead
  BY <1>1, StampRequestRead
<1>2. CASE ReadAgain \/ ReadEnded
  BY <1>2 DEF ReadAgain, ReadEnded
<1>3. ASSUME NEW r \in Requests, MasterAnswers(r) \/ MasterGivesUp(r)
      PROVE  StampInv'
  BY <1>3 DEF MasterAnswers, MasterGivesUp, StartWriteTask
<1>4. CASE LineRequest \/ KernelReads \/ KernelWrites \/ PortBreaks
  BY <1>4 DEF LineRequest, KernelReads, KernelWrites, PortBreaks
<1>5. CASE UNCHANGED vars
  BY <1>5 DEF vars
<1> QED BY <1>1, <1>2, <1>3, <1>4, <1>5 DEF Next, ReadHandler
-----------------------------------------------------------------------------
(***************************************************************************)
(* The slave implements SlaveSession.                                      *)
(***************************************************************************)

(* A request that is read is a request taken. *)
LEMMA ReadTakes ==
  ASSUME RtuSlaveAssumption, TypeInv, RequestRead
  PROVE  Session!Take
<1>1. latest' \in (latest + 1)..MaxRequests
  BY DEF TypeInv, LineInOrder, TypeOK, RtuSlaveAssumption, RequestRead
<1>2. syncRequestInfo' # <<>> /\ UNCHANGED answered
  BY DEF RequestRead
<1> QED BY <1>1, <1>2 DEF Session!Take

(* The answer of a master is an answer to the latest request, or ignored. *)
LEMMA AnswerAnswers ==
  ASSUME TypeInv, StampInv, NEW r \in Requests, MasterAnswers(r)
  PROVE  Session!Answer \/ UNCHANGED Session!session
<1>1. CASE syncRequestInfo = <<stamp[r]>>
  <2>1. stamp[r] = idGenerator
    BY <1>1 DEF StampInv, OnlyLatestMatches
  <2>2. r = latest
    BY <2>1 DEF StampInv, OnlyLatestMatches, MasterAnswers
  <2>3. /\ syncRequestInfo # <<>> /\ syncRequestInfo' = <<>>
        /\ answered' = Append(answered, latest)
        /\ latest' = latest
    BY <1>1, <2>2 DEF MasterAnswers, StartWriteTask
  <2> QED BY <2>3 DEF Session!Answer
<1>2. CASE syncRequestInfo # <<stamp[r]>>
  BY <1>2 DEF MasterAnswers, StartWriteTask, Session!session
<1> QED BY <1>1, <1>2

(* Every step of the slave is a step of SlaveSession, or one it does not   *)
(* see.                                                                    *)
LEMMA SessionStep ==
  RtuSlaveAssumption =>
    (TypeInv /\ StampInv /\ [Next]_vars => [Session!SessionNext]_(Session!session))
<1> SUFFICES ASSUME RtuSlaveAssumption, TypeInv, StampInv, [Next]_vars
             PROVE  Session!SessionNext \/ UNCHANGED Session!session
  OBVIOUS
<1>1. CASE RequestRead
  BY <1>1, ReadTakes DEF Session!SessionNext
<1>2. ASSUME NEW r \in Requests, MasterAnswers(r)
      PROVE  Session!SessionNext \/ UNCHANGED Session!session
  BY <1>2, AnswerAnswers DEF Session!SessionNext
<1>3. ASSUME NEW r \in Requests, MasterGivesUp(r)
      PROVE  UNCHANGED Session!session
  BY <1>3 DEF MasterGivesUp, Session!session
<1>4. CASE ReadAgain \/ ReadEnded
  BY <1>4 DEF ReadAgain, ReadEnded, Session!session
<1>5. CASE LineRequest \/ KernelReads \/ KernelWrites \/ PortBreaks
  BY <1>5 DEF LineRequest, KernelReads, KernelWrites, PortBreaks, Session!session
<1>6. CASE UNCHANGED vars
  BY <1>6 DEF vars, Session!session
<1> QED BY <1>1, <1>2, <1>3, <1>4, <1>5, <1>6 DEF Next, ReadHandler

(* Late answers are never written as answers to a newer request: whatever  *)
(* the masters hold back, give up or reorder, only the latest request read *)
(* from the line is answered, and at most once, as long as no id is given  *)
(* out twice.                                                              *)
THEOREM SlaveImplementsSession ==
  RtuSlaveAssumption /\ FewRequests => (Spec => ImplementsSession)
<1> SUFFICES ASSUME RtuSlaveAssumption, FewRequests
             PROVE  Spec => ImplementsSession
  OBVIOUS
<1>1. Init => Session!SessionInit
  BY DEF Init, Session!SessionInit
<1>2. Init => TypeInv /\ StampInv
  BY TypeInit, StampInit
<1>3. TypeInv /\ StampInv /\ [Next]_vars => (TypeInv /\ StampInv)'
  BY TypeStep, StampStep
<1>4. TypeInv /\ StampInv /\ [Next]_vars => [Session!SessionNext]_(Session!session)
  BY SessionStep
<1> QED BY <1>1, <1>2, <1>3, <1>4, PTL DEF Spec, ImplementsSession, Session!SessionSpec
=============================================================================
