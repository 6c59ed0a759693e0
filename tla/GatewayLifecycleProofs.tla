----------------------- MODULE GatewayLifecycleProofs -----------------------
(***************************************************************************)
(* Theorems about start-up and shutdown, for any number of masters, slaves *)
(* and connections.                                                        *)
(***************************************************************************)
EXTENDS GatewayLifecycle, TLAPS

USE LifecycleAssumption DEF LifecycleAssumption

Stages  == {"main", "context", "masters", "slaves", "start", "run", "unwind", "returned", "end"}
Signals == {"default", "awaited", "raised", "handled"}
Ended   == {"unwind", "returned", "end"}

(* The locals of ModbusGateway, in the order in which they come and go.    *)
Locals1 == <<"exchange">>
Locals2 == <<"exchange", "context">>
Locals3 == <<"exchange", "context", "signalSet">>
Locals4 == <<"exchange", "context", "signalSet", "masters">>
Locals5 == <<"exchange", "context", "signalSet", "masters", "slaves">>

Names   == {"exchange", "context", "signalSet", "masters", "slaves"}

LEMMA OneMore ==
  ASSUME NEW S, NEW q \in Seq(S), NEW r \in Seq(S), Len(r) = Len(q) + 1,
         \A i \in 1..Len(q) : r[i] = q[i]
  PROVE  Append(q, r[Len(r)]) = r /\ Front(r) = q /\ Last(r) = r[Len(r)]
BY DEF Front, Last

LEMMA LocalsOrder ==
  /\ Append(Locals4, "slaves") = Locals5
  /\ Last(Locals1) = "exchange" /\ Front(Locals1) = <<>>
  /\ Last(Locals2) = "context" /\ Front(Locals2) = Locals1
  /\ Last(Locals3) = "signalSet" /\ Front(Locals3) = Locals2
  /\ Last(Locals4) = "masters" /\ Front(Locals4) = Locals3
  /\ Last(Locals5) = "slaves" /\ Front(Locals5) = Locals4
<1>1. Last(Locals1) = "exchange" /\ Front(Locals1) = <<>>
  BY DEF Locals1, Last, Front
<1>2. /\ Last(Locals2) = "context" /\ Front(Locals2) = Locals1
      /\ Append(Locals1, "context") = Locals2
  <2>1. /\ Locals1 \in Seq(Names) /\ Len(Locals1) = 1
        /\ Locals2 \in Seq(Names) /\ Len(Locals2) = 2
    BY DEF Locals1, Locals2, Names
  <2>2. /\ Locals1[1] = "exchange"
        /\ Locals2[1] = "exchange" /\ Locals2[2] = "context"
    BY DEF Locals1, Locals2
  <2>3. Len(Locals2) = Len(Locals1) + 1 /\ Locals2[Len(Locals2)] = "context"
    BY <2>1, <2>2
  <2>4. \A i \in 1..Len(Locals1) : Locals2[i] = Locals1[i]
    BY <2>1, <2>2
  <2>5. /\ Append(Locals1, Locals2[Len(Locals2)]) = Locals2 /\ Front(Locals2) = Locals1
        /\ Last(Locals2) = Locals2[Len(Locals2)]
    BY <2>1, <2>3, <2>4, OneMore, Zenon
  <2> QED BY <2>3, <2>5, Zenon
<1>3. /\ Last(Locals3) = "signalSet" /\ Front(Locals3) = Locals2
      /\ Append(Locals2, "signalSet") = Locals3
  <2>1. /\ Locals2 \in Seq(Names) /\ Len(Locals2) = 2
        /\ Locals3 \in Seq(Names) /\ Len(Locals3) = 3
    BY DEF Locals2, Locals3, Names
  <2>2. /\ Locals2[1] = "exchange" /\ Locals2[2] = "context"
        /\ Locals3[1] = "exchange" /\ Locals3[2] = "context" /\ Locals3[3] = "signalSet"
    BY DEF Locals2, Locals3
  <2>3. Len(Locals3) = Len(Locals2) + 1 /\ Locals3[Len(Locals3)] = "signalSet"
    BY <2>1, <2>2
  <2>4. \A i \in 1..Len(Locals2) : Locals3[i] = Locals2[i]
    BY <2>1, <2>2
  <2>5. /\ Append(Locals2, Locals3[Len(Locals3)]) = Locals3 /\ Front(Locals3) = Locals2
        /\ Last(Locals3) = Locals3[Len(Locals3)]
    BY <2>1, <2>3, <2>4, OneMore, Zenon
  <2> QED BY <2>3, <2>5, Zenon
<1>4. /\ Last(Locals4) = "masters" /\ Front(Locals4) = Locals3
      /\ Append(Locals3, "masters") = Locals4
  <2>1. /\ Locals3 \in Seq(Names) /\ Len(Locals3) = 3
        /\ Locals4 \in Seq(Names) /\ Len(Locals4) = 4
    BY DEF Locals3, Locals4, Names
  <2>2. /\ Locals3[1] = "exchange" /\ Locals3[2] = "context" /\ Locals3[3] = "signalSet"
        /\ Locals4[1] = "exchange" /\ Locals4[2] = "context" /\ Locals4[3] = "signalSet" /\ Locals4[4] = "masters"
    BY DEF Locals3, Locals4
  <2>3. Len(Locals4) = Len(Locals3) + 1 /\ Locals4[Len(Locals4)] = "masters"
    BY <2>1, <2>2
  <2>4. \A i \in 1..Len(Locals3) : Locals4[i] = Locals3[i]
    BY <2>1, <2>2
  <2>5. /\ Append(Locals3, Locals4[Len(Locals4)]) = Locals4 /\ Front(Locals4) = Locals3
        /\ Last(Locals4) = Locals4[Len(Locals4)]
    BY <2>1, <2>3, <2>4, OneMore, Zenon
  <2> QED BY <2>3, <2>5, Zenon
<1>5. /\ Last(Locals5) = "slaves" /\ Front(Locals5) = Locals4
      /\ Append(Locals4, "slaves") = Locals5
  <2>1. /\ Locals4 \in Seq(Names) /\ Len(Locals4) = 4
        /\ Locals5 \in Seq(Names) /\ Len(Locals5) = 5
    BY DEF Locals4, Locals5, Names
  <2>2. /\ Locals4[1] = "exchange" /\ Locals4[2] = "context" /\ Locals4[3] = "signalSet" /\ Locals4[4] = "masters"
        /\ Locals5[1] = "exchange" /\ Locals5[2] = "context" /\ Locals5[3] = "signalSet" /\ Locals5[4] = "masters" /\ Locals5[5] = "slaves"
    BY DEF Locals4, Locals5
  <2>3. Len(Locals5) = Len(Locals4) + 1 /\ Locals5[Len(Locals5)] = "slaves"
    BY <2>1, <2>2
  <2>4. \A i \in 1..Len(Locals4) : Locals5[i] = Locals4[i]
    BY <2>1, <2>2
  <2>5. /\ Append(Locals4, Locals5[Len(Locals5)]) = Locals5 /\ Front(Locals5) = Locals4
        /\ Last(Locals5) = Locals5[Len(Locals5)]
    BY <2>1, <2>3, <2>4, OneMore, Zenon
  <2> QED BY <2>3, <2>5, Zenon
<1> QED BY <1>1, <1>2, <1>3, <1>4, <1>5, Zenon

LocalsInv ==
  /\ pc \in Stages
  /\ pc \in {"main", "context", "returned", "end"} => locals = <<>>
  /\ pc = "masters" => locals = Locals4
  /\ pc \in {"slaves", "start", "run"} => locals = Locals5
  /\ pc = "unwind" => locals \in {Locals1, Locals2, Locals3, Locals4, Locals5}

LEMMA LocalsStart == Init => LocalsInv
BY DEF Init, LocalsInv, Stages

LEMMA LocalsStep ==
  ASSUME LocalsInv, [Next]_vars
  PROVE  LocalsInv'
<1> USE DEF LocalsInv, Stages
<1>1. CASE ReadConfig
  BY <1>1 DEF ReadConfig
<1>2. CASE MakeContext
  BY <1>2 DEF MakeContext, Locals4
<1>3. ASSUME NEW a, MakeMaster(a) \/ MakeSlave(a) \/ Accept(a) \/ ConnectThrows
      PROVE  LocalsInv'
  <2>1. /\ pc \in {"masters", "slaves", "run"} /\ UNCHANGED locals
        /\ pc' = pc \/ pc' = "unwind"
    BY <1>3 DEF MakeMaster, MakeSlave, Accept, ConnectThrows, Throw
  <2> QED BY <2>1
<1>4. CASE MakeRouter
  BY <1>4, LocalsOrder DEF MakeRouter
<1>5. ASSUME NEW a, MakeSlaves \/ Start(a) \/ ClientDisconnect(a) \/ HandleSignal
      PROVE  LocalsInv'
  <2>1. /\ pc \in {"slaves", "start", "run"} /\ UNCHANGED locals
        /\ pc' \in {"start", "run", "unwind"}
    BY <1>5 DEF MakeSlaves, Start, ClientDisconnect, HandleSignal
  <2> QED BY <2>1
<1>6. ASSUME DestroyList("slaves") \/ DestroyList("masters") \/ DestroySignalSet \/ DestroyContext
      PROVE  LocalsInv'
  <2>1. /\ pc = "unwind" /\ UNCHANGED pc /\ locals' = Front(locals)
        /\ Last(locals) # "exchange"
    BY <1>6 DEF DestroyList, DestroySignalSet, DestroyContext, AtLocal
  <2> QED BY <2>1, LocalsOrder
<1>7. CASE DestroyExchange
  BY <1>7 DEF DestroyExchange
<1>8. CASE DestroyStorage
  <2>1. /\ pc = "unwind" /\ Last(locals) = "exchange"
        /\ \/ UNCHANGED <<pc, locals>>
           \/ pc' = "returned" /\ locals' = Front(locals)
    BY <1>8 DEF DestroyStorage, AtLocal
  <2>2. locals = Locals1
    BY <2>1, LocalsOrder
  <2> QED BY <2>1, <2>2, LocalsOrder
<1>9. CASE ReturnFromMain
  BY <1>9 DEF ReturnFromMain
<1>10. CASE Signal \/ UNCHANGED vars
  BY <1>10 DEF Signal, vars
<1> QED BY <1>1, <1>2, <1>3, <1>4, <1>5, <1>6, <1>7, <1>8, <1>9, <1>10
        DEF Next, Main, Handlers
-----------------------------------------------------------------------------
(***************************************************************************)
(* The context, the signal and the exception.                              *)
(***************************************************************************)

(* Until the handler of the signal has run, it holds the context; once it  *)
(* has, nothing is thrown any more.                                        *)
ContextInv ==
  /\ signal \in Signals
  /\ signal = "default" => pc \in {"main", "context", "end"}
  /\ signal \in {"awaited", "raised"} => "handler" \in context
  /\ signal = "handled" => pc \in Ended
  /\ orphaned # {} => signal = "handled"

ThrownInv ==
  /\ thrown \in BOOLEAN
  /\ thrown => pc \in Ended /\ signal # "handled"
  /\ pc = "end" /\ thrown => rc = "failure"

LEMMA ContextStart == Init => ContextInv
BY DEF Init, ContextInv, Signals

LEMMA ContextStep ==
  ASSUME ContextInv, [Next]_vars
  PROVE  ContextInv'
<1> USE DEF ContextInv, Signals, Ended
<1>1. CASE ReadConfig
  BY <1>1 DEF ReadConfig, actors
<1>2. CASE MakeContext
  BY <1>2 DEF MakeContext, WaitingHandler, actors
<1>3. ASSUME NEW a, MakeMaster(a) \/ MakeSlave(a) \/ Accept(a) \/ ConnectThrows
      PROVE  ContextInv'
  <2>1. /\ pc \in {"masters", "slaves", "run"} /\ UNCHANGED <<signal, context, orphaned>>
    BY <1>3 DEF MakeMaster, MakeSlave, Accept, ConnectThrows, actors
  <2> QED BY <2>1
<1>4. ASSUME NEW a, MakeRouter \/ MakeSlaves \/ Start(a) \/ ClientDisconnect(a)
      PROVE  ContextInv'
  <2>1. /\ pc \in {"masters", "slaves", "start", "run"} /\ UNCHANGED <<signal, context, orphaned>>
    BY <1>4 DEF MakeRouter, MakeSlaves, Start, ClientDisconnect, actors
  <2> QED BY <2>1
<1>5. CASE HandleSignal
  BY <1>5 DEF HandleSignal, actors
<1>6. ASSUME NEW S, NEW o, Release(S, o), pc = "unwind", UNCHANGED <<signal, context>>,
             pc' \in Ended
      PROVE  ContextInv'
  <2>1. orphaned' # orphaned => context = {}
    BY <1>6 DEF Release
  <2> QED BY <1>6, <2>1
<1>7. ASSUME DestroyList("slaves") \/ DestroyList("masters")
      PROVE  ContextInv'
  BY <1>6, <1>7 DEF DestroyList, AtLocal
<1>8. CASE DestroyStorage
  <2>1. /\ pc = "unwind" /\ UNCHANGED <<signal, context>> /\ pc' \in Ended
        /\ (\E a \in Actors : Release({a}, "exchange")) \/ UNCHANGED orphaned
    BY <1>8 DEF DestroyStorage, AtLocal, actors
  <2> QED BY <1>6, <2>1
<1>9. CASE DestroySignalSet \/ DestroyExchange
  BY <1>9 DEF DestroySignalSet, DestroyExchange, actors, AtLocal
<1>10. CASE DestroyContext
  BY <1>10 DEF DestroyContext, actors, AtLocal
<1>11. CASE ReturnFromMain
  BY <1>11 DEF ReturnFromMain, actors
<1>12. CASE Signal
  BY <1>12 DEF Signal, actors
<1>13. CASE UNCHANGED vars
  BY <1>13 DEF vars
<1> QED BY <1>1, <1>2, <1>3, <1>4, <1>5, <1>7, <1>8, <1>9, <1>10, <1>11, <1>12, <1>13
        DEF Next, Main, Handlers

LEMMA ThrownStart == Init => ThrownInv
<1> SUFFICES ASSUME Init PROVE ThrownInv
  OBVIOUS
<1>1. thrown = FALSE
  BY DEF Init
<1> QED BY <1>1, Zenon DEF ThrownInv

LEMMA ThrownStep ==
  ASSUME ContextInv, ThrownInv, [Next]_vars
  PROVE  ThrownInv'
<1>1. ASSUME Throw, pc \in {"masters", "slaves", "run"}, UNCHANGED <<signal, rc>>
      PROVE  ThrownInv'
  <2>1. pc' \in Ended /\ pc' # "end" /\ signal' # "handled"
    BY <1>1 DEF Throw, ContextInv, Ended
  <2>2. thrown' = TRUE
    BY <1>1 DEF Throw
  <2> QED BY <2>1, <2>2, Zenon DEF ThrownInv
<1>2. ASSUME UNCHANGED thrown, UNCHANGED rc, pc = "end" => pc' = "end",
             pc' = "end" => pc = "end", pc \in Ended => pc' \in Ended,
             signal' = "handled" => signal = "handled" \/ pc \notin Ended
      PROVE  ThrownInv'
  BY <1>2, Zenon DEF ThrownInv
<1>3. CASE ReadConfig
  <2>1. pc \notin Ended /\ thrown' = thrown
    BY <1>3 DEF ReadConfig, Ended
  <2> QED BY <2>1, Zenon DEF ThrownInv
<1>4. CASE MakeContext
  BY <1>2, <1>4 DEF MakeContext, Ended
<1>5. ASSUME NEW a, MakeMaster(a) \/ MakeSlave(a) \/ Accept(a) \/ ConnectThrows
      PROVE  ThrownInv'
  <2>1. /\ pc \in {"masters", "slaves", "run"} /\ UNCHANGED <<signal, rc>>
        /\ Throw \/ (UNCHANGED pc /\ UNCHANGED thrown)
    BY <1>5 DEF MakeMaster, MakeSlave, Accept, ConnectThrows
  <2> QED BY <1>1, <1>2, <2>1
<1>6. ASSUME NEW a, MakeRouter \/ MakeSlaves \/ Start(a) \/ ClientDisconnect(a)
      PROVE  ThrownInv'
  <2>1. /\ pc \notin Ended /\ pc' \notin Ended /\ UNCHANGED thrown /\ UNCHANGED <<signal, rc>>
    BY <1>6 DEF MakeRouter, MakeSlaves, Start, ClientDisconnect, Ended
  <2> QED BY <1>2, <2>1 DEF Ended
<1>7. CASE HandleSignal
  BY <1>2, <1>7 DEF HandleSignal, Ended
<1>8. ASSUME DestroyList("slaves") \/ DestroyList("masters") \/ DestroySignalSet
             \/ DestroyContext \/ DestroyExchange \/ DestroyStorage
      PROVE  ThrownInv'
  <2>1. /\ pc = "unwind" /\ pc' \in {"unwind", "returned"} /\ UNCHANGED thrown
        /\ UNCHANGED <<signal, rc>>
    BY <1>8 DEF DestroyList, DestroySignalSet, DestroyContext, DestroyExchange,
                DestroyStorage, AtLocal
  <2> QED BY <1>2, <2>1 DEF Ended
<1>9. CASE ReturnFromMain
  <2>1. pc = "returned" /\ pc' = "end" /\ thrown' = thrown /\ signal' = signal /\ rc' = Caught(~thrown)
    BY <1>9 DEF ReturnFromMain
  <2>2. thrown => rc' = "failure"
    BY <2>1, Zenon DEF Caught
  <2>3. pc' \in Ended
    BY <2>1 DEF Ended
  <2> QED BY <2>1, <2>2, <2>3, Zenon DEF ThrownInv
<1>10. CASE Signal
  <2>1. UNCHANGED pc /\ UNCHANGED thrown /\ UNCHANGED rc /\ signal' # "handled"
    BY <1>10 DEF Signal
  <2> QED BY <1>2, <2>1
<1>11. CASE UNCHANGED vars
  BY <1>2, <1>11 DEF vars
<1> QED BY <1>3, <1>4, <1>5, <1>6, <1>7, <1>8, <1>9, <1>10, <1>11
        DEF Next, Main, Handlers

(* ModbusGateway destroys an actor without its io_context on the regular   *)
(* end only: theorem of DanglingOnlyAfterSignal.                           *)
THEOREM ContextOutlivesActorsOnError == Spec => []DanglingOnlyAfterSignal
<1>1. ContextInv /\ ThrownInv => DanglingOnlyAfterSignal
  BY Zenon DEF ContextInv, ThrownInv, DanglingOnlyAfterSignal
<1>2. ContextInv /\ [Next]_vars => ContextInv'
  BY ContextStep
<1>3. ContextInv /\ ThrownInv /\ [Next]_vars => ThrownInv'
  BY ThrownStep
<1> QED BY <1>1, <1>2, <1>3, ContextStart, ThrownStart, PTL DEF Spec

(* Whatever throws while ModbusGateway runs, the catch clauses of main     *)
(* report it in the exit code: theorem of FailureReported.                 *)
THEOREM FailuresReported == Spec => []FailureReported
<1>1. ThrownInv => FailureReported
  BY Zenon DEF ThrownInv, FailureReported
<1>2. ContextInv /\ [Next]_vars => ContextInv'
  BY ContextStep
<1>3. ContextInv /\ ThrownInv /\ [Next]_vars => ThrownInv'
  BY ThrownStep
<1> QED BY <1>1, <1>2, <1>3, ContextStart, ThrownStart, PTL DEF Spec
-----------------------------------------------------------------------------
(***************************************************************************)
(* Who holds whom.  A connection is in the clientDb_ of a server that      *)
(* exists; a list that is gone holds nobody.                               *)
(***************************************************************************)
HeldInv ==
  /\ DOMAIN refs = Actors
  /\ \A a \in Actors : refs[a] \subseteq OwnersOf(a)
  /\ server \in [Clients -> TcpServers]
  /\ \A c \in Clients : "clientDb" \in refs[c] => refs[server[c]] # {}

ListsInv ==
  /\ started \subseteq Slaves
  /\ \A a \in Actors : "masters" \in refs[a] => locals \in {Locals4, Locals5}
  /\ \A a \in Actors : "slaves" \in refs[a] => locals = Locals5
  /\ pc \in {"start", "run"} => \A a \in Slaves : refs[a] # {}
  /\ pc \in {"main", "context", "returned", "end"} => \A a \in Actors : refs[a] = {}

OwnInv == LocalsInv /\ HeldInv /\ ListsInv

LEMMA LocalsDiffer ==
  /\ Locals5 # Locals4
  /\ \A l \in {Locals4, Locals5} : l # <<>> /\ l \notin {Locals1, Locals2, Locals3}
<1>1. <<>> \notin {Locals4, Locals5}
  BY DEF Locals4, Locals5
<1> QED BY <1>1, LocalsOrder

(* The destruction of servers within Release empties their clientDb_.      *)
LEMMA ReleaseFacts ==
  ASSUME HeldInv, NEW S \in SUBSET Actors, NEW o, Release(S, o)
  PROVE  /\ HeldInv'
         /\ \A a \in Actors : refs'[a] \subseteq refs[a]
         /\ \A a \in S : o \notin refs'[a]
         /\ orphaned' \subseteq orphaned \cup Actors
<1>1. PICK held, ends :
        /\ held = [a \in Actors |-> IF a \in S THEN refs[a] \ {o} ELSE refs[a]]
        /\ ends = {s \in TcpServers : refs[s] # {} /\ held[s] = {}}
        /\ refs' = StopServers(ends, held)
        /\ UNCHANGED server
        /\ orphaned' = orphaned \cup
             {a \in Actors : context = {} /\ refs[a] # {} /\ refs'[a] = {}}
  BY DEF Release
<1>2. \A a \in Actors : held[a] \subseteq refs[a]
  BY <1>1
<1>3. \A a \in S : o \notin held[a]
  BY <1>1
<1>4. /\ DOMAIN refs' = Actors
      /\ \A a \in Actors : refs'[a] \subseteq held[a]
      /\ \A a \in Actors : a \notin Clients => refs'[a] = held[a]
      /\ \A c \in Clients : server[c] \in ends => "clientDb" \notin refs'[c]
  BY <1>1 DEF StopServers, Actors
<1>5. ASSUME NEW c \in Clients, "clientDb" \in refs'[c]
      PROVE  refs'[server'[c]] # {}
  <2>1. c \in Actors /\ server[c] \in TcpServers /\ server[c] \in Actors /\ server[c] \notin Clients
    BY DEF HeldInv, Actors
  <2>2. refs[server[c]] # {} /\ server[c] \notin ends
    BY <1>2, <1>4, <1>5, <2>1 DEF HeldInv
  <2>3. held[server[c]] # {}
    BY <1>1, <2>1, <2>2
  <2> QED BY <1>1, <1>4, <2>1, <2>3
<1>6. \A a \in Actors : refs'[a] \subseteq refs[a]
  BY <1>2, <1>4
<1>7. \A a \in S : o \notin refs'[a]
  BY <1>3, <1>4
<1>8. HeldInv'
  BY <1>1, <1>4, <1>5, <1>6 DEF HeldInv, OwnersOf
<1> QED BY <1>1, <1>6, <1>7, <1>8

LEMMA OwnStart == Init => OwnInv
<1> SUFFICES ASSUME Init PROVE OwnInv
  OBVIOUS
<1>1. refs = [a \in Actors |-> {}] /\ \A c \in Clients : c \in Actors
  BY DEF Init, Actors
<1>2. HeldInv
  BY <1>1 DEF Init, HeldInv
<1>3. ListsInv
  BY <1>1 DEF Init, ListsInv, Actors
<1> QED BY <1>2, <1>3, LocalsStart DEF OwnInv

(* Once the storage is empty, nobody is left: the lists are gone, and with *)
(* the servers their clientDb_.                                            *)
LEMMA StorageEmpty ==
  ASSUME OwnInv, locals = Locals1, \A a \in Actors : "exchange" \notin refs[a]
  PROVE  \A a \in Actors : refs[a] = {}
<1>1. \A a \in Actors : /\ refs[a] \subseteq OwnersOf(a)
                        /\ refs[a] \cap {"masters", "slaves", "exchange"} = {}
  BY LocalsDiffer DEF OwnInv, HeldInv, ListsInv
<1>2. \A a \in Masters \cup Slaves : refs[a] = {}
  BY <1>1 DEF OwnersOf, Actors
<1>3. ASSUME NEW c \in Clients
      PROVE  refs[c] = {}
  <2>1. server[c] \in Slaves /\ refs[server[c]] = {}
    BY <1>2 DEF OwnInv, HeldInv
  <2>2. "clientDb" \notin refs[c]
    BY <2>1 DEF OwnInv, HeldInv
  <2>3. c \in Actors /\ c \notin Masters /\ c \notin Slaves
    BY DEF Actors
  <2> QED BY <1>1, <2>2, <2>3 DEF OwnersOf
<1> QED BY <1>2, <1>3 DEF Actors

LEMMA OwnStep ==
  ASSUME OwnInv, [Next]_vars
  PROVE  OwnInv'
<1>1. LocalsInv' /\ LocalsInv /\ HeldInv /\ ListsInv
  BY LocalsStep DEF OwnInv
<1>2. SUFFICES HeldInv' /\ ListsInv'
  BY <1>1 DEF OwnInv
<1>3. ASSUME UNCHANGED <<refs, server>>
      PROVE  HeldInv'
  BY <1>1, <1>3 DEF HeldInv
<1>4. ASSUME UNCHANGED <<refs, server, started>>,
             locals' = locals \/ locals \notin {Locals4, Locals5} \/ (locals = Locals4 /\ locals' = Locals5),
             pc' \in {"start", "run"} => pc \in {"start", "run"} \/ \A a \in Slaves : refs[a] # {},
             pc' \in {"main", "context", "returned", "end"} => \A a \in Actors : refs[a] = {}
      PROVE  HeldInv' /\ ListsInv'
  <2>1. HeldInv'
    BY <1>3, <1>4
  <2>2. \A a \in Actors : "masters" \in refs[a] => locals' \in {Locals4, Locals5}
    BY <1>1, <1>4 DEF ListsInv
  <2>3. \A a \in Actors : "slaves" \in refs[a] => locals' = Locals5
    BY <1>1, <1>4, LocalsDiffer DEF ListsInv
  <2> QED BY <1>1, <1>4, <2>1, <2>2, <2>3 DEF ListsInv
(* An actor is made. *)
<1>5. ASSUME NEW a \in Actors, NEW o, o \subseteq OwnersOf(a), o # {},
             refs' = [refs EXCEPT ![a] = o], UNCHANGED <<server, locals, started>>,
             pc \in {"masters", "slaves", "run"}, pc' \in {pc, "unwind"},
             "masters" \in o => locals \in {Locals4, Locals5},
             "slaves" \in o => locals = Locals5,
             a \in Clients => refs[server[a]] # {}
      PROVE  HeldInv' /\ ListsInv'
  <2>1. /\ DOMAIN refs' = Actors /\ refs'[a] = o
        /\ \A b \in Actors : b # a => refs'[b] = refs[b]
        /\ \A b \in Actors : refs[b] # {} => refs'[b] # {}
    BY <1>1, <1>5 DEF HeldInv
  <2>2. \A c \in Clients : c \in Actors /\ server[c] \in Actors
    BY <1>1 DEF HeldInv, Actors
  <2>3. \A c \in Clients : "clientDb" \in refs'[c] => refs'[server[c]] # {}
    BY <1>1, <1>5, <2>1, <2>2 DEF HeldInv
  <2>4. \A b \in Actors : refs'[b] \subseteq OwnersOf(b)
    BY <1>1, <1>5, <2>1 DEF HeldInv
  <2>5. HeldInv'
    BY <1>1, <1>5, <2>1, <2>3, <2>4 DEF HeldInv, OwnersOf
  <2>6. /\ \A b \in Actors : "masters" \in refs'[b] => locals \in {Locals4, Locals5}
        /\ \A b \in Actors : "slaves" \in refs'[b] => locals = Locals5
    BY <1>1, <1>5, <2>1 DEF ListsInv
  <2>7. pc' \in {"start", "run"} => \A b \in Slaves : refs'[b] # {}
    BY <1>1, <1>5, <2>1 DEF ListsInv, Actors
  <2> QED BY <1>1, <1>5, <2>5, <2>6, <2>7 DEF ListsInv
<1>6. ASSUME NEW a \in Masters, MakeMaster(a)
      PROVE  HeldInv' /\ ListsInv'
  <2>1. /\ a \in Actors /\ {"exchange", "masters"} \subseteq OwnersOf(a) /\ a \notin Clients
    BY DEF Actors, OwnersOf
  <2>2. pc = "masters" /\ locals = Locals4
    BY <1>1, <1>6 DEF MakeMaster, LocalsInv
  <2>3. CASE refs' = [refs EXCEPT ![a] = {"exchange", "masters"}] /\ UNCHANGED pc
    <3> DEFINE o == {"exchange", "masters"}
    <3>1. "masters" \in o /\ "slaves" \notin o /\ o # {} /\ o \subseteq OwnersOf(a)
      BY <2>1
    <3>2. /\ refs' = [refs EXCEPT ![a] = o] /\ UNCHANGED <<server, locals, started>>
          /\ pc \in {"masters", "slaves", "run"} /\ pc' \in {pc, "unwind"}
      BY <1>6, <2>2, <2>3 DEF MakeMaster
    <3> HIDE DEF o
    <3> QED BY <1>5, <2>1, <2>2, <3>1, <3>2
  <2>4. CASE Throw /\ UNCHANGED refs
    BY <1>4, <1>6, <2>4 DEF MakeMaster, Throw
  <2> QED BY <1>6, <2>3, <2>4 DEF MakeMaster
<1>7. ASSUME NEW a \in Slaves, MakeSlave(a)
      PROVE  HeldInv' /\ ListsInv'
  <2>1. /\ a \in Actors /\ {"exchange", "slaves"} \subseteq OwnersOf(a) /\ a \notin Clients
    BY DEF Actors, OwnersOf
  <2>2. pc = "slaves" /\ locals = Locals5
    BY <1>1, <1>7 DEF MakeSlave, LocalsInv
  <2>3. CASE refs' = [refs EXCEPT ![a] = {"exchange", "slaves"}] /\ UNCHANGED pc
    <3> DEFINE o == {"exchange", "slaves"}
    <3>1. "slaves" \in o /\ "masters" \notin o /\ o # {} /\ o \subseteq OwnersOf(a)
      BY <2>1
    <3>2. /\ refs' = [refs EXCEPT ![a] = o] /\ UNCHANGED <<server, locals, started>>
          /\ pc \in {"masters", "slaves", "run"} /\ pc' \in {pc, "unwind"}
      BY <1>7, <2>2, <2>3 DEF MakeSlave
    <3> HIDE DEF o
    <3> QED BY <1>5, <2>1, <2>2, <3>1, <3>2
  <2>4. CASE Throw /\ UNCHANGED refs
    BY <1>4, <1>7, <2>4 DEF MakeSlave, Throw
  <2> QED BY <1>7, <2>3, <2>4 DEF MakeSlave
<1>8. ASSUME NEW c \in Clients, Accept(c)
      PROVE  HeldInv' /\ ListsInv'
  <2>1. /\ c \in Actors /\ {"exchange", "clientDb"} \subseteq OwnersOf(c)
    BY DEF Actors, OwnersOf
  <2>2. pc = "run" /\ refs[server[c]] # {}
    BY <1>1, <1>8 DEF Accept, HeldInv, ListsInv
  <2>3. CASE refs' = [refs EXCEPT ![c] = {"exchange", "clientDb"}] /\ pc' \in {pc, "unwind"}
    <3> DEFINE o == {"exchange", "clientDb"}
    <3>1. "masters" \notin o /\ "slaves" \notin o /\ o # {} /\ o \subseteq OwnersOf(c)
      BY <2>1
    <3>2. /\ refs' = [refs EXCEPT ![c] = o] /\ UNCHANGED <<server, locals, started>>
          /\ pc \in {"masters", "slaves", "run"} /\ pc' \in {pc, "unwind"}
      BY <1>8, <2>2, <2>3 DEF Accept
    <3> HIDE DEF o
    <3> QED BY <1>5, <2>1, <2>2, <3>1, <3>2
  <2>4. CASE Throw /\ UNCHANGED refs
    BY <1>4, <1>8, <2>4 DEF Accept, Throw
  <2> QED BY <1>8, <2>3, <2>4 DEF Accept, Throw
<1>9. ASSUME NEW c \in Clients, ClientDisconnect(c)
      PROVE  HeldInv' /\ ListsInv'
  <2>1. /\ c \in Actors /\ pc = "run" /\ UNCHANGED <<pc, locals, server, started>>
        /\ refs' = [refs EXCEPT ![c] = @ \ {"exchange", "clientDb"}]
    BY <1>9 DEF ClientDisconnect, Actors
  <2>2. /\ DOMAIN refs' = Actors
        /\ \A a \in Actors : refs'[a] \subseteq refs[a]
        /\ \A a \in Actors : a # c => refs'[a] = refs[a]
        /\ "clientDb" \notin refs'[c]
    BY <1>1, <2>1 DEF HeldInv
  <2>3. \A d \in Clients : d \in Actors /\ server[d] \in Actors /\ server[d] # c
    BY <1>1 DEF HeldInv, Actors
  <2>4. \A d \in Clients : "clientDb" \in refs'[d] => refs'[server[d]] # {}
    BY <1>1, <2>2, <2>3 DEF HeldInv
  <2>5. HeldInv'
    BY <1>1, <2>1, <2>2, <2>4 DEF HeldInv, OwnersOf
  <2>6. \A a \in Slaves : refs'[a] = refs[a]
    BY <2>2 DEF Actors
  <2>7. ListsInv'
    BY <1>1, <2>1, <2>2, <2>6 DEF ListsInv
  <2> QED BY <2>5, <2>7
<1>10. CASE ReadConfig
  BY <1>1, <1>4, <1>10 DEF ReadConfig, ListsInv, actors
<1>11. CASE MakeContext
  <2>1. locals = <<>>
    BY <1>1, <1>11 DEF MakeContext, LocalsInv
  <2> QED BY <1>4, <1>11, <2>1, LocalsDiffer DEF MakeContext, actors
<1>12. CASE MakeRouter
  <2>1. locals = Locals4 /\ locals' = Locals5
    BY <1>1, <1>12, LocalsOrder DEF MakeRouter, LocalsInv
  <2> QED BY <1>4, <1>12, <2>1 DEF MakeRouter, actors
<1>13. CASE MakeSlaves
  <2>1. \A a \in Slaves : refs[a] # {}
    BY <1>13 DEF MakeSlaves, Made
  <2> QED BY <1>4, <1>13, <2>1 DEF MakeSlaves, actors
<1>14. ASSUME NEW a \in Slaves, Start(a)
       PROVE  HeldInv' /\ ListsInv'
  <2>1. HeldInv'
    BY <1>3, <1>14 DEF Start, actors
  <2>2. /\ pc = "start" /\ pc' \in {"start", "run"} /\ started' = started \cup {a}
        /\ UNCHANGED <<refs, locals>>
    BY <1>14 DEF Start, actors
  <2>3. ListsInv'
    BY <1>1, <2>2 DEF ListsInv
  <2> QED BY <2>1, <2>3
<1>15. CASE ConnectThrows \/ HandleSignal \/ Signal
  <2>1. /\ UNCHANGED <<refs, server, started, locals>>
        /\ pc' \in {pc, "unwind"}
    BY <1>15 DEF ConnectThrows, HandleSignal, Signal, Throw, actors
  <2> QED BY <1>1, <1>4, <2>1 DEF ListsInv
(* An owner is destroyed. *)
<1>16. ASSUME NEW S \in SUBSET Actors, NEW o, Release(S, o), pc = "unwind",
              UNCHANGED <<pc, started>>,
              \A a \in Actors : "masters" \in refs'[a] => locals' \in {Locals4, Locals5},
              \A a \in Actors : "slaves" \in refs'[a] => locals' = Locals5
       PROVE  HeldInv' /\ ListsInv'
  <2>1. HeldInv'
    BY <1>1, <1>16, ReleaseFacts
  <2> QED BY <1>1, <1>16, <2>1 DEF ListsInv
<1>17. CASE DestroyList("slaves")
  <2>1. /\ pc = "unwind" /\ Last(locals) = "slaves" /\ locals' = Front(locals)
        /\ Release(Masters \cup Slaves, "slaves") /\ UNCHANGED <<pc, started>>
    BY <1>17 DEF DestroyList, AtLocal
  <2>2. locals = Locals5 /\ locals' = Locals4
    BY <1>1, <2>1, LocalsOrder DEF LocalsInv
  <2>3. Masters \cup Slaves \in SUBSET Actors
    BY DEF Actors
  <2>4. \A a \in Actors : "slaves" \notin refs'[a]
    <3>1. \A a \in Masters \cup Slaves : "slaves" \notin refs'[a]
      BY <1>1, <2>1, <2>3, ReleaseFacts
    <3>2. \A a \in Clients : a \in Actors /\ "slaves" \notin OwnersOf(a)
      BY DEF Actors, OwnersOf
    <3>3. \A a \in Actors : refs'[a] \subseteq refs[a]
      BY <1>1, <2>1, <2>3, ReleaseFacts
    <3> QED BY <1>1, <3>1, <3>2, <3>3 DEF HeldInv, Actors
  <2> QED BY <1>16, <2>1, <2>2, <2>3, <2>4
<1>18. CASE DestroyList("masters")
  <2>1. /\ pc = "unwind" /\ Last(locals) = "masters"
        /\ Release(Masters \cup Slaves, "masters") /\ UNCHANGED <<pc, started>>
    BY <1>18 DEF DestroyList, AtLocal
  <2>2. locals = Locals4
    BY <1>1, <2>1, LocalsOrder DEF LocalsInv
  <2>3. Masters \cup Slaves \in SUBSET Actors
    BY DEF Actors
  <2>4. \A a \in Actors : "masters" \notin refs'[a] /\ "slaves" \notin refs'[a]
    <3>1. \A a \in Masters \cup Slaves : "masters" \notin refs'[a]
      BY <1>1, <2>1, <2>3, ReleaseFacts
    <3>2. \A a \in Clients : a \in Actors /\ "masters" \notin OwnersOf(a)
      BY DEF Actors, OwnersOf
    <3>3. \A a \in Actors : refs'[a] \subseteq refs[a] /\ "slaves" \notin refs[a]
      BY <1>1, <2>1, <2>2, <2>3, ReleaseFacts, LocalsDiffer DEF ListsInv
    <3> QED BY <1>1, <3>1, <3>2, <3>3 DEF HeldInv, Actors
  <2> QED BY <1>16, <2>1, <2>3, <2>4
<1>19. CASE DestroySignalSet \/ DestroyContext \/ DestroyExchange
  <2>1. /\ pc = "unwind" /\ UNCHANGED <<pc, refs, server, started>>
        /\ Last(locals) \in {"signalSet", "context", "exchange"}
    BY <1>19 DEF DestroySignalSet, DestroyContext, DestroyExchange, AtLocal, actors
  <2>2. locals \notin {Locals4, Locals5}
    BY <2>1, LocalsOrder
  <2> QED BY <1>4, <2>1, <2>2
<1>20. CASE DestroyStorage
  <2>1. /\ pc = "unwind" /\ Last(locals) = "exchange" /\ UNCHANGED started
    BY <1>20 DEF DestroyStorage, AtLocal
  <2>2. locals = Locals1
    BY <1>1, <2>1, LocalsOrder DEF LocalsInv
  <2>3. ASSUME NEW a \in Actors, Release({a}, "exchange"), UNCHANGED <<pc, locals>>
        PROVE  HeldInv' /\ ListsInv'
    <3>1. \A b \in Actors : refs'[b] \subseteq refs[b]
      BY <1>1, <2>3, ReleaseFacts
    <3>2. \A b \in Actors : "masters" \notin refs'[b] /\ "slaves" \notin refs'[b]
      BY <1>1, <2>2, <3>1, LocalsDiffer DEF ListsInv
    <3> QED BY <1>16, <2>1, <2>3, <3>2
  <2>4. CASE (\A a \in Actors : "exchange" \notin refs[a]) /\ UNCHANGED actors
    <3>1. \A a \in Actors : refs[a] = {}
      BY <2>2, <2>4, StorageEmpty
    <3>2. pc' \in {"unwind", "returned"}
      BY <1>20, <2>1 DEF DestroyStorage
    <3> QED BY <1>4, <2>1, <2>2, <2>4, <3>1, <3>2, LocalsDiffer DEF actors
  <2> QED BY <1>20, <2>3, <2>4 DEF DestroyStorage
<1>21. CASE ReturnFromMain
  BY <1>1, <1>4, <1>21 DEF ReturnFromMain, ListsInv, actors
<1>22. CASE UNCHANGED vars
  BY <1>1, <1>4, <1>22 DEF vars, ListsInv
<1> QED BY <1>6, <1>7, <1>8, <1>9, <1>10, <1>11, <1>12, <1>13, <1>14, <1>15,
           <1>17, <1>18, <1>19, <1>20, <1>21, <1>22 DEF Next, Main, Handlers

(* Every actor that a run of ModbusGateway makes is destroyed before main  *)
(* returns, by its list, the storage of the exchange or the destructor of  *)
(* its server: theorem of NothingLeft.                                     *)
THEOREM NobodyLeft == Spec => []NothingLeft
<1>1. OwnInv => NothingLeft
  BY DEF OwnInv, ListsInv, NothingLeft
<1>2. OwnInv /\ [Next]_vars => OwnInv'
  BY OwnStep
<1> QED BY <1>1, <1>2, OwnStart, PTL DEF Spec

RestInv ==
  /\ exchange \in {"none", "alive", "destroyed"}
  /\ context \subseteq ContextOwners
  /\ rc \in {"success", "failure"}
  /\ orphaned \subseteq Actors

LEMMA RestStart == Init => RestInv
BY DEF Init, RestInv

LEMMA RestStep ==
  ASSUME OwnInv, RestInv, [Next]_vars
  PROVE  RestInv'
<1>1. exchange' \in {exchange, "alive", "destroyed"}
  BY DEF Next, Main, Handlers, ReadConfig, MakeContext, MakeMaster, MakeRouter, MakeSlave,
     MakeSlaves, Start, DestroyList, DestroySignalSet, DestroyContext, DestroyExchange,
     DestroyStorage, ReturnFromMain, Accept, ClientDisconnect, ConnectThrows, HandleSignal,
     Signal, vars
<1>2. context' = WaitingHandler \/ context' \subseteq context
  BY DEF Next, Main, Handlers, ReadConfig, MakeContext, MakeMaster, MakeRouter, MakeSlave,
     MakeSlaves, Start, DestroyList, DestroySignalSet, DestroyContext, DestroyExchange,
     DestroyStorage, ReturnFromMain, Accept, ClientDisconnect, ConnectThrows, HandleSignal,
     Signal, vars
<1>3. UNCHANGED rc \/ ReadConfig \/ ReturnFromMain
  BY DEF Next, Main, Handlers, MakeContext, MakeMaster, MakeRouter, MakeSlave,
     MakeSlaves, Start, DestroyList, DestroySignalSet, DestroyContext, DestroyExchange,
     DestroyStorage, Accept, ClientDisconnect, ConnectThrows, HandleSignal, Signal, vars
<1>4. rc' \in {"success", "failure"}
  BY <1>3, Zenon DEF RestInv, ReadConfig, ReturnFromMain, Caught
<1>5. ASSUME NEW S \in SUBSET Actors, NEW o, Release(S, o)
      PROVE  orphaned' \subseteq Actors
  BY <1>5, ReleaseFacts DEF RestInv, OwnInv
<1>6. ASSUME DestroyList("slaves") \/ DestroyList("masters")
      PROVE  orphaned' \subseteq Actors
  <2>1. PICK o : Release(Masters \cup Slaves, o)
    BY <1>6 DEF DestroyList
  <2>2. Masters \cup Slaves \in SUBSET Actors
    BY DEF Actors
  <2> QED BY <1>5, <2>1, <2>2
<1>7. UNCHANGED orphaned => orphaned' \subseteq Actors
  BY DEF RestInv
<1>8. ASSUME DestroyStorage
      PROVE  orphaned' \subseteq Actors
  <2>1. CASE UNCHANGED actors
    BY <1>7, <2>1 DEF actors
  <2>2. CASE \E a \in Actors : Release({a}, "exchange")
    <3>1. PICK a \in Actors : Release({a}, "exchange")
      BY <2>2
    <3>2. {a} \in SUBSET Actors
      OBVIOUS
    <3> QED BY <1>5, <3>1, <3>2
  <2> QED BY <1>8, <2>1, <2>2 DEF DestroyStorage
<1>9. ASSUME ~(DestroyList("slaves") \/ DestroyList("masters") \/ DestroyStorage)
      PROVE  orphaned' \subseteq Actors
  <2>1. UNCHANGED orphaned
    BY <1>9 DEF Next, Main, Handlers, ReadConfig, MakeContext, MakeMaster, MakeRouter,
       MakeSlave, MakeSlaves, Start, DestroySignalSet, DestroyContext, DestroyExchange,
       ReturnFromMain, Accept, ClientDisconnect, ConnectThrows, HandleSignal, Signal,
       vars, actors
  <2> QED BY <1>7, <2>1
<1>10. orphaned' \subseteq Actors
  BY <1>6, <1>8, <1>9
<1> QED BY <1>1, <1>2, <1>4, <1>10 DEF RestInv, WaitingHandler, ContextOwners

(* The locals, owners and flags of the life of the process stay in their   *)
(* types; in particular only those hold an actor that the code lets hold   *)
(* it: theorem of TypeOK.                                                  *)
THEOREM TypeCorrect == Spec => []TypeOK
<1> DEFINE AllInv == OwnInv /\ RestInv /\ ContextInv /\ ThrownInv
<1>1. ASSUME AllInv
      PROVE  TypeOK
  <2>1. locals \in Seq(Names)
    <3>1. /\ <<>> \in Seq(Names) /\ Locals1 \in Seq(Names) /\ Locals2 \in Seq(Names)
          /\ Locals3 \in Seq(Names) /\ Locals4 \in Seq(Names) /\ Locals5 \in Seq(Names)
      BY DEF Names, Locals1, Locals2, Locals3, Locals4, Locals5
    <3>2. locals \in {<<>>, Locals1, Locals2, Locals3, Locals4, Locals5}
      BY <1>1 DEF OwnInv, LocalsInv, Stages
    <3> QED BY <3>1, <3>2
  <2>2. thrown \in BOOLEAN
    BY <1>1, Zenon DEF ThrownInv
  <2>3. /\ pc \in Stages
        /\ DOMAIN refs = Actors /\ (\A a \in Actors : refs[a] \subseteq OwnersOf(a))
        /\ server \in [Clients -> TcpServers] /\ started \subseteq Slaves
        /\ exchange \in {"none", "alive", "destroyed"} /\ context \subseteq ContextOwners
        /\ signal \in Signals /\ rc \in {"success", "failure"} /\ orphaned \subseteq Actors
    BY <1>1 DEF OwnInv, LocalsInv, HeldInv, ListsInv, RestInv, ContextInv
  <2> QED BY <2>1, <2>2, <2>3, Zenon DEF TypeOK, Stages, Signals, Names
<1>2. Init => AllInv
  BY OwnStart, RestStart, ContextStart, ThrownStart
<1>3. AllInv /\ [Next]_vars => AllInv'
  BY OwnStep, RestStep, ContextStep, ThrownStep
<1> QED BY <1>1, <1>2, <1>3, PTL DEF Spec
=============================================================================
