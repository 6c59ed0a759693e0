-------------------------- MODULE GatewayLifecycle --------------------------
(***************************************************************************)
(* The life of the process: main, ModbusGateway (modbus_gateway.cpp) and   *)
(* the constructors and destructors of the actors.                         *)
(*                                                                         *)
(* Every actor is reference counted: the exchange holds it, so does a list *)
(* in ModbusGateway, and a connection is also held by the clientDb_ of its *)
(* server.  An actor's socket or port belongs to a service of the          *)
(* io_context and must be destroyed before it, but no actor holds the      *)
(* context: the local of ModbusGateway does, and the handler that waits    *)
(* for a signal.  Locals are destroyed in the reverse order of their       *)
(* construction, when the function returns and when an exception leaves    *)
(* it.                                                                     *)
(***************************************************************************)
EXTENDS Naturals, Sequences, SequencesExt, FiniteSets

CONSTANTS
  Masters,      \* config.masters
  Throwing,     \* the masters whose constructor may throw: RtuMaster
  Slaves,       \* config.slaves
  TcpServers,   \* those of type TcpServer
  Clients       \* TCP connections that may be accepted

ASSUME LifecycleAssumption ==
  /\ IsFiniteSet(Masters) /\ Throwing \subseteq Masters /\ Masters # {}
  /\ IsFiniteSet(Slaves) /\ TcpServers \subseteq Slaves /\ Slaves # {}
  /\ Masters \cap Slaves = {} /\ Clients \cap (Masters \cup Slaves) = {}

Actors == Masters \cup Slaves \cup Clients

(* What may hold an actor, *)
OwnersOf(a) == {"exchange", IF a \in Masters THEN "masters"
                            ELSE IF a \in Slaves THEN "slaves" ELSE "clientDb"}
(* and what may hold the context. *)
ContextOwners == {"local", "handler"}

VARIABLES
  pc,         \* where the thread is
  locals,     \* locals of ModbusGateway, in the order of their construction
  exchange,   \* the state of the Exchange
  refs,       \* the owners of each actor; an actor without one does not exist
  server,     \* the server that has each connection in its clientDb_
  context,    \* the owners of the io_context
  started,    \* the slaves whose Start has been called
  signal,     \* the signal and its handler
  thrown,     \* whether an exception is being thrown
  rc,         \* rc of main
  orphaned    \* history: the actors destroyed when the context was not there

vars == <<pc, locals, exchange, refs, server, context, started, signal,
          thrown, rc, orphaned>>

actors == <<refs, server, orphaned>>

Made(S) == {a \in S : refs[a] # {}}

TypeOK ==
  /\ pc \in {"main", "context", "masters", "slaves", "start", "run", "unwind", "returned", "end"}
  /\ locals \in Seq({"exchange", "context", "signalSet", "masters", "slaves"})
  /\ exchange \in {"none", "alive", "destroyed"}
  /\ DOMAIN refs = Actors /\ \A a \in Actors : refs[a] \subseteq OwnersOf(a)
  /\ server \in [Clients -> TcpServers]
  /\ context \subseteq ContextOwners
  /\ started \subseteq Slaves
  /\ signal \in {"default", "awaited", "raised", "handled"}
  /\ thrown \in BOOLEAN
  /\ rc \in {"success", "failure"}
  /\ orphaned \subseteq Actors

Init ==
  /\ pc = "main"
  /\ locals = <<>>
  /\ exchange = "none"
  /\ refs = [a \in Actors |-> {}]
  /\ server \in [Clients -> TcpServers]
  /\ context = {}
  /\ started = {}
  /\ signal = "default"
  /\ thrown = FALSE
  /\ rc = "success"
  /\ orphaned = {}

(* An exception leaves the function that runs. *)
Throw == pc' = "unwind" /\ thrown' = TRUE
-----------------------------------------------------------------------------
(***************************************************************************)
(* The destruction of an actor.  A server's destructor stops its           *)
(* connections, deletes them from the exchange if exchange_ can still be   *)
(* locked, and clears clientDb_; afterwards its acceptor and their sockets *)
(* are gone.                                                               *)
(***************************************************************************)

(* The owners after ModbusTcpServer::Stop of the servers S. *)
StopServers(S, held) ==
  [a \in Actors |->
     IF a \in Clients /\ server[a] \in S
     THEN held[a] \ ({"clientDb"} \cup IF exchange = "alive" THEN {"exchange"} ELSE {})
     ELSE held[a]]

(* Owner o releases the actors S; whoever has no owner left is destroyed.  *)
Release(S, o) ==
  LET held == [a \in Actors |-> IF a \in S THEN refs[a] \ {o} ELSE refs[a]]
      ends == {s \in TcpServers : refs[s] # {} /\ held[s] = {}}
  IN  /\ refs' = StopServers(ends, held)
      /\ orphaned' = orphaned \cup
           {a \in Actors : context = {} /\ refs[a] # {} /\ refs'[a] = {}}
      /\ UNCHANGED server
-----------------------------------------------------------------------------
(***************************************************************************)
(* Start-up.                                                               *)
(***************************************************************************)

(* Variant: main reports an exception and returns rc as it was. *)
CaughtWithoutRc(ok) == rc

(* The catch clauses of main. *)
Caught(ok) == IF ok THEN rc ELSE "failure"

(* The command line, Config and Validate: the gateway starts, or main ends *)
(* after the help, or with an error.                                       *)
ReadConfig ==
  /\ pc = "main"
  /\ \/ pc' = "context" /\ UNCHANGED rc
     \/ pc' = "end" /\ \E ok \in BOOLEAN : rc' = Caught(ok)
  /\ UNCHANGED <<locals, exchange, actors, context, started, signal, thrown>>

(* Variant: the handler refers to the context without holding it. *)
WaitingHandlerWithoutContext == {"local"}

(* The lambda of signalSet.async_wait holds the context. *)
WaitingHandler == {"local", "handler"}

(* The first statements of ModbusGateway. *)
MakeContext ==
  /\ pc = "context"
  /\ pc' = "masters"
  /\ locals' = <<"exchange", "context", "signalSet", "masters">>
  /\ exchange' = "alive"
  /\ context' = WaitingHandler
  /\ signal' = "awaited"
  /\ UNCHANGED <<actors, started, thrown, rc>>

(* One iteration of MakeMasters; *)
MakeMaster(a) ==
  /\ pc = "masters"
  /\ refs[a] = {}
  /\ \/ /\ refs' = [refs EXCEPT ![a] = {"exchange", "masters"}]
        /\ UNCHANGED <<pc, thrown>>
     \/ a \in Throwing /\ Throw /\ UNCHANGED refs
  /\ UNCHANGED <<locals, exchange, server, orphaned, context, started, signal, rc>>

(* its end, and MakeRouter. *)
MakeRouter ==
  /\ pc = "masters"
  /\ Made(Masters) = Masters
  /\ pc' = "slaves"
  /\ locals' = Append(locals, "slaves")
  /\ UNCHANGED <<exchange, actors, context, started, signal, thrown, rc>>

(* Variant: the slave is put into the list of the masters. *)
MakeSlaveAmongMasters(a) ==
  /\ pc = "slaves"
  /\ refs[a] = {}
  /\ refs' = [refs EXCEPT ![a] = {"exchange", "masters"}]
  /\ UNCHANGED <<pc, locals, exchange, server, orphaned, context, started, signal, thrown, rc>>

(* One iteration of MakeSlaves: the address may be in use, the device may  *)
(* be missing or refuse an option;                                         *)
MakeSlave(a) ==
  /\ pc = "slaves"
  /\ refs[a] = {}
  /\ \/ /\ refs' = [refs EXCEPT ![a] = {"exchange", "slaves"}]
        /\ UNCHANGED <<pc, thrown>>
     \/ Throw /\ UNCHANGED refs
  /\ UNCHANGED <<locals, exchange, server, orphaned, context, started, signal, rc>>

(* its end. *)
MakeSlaves ==
  /\ pc = "slaves"
  /\ Made(Slaves) = Slaves
  /\ pc' = "start"
  /\ UNCHANGED <<locals, exchange, actors, context, started, signal, thrown, rc>>

(* The loop that calls Start, and io_context::run. *)
Start(a) ==
  /\ pc = "start"
  /\ started' = started \cup {a}
  /\ pc' = IF started' = Slaves THEN "run" ELSE "start"
  /\ UNCHANGED <<locals, exchange, actors, context, signal, thrown, rc>>
-----------------------------------------------------------------------------
(***************************************************************************)
(* Handlers that io_context::run calls.                                    *)
(***************************************************************************)

(* The accept handler: remote_endpoint() may throw before the connection   *)
(* is made, and in its Start, when both the exchange and clientDb_ have it. *)
Accept(c) ==
  /\ pc = "run"
  /\ server[c] \in started
  /\ refs[c] = {}
  /\ \/ /\ refs' = [refs EXCEPT ![c] = {"exchange", "clientDb"}]
        /\ \/ Throw
           \/ UNCHANGED <<pc, thrown>>
     \/ Throw /\ UNCHANGED refs
  /\ UNCHANGED <<locals, exchange, server, orphaned, context, started, signal, rc>>

(* ModbusTcpServer::ClientDisconnect. *)
ClientDisconnect(c) ==
  /\ pc = "run"
  /\ refs[c] # {}
  /\ refs' = [refs EXCEPT ![c] = @ \ {"exchange", "clientDb"}]
  /\ UNCHANGED <<pc, locals, exchange, server, orphaned, context, started, signal, thrown, rc>>

(* The connect handler of a TCP master throws. *)
ConnectThrows ==
  /\ pc = "run"
  /\ Masters # Throwing
  /\ Throw
  /\ UNCHANGED <<locals, exchange, actors, context, started, signal, rc>>

(* Variant: the handler does not stop the context. *)
HandleSignalGoesOn ==
  /\ pc = "run"
  /\ signal = "raised"
  /\ signal' = "handled"
  /\ context' = context \ {"handler"}
  /\ UNCHANGED <<pc, locals, exchange, actors, started, thrown, rc>>

(* The signal handler stops the context, run returns, and the handler is   *)
(* gone with its hold on the context.                                      *)
HandleSignal ==
  /\ pc = "run"
  /\ signal = "raised"
  /\ signal' = "handled"
  /\ context' = context \ {"handler"}
  /\ pc' = "unwind"
  /\ UNCHANGED <<locals, exchange, actors, started, thrown, rc>>
-----------------------------------------------------------------------------
(***************************************************************************)
(* The end of ModbusGateway.                                               *)
(***************************************************************************)
AtLocal(x) == pc = "unwind" /\ locals # <<>> /\ Last(locals) = x

(* The destructor of a list of masters or slaves. *)
DestroyList(x) ==
  /\ AtLocal(x)
  /\ locals' = Front(locals)
  /\ Release(Masters \cup Slaves, x)
  /\ UNCHANGED <<pc, exchange, context, started, signal, thrown, rc>>

(* The destructor of signalSet cancels the wait.  A handler that has not   *)
(* run is queued in the context, which nobody runs.                        *)
DestroySignalSet ==
  /\ AtLocal("signalSet")
  /\ locals' = Front(locals)
  /\ UNCHANGED <<pc, exchange, actors, context, started, signal, thrown, rc>>

(* The last owner of the context destroys it, and with it the handlers     *)
(* still queued; those hold the actors weakly.                             *)
DestroyContext ==
  /\ AtLocal("context")
  /\ locals' = Front(locals)
  /\ context' = context \ {"local"}
  /\ UNCHANGED <<pc, exchange, actors, started, signal, thrown, rc>>

(* Variant: the actors hold the exchange. *)
DestroyExchangeIfUnused ==
  /\ AtLocal("exchange")
  /\ exchange = "alive"
  /\ exchange' = IF Made(Actors) = {} THEN "destroyed" ELSE "alive"
  /\ locals' = Front(locals)
  /\ pc' = "returned"
  /\ UNCHANGED <<actors, context, started, signal, thrown, rc>>

(* The actors hold the exchange weakly: exchange_ cannot be locked from    *)
(* here on, *)
DestroyExchange ==
  /\ AtLocal("exchange")
  /\ exchange = "alive"
  /\ exchange' = "destroyed"
  /\ UNCHANGED <<pc, locals, actors, context, started, signal, thrown, rc>>

(* while the storage releases what it holds, in the order of its hash      *)
(* table.                                                                  *)
DestroyStorage ==
  /\ AtLocal("exchange")
  /\ exchange = "destroyed"
  /\ \/ /\ \E a \in Actors : "exchange" \in refs[a] /\ Release({a}, "exchange")
        /\ UNCHANGED <<pc, locals>>
     \/ /\ \A a \in Actors : "exchange" \notin refs[a]
        /\ locals' = Front(locals)
        /\ pc' = "returned"
        /\ UNCHANGED actors
  /\ UNCHANGED <<exchange, context, started, signal, thrown, rc>>

(* main after ModbusGateway. *)
ReturnFromMain ==
  /\ pc = "returned"
  /\ pc' = "end"
  /\ rc' = Caught(~thrown)
  /\ UNCHANGED <<locals, exchange, actors, context, started, signal, thrown>>
-----------------------------------------------------------------------------
(* A signal of signalSet; one that comes before the reactor runs waits.    *)
Signal ==
  /\ signal = "awaited"
  /\ pc # "end"
  /\ signal' = "raised"
  /\ UNCHANGED <<pc, locals, exchange, actors, context, started, thrown, rc>>

Main ==
  \/ ReadConfig \/ MakeContext
  \/ \E a \in Masters : MakeMaster(a)
  \/ MakeRouter
  \/ \E a \in Slaves : MakeSlave(a)
  \/ MakeSlaves
  \/ \E a \in Slaves : Start(a)
  \/ DestroyList("slaves") \/ DestroyList("masters")
  \/ DestroySignalSet \/ DestroyContext \/ DestroyExchange \/ DestroyStorage
  \/ ReturnFromMain

Handlers ==
  \/ \E c \in Clients : Accept(c) \/ ClientDisconnect(c)
  \/ ConnectThrows

Next == Main \/ Handlers \/ HandleSignal \/ Signal

Spec == Init /\ [][Next]_vars

(* The thread runs, and the context runs a handler that is ready. *)
FairSpec == Spec /\ WF_vars(Main) /\ WF_vars(HandleSignal)
-----------------------------------------------------------------------------
(***************************************************************************)
(* Properties.                                                             *)
(***************************************************************************)

(* An actor, whose destructor cancels and closes its socket or port, is    *)
(* destroyed while the io_context is there: the order the test fixtures    *)
(* keep.                                                                   *)
ActorsDieBeforeContext == orphaned = {}

(* Only the regular end destroys them in the wrong order.  After an        *)
(* exception the handler that waits for a signal is never destroyed and    *)
(* keeps the context alive.                                                *)
DanglingOnlyAfterSignal == orphaned # {} => signal = "handled" /\ ~thrown

(* No actor outlives main: no cycle of owners keeps one, whichever         *)
(* constructor or handler threw and in whatever order the storage releases *)
(* servers and their connections.                                          *)
NothingLeft == pc = "end" => \A a \in Actors : refs[a] = {}

(* A failure in any constructor or handler reaches the exit code.          *)
FailureReported == pc = "end" /\ thrown => rc = "failure"

(* A signal ends the process, whenever it comes.                           *)
SignalEnds == (signal = "raised") ~> (pc = "end")
=============================================================================
