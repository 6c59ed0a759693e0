# A TLA+ model of modbus_gateway

`modbus_gateway` forwards Modbus requests between transports: it is a slave to
the masters that talk to it (TCP clients, or the master of a serial line) and a
master to the devices behind it. This directory holds TLA+ modules of its
actors, the TLC runs that check them on small instances, and proofs of the most
important facts for instances of any size.

Source paths below are relative to `src/` of the repository; `transport/` is
`src/transport/`.

## 1. The system

One process, one `asio::io_context`, one thread that runs it
(`modbus_gateway.cpp:235`). The parts are actors registered in an *exchange*
(a library), which gives each an id and passes messages by calling `Receive` of
the addressee directly.

| Component | State it keeps | Operations | Talks to |
|---|---|---|---|
| `ModbusTcpClient` (TCP master) | `messageQueue_`, `currentMessage_`, `transactionIdGenerator_`, `state_`, socket, timer | `MessageProcess`; handlers of connect, send, wait, receive | slaves (answers), a device |
| `ModbusRtuMaster` (RTU/ASCII master) | `messageQueue_`, `currentMessage_`, serial port, timer | `MessageProcess`; handlers of write, wait, read | slaves (answers), devices on a line |
| `ModbusTcpServer` (TCP slave) | `clientDb_`, acceptor | accept handler, `ClientDisconnect` | exchange, its connections |
| `ModbusTcpConnection` | `id_`, `syncRequestInfo_`, socket | handlers of receive and send, `StartSendTask` | router, masters, its server, a client |
| `ModbusRtuSlave` (RTU/ASCII slave) | `idGenerator_`, `syncRequestInfo_`, serial port | handlers of read and write, `StartWriteTask` | router, masters, the line's master |
| `Router` | one actor id per unit id | `Set`, `Route` | slaves read it |
| Start-up and end (`modbus_gateway.cpp`, `main.cpp`) | lists of masters and slaves, the owners of the actors and of the `io_context`, the exit code | `MakeMasters`, `MakeRouter`, `MakeSlaves`, the handler of the signals, the unwinding of an exception | everything |
| Serial port options (`transport/rtu_options.cpp`) | the options of the line | the constructors of the serial actors | the device |
| Configuration (`config/`) | the extracted values, the path of the place being read | extraction, `Validate` | start-up |
| Messages (`message/`) | source id, transaction id, age | `TimeoutReached` | all actors |
| `LimitQueue` (`common/`) | the queue of a master | `Push`, `Pop` | masters |
| `Synchronized`, logging, command line | | | |

A request travels: client -> connection (stamped with the connection's actor id
and the client's transaction id) -> `Router::Route` -> master (queued, sent with
an id of the master's) -> device -> master (matched with `currentMessage_`) ->
exchange, addressed by the stamp -> connection (compared with
`syncRequestInfo_`) -> client.

What is hard in it:

- *Completions and handlers.* Between the moment the kernel completes an
  operation (or a timer expires) and the moment its handler runs, other
  handlers run and new requests arrive. `cancel()` cannot recall a handler that
  is already queued.
- *Abandoned exchanges.* After a time-out the answer may still come, during the
  next exchange.
- *Several connects at once*, because `state_` does not change when one starts.
- *Early returns and error branches*, which differ in what they reset and in
  whether they look at the queue.
- *Identity.* Actor ids are reused; transaction ids are chosen by clients, wrap,
  and do not exist on a serial line.
- *Widths.* 8-bit unit ids index a table of 255 entries and count a loop;
  numbers of the file are narrowed.
- *The end of the process.* An actor is owned by the lists of
  `ModbusGateway`, by the exchange and, if it is a connection, by its server;
  the `io_context` by a local and by the handler of the signals. Which of them
  goes first depends on whether a signal or an exception ends the run.

`PROJECT.json` lists each hazard with its line and the properties that cover it.

## 2. The modules

| Module | Models | Abstract specification |
|---|---|---|
| `ModbusTcpClient` | `transport/modbus_tcp_client.cpp`, the device, the network, asio below it | `MasterService` |
| `ModbusRtuMaster` | `transport/modbus_rtu_master.cpp`, the serial line and its devices | `MasterService` |
| `ModbusTcpServer` | `transport/modbus_tcp_server.cpp`, `modbus_tcp_connection.cpp`, the id storage of the exchange, the clients | |
| `ModbusRtuSlave` | `transport/modbus_rtu_slave.cpp`, the line and its master | `SlaveSession` |
| `GatewayNode` | the TCP slave, the router and several masters together: it composes `ModbusTcpServer` with one `MasterService` per master | |
| `GatewayRouting` | unit ids in `config/`, `Config::Validate`, `MakeMasters`, `MakeRouter`, `Router::Set` | |
| `GatewayLifecycle` | `ModbusGateway`, `main`, `Start`, `Stop` and the destructors of the actors, the signals, every exception | |
| `ConfigExtraction` | `config/config.cpp` and the extractors: keys, types, ranges, the path of an error | |
| `SerialPortOptions` | `transport/rtu_options.cpp`, the constructors of the serial actors | |
| `LimitQueue` | `common/limit_queue.h` | |
| `MasterService` | what a master promises to slaves: one request on the wire, first come first served, no second answer, no answer to what was given up. With `Exact` (TCP) an answer is that of the request it is given for; without, it may be the answer to a request that was lost earlier | |
| `SlaveSession` | what a slave promises on a line without ids: only the latest request taken is answered, once | |
| `ModbusTcpClientProofs`, `ModbusRtuMasterProofs`, `ModbusTcpServerProofs`, `ModbusRtuSlaveProofs`, `GatewayNodeProofs`, `GatewayRoutingProofs`, `GatewayLifecycleProofs` | theorems about the module each is named for | |
| `SetupProofs` | theorems about `ConfigExtraction`, `SerialPortOptions` and `LimitQueue` | |

`GatewayNode` rests on the refinements: it uses the masters as `MasterService`
allows them to behave, and both masters are proved to implement that service. A
step in which a connection forwards a request is a step of the connection and of
the master at once, since the exchange calls `Receive` directly.

### From the code to the model

*One handler, one action.* A handler of a master holds `m_` from its first
statement to its last, and the exchange calls `Receive` directly, so that a
handler with everything it calls is one step. A member with the suffix `Unsafe`
is an operator over the values its caller has computed so far
(`QueueProcessUnsafe(st, queue, current, conns)`), because TLA+ has no
intermediate states within a step.

*An outstanding asio operation* is a variable: `none`, `pending` (the kernel has
it), `done`, `failed` or `aborted` (completed, its handler still to run). The
`Kernel...` actions complete it, the handler's action takes the result.
`cancel()` turns `pending` into `aborted` and leaves the rest alone. A connect
can be outstanding several times and is counted by outcome. `timer` is the
deadline of `timer_` and `fired` counts the expirations whose handler has not
run, which `timer_.cancel()` no longer reaches.

*A request* is its arrival number. *Time* is `overdue`: how many of the oldest
requests have reached `timeout_`. An exchange's timer starts after its request
was submitted, so `timer = n` means that it expires when request `n`, the last
one submitted at that moment, has reached its age.

*A read* returns one whole frame, something whose check fails (spoilt, a piece,
several frames at once), or something whose size `SetAduSize` refuses. A frame
carries, next to its transaction id, the request whose answer it is (`for`), a
fact the code cannot see and the properties compare with the request it is
delivered for (`to`).

*Owners.* In `GatewayLifecycle` a `shared_ptr` is membership in a set: the lists
of the locals, the storage of the exchange, `clientDb_`. An actor is destroyed
when it leaves the last of them, and the context when neither the local nor the
handler of the signals holds it. The order of the locals' destructors is that of
their declarations reversed, normally and while an exception unwinds.

*Reading the file.* `ConfigExtraction` keeps what the nested functions have
still to do in `todo`, so that a `TraceDeep` is an item where it is made and an
item where it goes, and the rest of a loop over an array is one item. Each item
carries the place in the file it belongs to, `tracePath` is what the
constructors and destructors have made of it, and `PathIsPlace` compares the
two. The file is not a constant: what is there is chosen when it is read, which
covers every file within the bounds.

*History variables* (`delivered`, `written`, `got`, `abandoned`, `answered`,
`latest`, `given`, `last`) record what happened; no guard reads them.

*Exceptions.* `remote_endpoint()` in the log statements of the accept and
connect handlers throws on a connection that has already been reset; nothing
catches it below `main`. `running` becomes FALSE and no handler runs any more.

*Variants.* Operators marked "Variant" are not part of the model. Each is a
definition with a plausible mistake (a guard dropped, a reset missing, an order
swapped); `PROJECT.json` names for each property a variant under which TLC finds
it violated.

## 3. The runs

All are exhaustive within their bounds. Deadlock is not checked, because a
bounded number of requests is used up, or the process ends, and the system then
rests.

| Run | Module, bounds | Shows |
|---|---|---|
| `tcp_client` | `ModbusTcpClient`, 3 requests, ids modulo 3 | types; `AnswerMatches`, `AnswersInOrder`, `ExchangeOwnsSocket`, `ConnectedHasSocket`, `WedgedOnlyByShortFrame`, `QueueAbandonedOnlyOnError`; with fairness `ExchangeEnds`, `QueueMoves`; implements `MasterService` |
| `tcp_client_one_connect` | 2 requests | **violated**: `AtMostOneConnect` |
| `tcp_client_recovers` | 2 requests | **violated**: `NeverWedged` |
| `rtu_master` | `ModbusRtuMaster`, 3 requests | types; `MatchesUntilAbandoned`, `AnswersInOrder`, `ExchangeOwnsPort`, `WedgedOnlyByShortFrame`, `QueueAbandonedOnlyOnError`; with fairness `ExchangeEnds`, `QueueMoves`; implements `MasterService` |
| `rtu_master_late_answer` | 2 requests | **violated**: `AnswerMatches` |
| `tcp_server` | `ModbusTcpServer`, 2 clients, 3 requests, 2 actor ids, 2 transaction ids | types; `RegistryAgrees`, `ForeignAnswerNeedsReuse`, `LatestRequestAnswered`; with fairness `DisconnectCleansUp` |
| `rtu_slave` | `ModbusRtuSlave`, 4 requests, ids modulo 4 | types; `LineDrained`; implements `SlaveSession` |
| `gateway_node` | `GatewayNode`, 2 clients, 2 requests, 2 actor ids, 2 transaction ids, a TCP and an RTU master | `GetsItsAnswer` |
| `gateway_routing` | `GatewayRouting`, 3 masters, 2 ranges a master and 3 in all, 4 unit ids | types; `DefaultIsFirst`, `RouteAsConfigured`, `SetInBounds`; with fairness `StartupEnds` |
| `gateway_lifecycle` | `GatewayLifecycle`, 2 masters, 3 slaves of which 2 TCP servers, 2 connections | types; `DanglingOnlyAfterSignal`, `NothingLeft`, `FailureReported`; with fairness `SignalEnds` |
| `lifecycle_shutdown` | 2 masters, 2 slaves, 1 connection | **violated**: `ActorsDieBeforeContext` |
| `config_extraction` | `ConfigExtraction`, numbers -1, 0, 1, 1.5, 2, 5, 8, 9, 20, 21; arrays of up to 2 elements | `PathIsPlace`, `RangedNumberKept` |

*Why the bounds are enough.* With three requests a master has one in exchange,
one that arrives meanwhile and one after a failure; every defect found shows
with two. The ids wrap within the bound (modulo 3 with three requests), while no
id is given twice, as is the case in the code until 65536 exchanges have passed.
Two clients and two ids let an id be reused with either client present; three
requests give a pipelined request, a retry with the same transaction id, and one
of the other client. In `gateway_node` two requests suffice to swap two answers,
of one client or of two, at one master or at two; a third only makes the state
space too large. Of four unit ids one is below the legal ones, one above,
and two legal ones make every shape of range (one id, ascending, descending,
overlapping). In `gateway_lifecycle` there is an actor of each kind before and
after each place that throws, and a second TCP server so that the end of one
leaves the other. The numbers of `config_extraction` are a negative one, zero, a
fraction, each limit and the next one, and two that only a word holds, one of which
narrows to a character size (a word is 32, an `unsigned int` 16, the greatest port 9,
the unit ids 1 to 5); two elements give a
loop that comes around.

The bounds (`MaxMessages`, `MaxRequests`, `MaxClients`, `MaxElements`, ...) are
constants of the modules. The proofs hold for any value of them.

### The four violations

- `AtMostOneConnect`: `StartConnectTaskUnsafe` leaves `state_` at `Idle`, so a
  request that arrives during a connect starts another. `State::WaitConnect`
  and its branch in `QueueProcessUnsafe` are there for this case and are never
  reached. The other properties of `tcp_client` hold all the same: the
  stale handlers do not break an exchange.
- `NeverWedged`: after a read of a refused size `currentMessage_` stays occupied
  for ever. `WedgedOnlyByShortFrame` shows that this is the only way.
- `AnswerMatches` of the RTU master: the line has no transaction ids and
  `MakeResponse` compares nothing, so after one time-out a late answer is given
  to the next request. `MatchesUntilAbandoned` shows that nothing goes wrong
  before the first abandoned exchange.
- `ActorsDieBeforeContext`: the `io_context` is declared after the exchange
  (`modbus_gateway.cpp:193`), so that after a signal it is destroyed before
  the actors whose sockets and timers belong to it. `DanglingOnlyAfterSignal`
  shows that the regular end is the only one: when an exception ends the run,
  the handler of the signals is never destroyed and the context with it.

Disagreements that are not stated as runs:

- `README.md:51` describes `threads` as the threads used, while one thread calls
  `run()` (`modbus_gateway.cpp:193,235`).
- `README.md:71` offers `rs485` for slaves, while the constructor of
  `ModbusRtuSlave` (`modbus_rtu_slave.cpp:24-29`) does not apply it.
- A `timeout_ms` of -1 is accepted and is -1 ms (`extractor.h:59-61`,
  `master_config.cpp:9`): the number wraps to a `uint64_t` and back.
- A `character_size` of 2^32 + 8 is accepted as 8, and a `baud_rate` is taken modulo
  2^32 (`extractor.cpp:164,169`): a `size_t` is narrowed to the `unsigned int` of asio
  before asio looks at it. No document states a range for either.
- The README names the key `uint_id`; the code reads `unit_id`.
- `LimitQueue` holds one element more than its limit.
- A late answer to a client that has gone reaches the client that got its actor
  id, if both used the same transaction id; `ForeignAnswerNeedsReuse` shows that
  this is the only way.

### Fairness

Safety properties use none. For the masters' liveness the `io_context` runs a
handler that is ready, the kernel completes a connect, a send or a write, time
passes, and a timer that is due expires. No read is assumed to complete, no
device to answer, no client to send: what ends an exchange must be the gateway's
own timer. For the TCP server and the RTU slave the kernel also reports what is
there to read. `GatewayRouting` and `GatewayLifecycle` assume that a running
program takes its next step, and the latter that the handler of a signal that
has come is run; signals and exceptions are never assumed.

The liveness properties of the masters have escapes: `Wedged` (above),
`~running`, and for a queued request `Unattended`: after an error or a time-out
no handler looks at the queue until another request arrives.
`QueueAbandonedOnlyOnError` shows that only those handlers leave it so.

### Assumptions about what is outside `src/`

The exchange gives a free id, perhaps a used one, finds an actor by id, and
destroys what it holds in any order. asio reports each operation once, in the
order completed or later; a connect on a connected or connecting socket fails,
or reports the success of the attempt the reactor has not collected. A call
that sets options of a serial port may fail, and throws. The
JSON library says whether a key is there and of which type, and its numbers are
`uint64_t`, `int64_t`, or fractions that a `uint64_t` holds when cut off (the
conversion of any other is undefined). `GatewayRouting`
takes `modbus::unitIdMin` and `unitIdMax` as constants; the run has `unitIdMax`
below the greatest 8-bit value. Were it 255, the loop of `MakeRouter` over a
range that ends there would not end and would write beyond the table: this is
what the variant `UnitIdAcceptedByWidth` exhibits, and why the theorems on the
table assume `UnitIdMax < UnitMod - 1`.

## 4. The proofs

For any value of the constants, under the assumptions each theorem names. Each
proof module proves one inductive invariant in layers: a layer is a conjunction
that is inductive once the layers before it are known, with one lemma for its
step and one case per action.

`ModbusTcpClientProofs`:

- `TypeCorrect`, `SocketOwned` (`ExchangeOwnsSocket`). The two are inductive only
  together (`TypeInv`): what `KernelSends` puts on the wire is a request because
  a send is outstanding only while `currentMessage_` is occupied. As
  `async_send` keeps no reference to its buffer, this is also what keeps the
  buffer alive until the send is handled.
- `AnswersMatch`: `AnswerMatches`, when there are fewer requests than ids
  (`NoWrap`). `IdInv` strengthens it to everything in flight: each request at
  the device and each frame on its way carries an id that has been given out,
  and if it is the id of the exchange in progress then it belongs to that
  exchange.
- `SocketOpenWhenConnected` (`ConnectedHasSocket`). `SocketInv` adds that the
  socket is open as long as a send or a receive is outstanding, whose handler
  goes back to `Connected` without looking.
- `OnlyShortFrameWedges` and `AttentionLostOnlyOnError`. `StateInv` says that
  `state_` is `MessageProcess` only with a current message and never
  `WaitConnect`, so that a call of `QueueProcessUnsafe` leaves nothing unattended.
- `AnsweredInOrder` (`AnswersInOrder`). `OrderInv` orders everything: what has
  been delivered is before the current message, and that before the queue.

- `ClientImplementsService` (`ImplementsService`), under `NoWrap`: the master
  implements `MasterService` with `Exact`. `StatusOf` reads the state of a request
  off the place it is in: not yet submitted, in the queue, current, delivered, or
  in none of them, which is `lost`. `PlacesApart` says that the places exclude each
  other, `AnswersKnown` that a request is delivered once, so that the answer given
  to it is known. Every handler is then one step of the service (`ServiceStep`): a
  submission moves a request from `new` to `waiting` or, when it is sent
  at once, to `serving`; a call of `QueueProcessUnsafe` drops the oldest ones and
  takes the next; an error or a time-out loses the current one; an
  answer that `MakeResponse` takes is given to it, and is its own by
  `AnswerMatches`; whatever else happens is a stutter.

`QueueOutcome` reduces every call of `QueueProcessUnsafe` to three outcomes
(kept, everything expired, one taken), so that the cases need not look into it.

`ModbusRtuMasterProofs`: `TypeCorrect`, `PortOwnedByExchange`,
`OnlyShortFrameWedges`, `AttentionLostOnlyOnError`, `AnsweredInOrder` along the
same lines, and `AnswersMatchUntilAbandoned` (`MatchesUntilAbandoned`):
`LineClean` says that everything on the line belongs to the exchange in progress,
and that once its whole answer has come nothing is left; `MatchInv`, that it
holds together with `AnswerMatches` while nothing has been abandoned.
`MasterImplementsService` (`ImplementsService`, without `Exact`) needs no bound on
the requests. An answer may be that of another request, but only of one that was
lost before and has not been given away: `FreshInv` says that everything on the line
was taken from the queue, has not been given to anybody, and is not there twice.

`ModbusTcpServerProofs`: `TypeCorrect`, `RegistriesAgree`,
`ForeignAnswersNeedReuse`. `ServerInv` adds to the types that a client waits to be
accepted once (`BacklogInv`), that what a connection reads and waits for was sent
by its own client (`RequestInv`), and that a request which was read carries the
actor id its client has or had (`SourceInv`). With `RegistryAgrees`, two clients
that are open never share an id: a shared one was reused. `LatestIsAnswered`
(`LatestRequestAnswered`) is an action property. `ReadInv` says that what a client
has sent and its connection has not read is later than all it has read, in order;
with it, `WaitInv` is inductive: the connection waits for the last request it has
read, or has written an answer with its transaction id.

`ModbusRtuSlaveProofs`:

- `SlaveTypeCorrect`: inductive only together with `LineInOrder`: what is read
  is newer than `latest`, and what is still on the line is newer than what is
  read, so that `atMasters` never holds a request that has not been stamped.
- `SlaveImplementsSession`: the slave implements `SlaveSession` when there are
  at most as many requests as ids (`FewRequests`, the boundary the run
  `rtu_slave` is at). `OnlyLatestMatches` says that the id in `syncRequestInfo_`
  is the last one given and that a request still held which carries it is the
  latest; `IdsGiven`, that the ids given are 1, 2, ... until the last request,
  makes it inductive: the next id is then new, also where `GetNextId` wraps to
  0. A read maps to `Take`, a matching answer to `Answer`, all else to a
  stutter. Beyond those bounds the code gives no guarantee: an answer held back
  while all the ids are given out once matches again.

`GatewayNodeProofs`: `ClientsGetTheirAnswers` (`GetsItsAnswer`), for any number of
clients, requests and masters of either kind. A step of the node is a step of
`ModbusTcpServer` or leaves it alone (`SlaveSteps`), so that the invariants of
`ModbusTcpServerProofs` hold here too (`SlaveInv`). `MasterInv` is what the service
promises, kept over time: a master gives every request its own answer, or is one
without transaction ids and has lost a request. `GotInv` joins the two: an answer
that is written ended the wait for a request of that client with its transaction
id, no later answer ends it again, and its content is that of the stamp unless
the master has lost a request. With `ClientImplementsService` and
`MasterImplementsService` below it, this carries from client to device and back.

`GatewayRoutingProofs`: `TypeCorrect`, `DefaultMasterFirst` (`DefaultIsFirst`),
and, when the greatest legal unit id is below the greatest value of its type
(`NoWrap`), `WritesInBounds` (`SetInBounds`) and `RoutedAsConfigured`
(`RouteAsConfigured`). `ConfigInv` is what the extraction and `Validate` leave,
`MasterInv` what `MakeMasters` makes of it, `LoopInv` and `CountInv` the bounds of
the counters, and `RouteInv` the loop invariant of `MakeRouter`: an entry of the
table is that of the last master to claim it so far, or the default.

`GatewayLifecycleProofs`: `TypeCorrect`, `ContextOutlivesActorsOnError`
(`DanglingOnlyAfterSignal`), `FailuresReported` (`FailureReported`), `NobodyLeft`
(`NothingLeft`). `LocalsInv` says which locals exist at each point of the program,
`ContextInv` that the handler of the signals holds the context until it has run,
`ThrownInv` that nothing is thrown after that, `HeldInv` who may own an actor and
that a connection's server exists, and `ListsInv` that a list which is gone
owns nobody.

`SetupProofs`:

- `NumbersInRangeKept` (`RangedNumberKept`). A fraction is cut off and a negative
  number wraps to at least half of 2^64, beyond every range (`ExtractionAssumption`),
  so that what is in the range is the number of the file and survives the cast.
- `PathIsWhereItReads` (`PathIsPlace`), for files of any size. `PathInv`: the items of
  `todo` lead from `tracePath` to the root, each starting at the place where
  the one before it ends (`Leads`). A read that returns puts items in front which
  lead from its place back to the same place, whatever it found.
- `SerialLineAsConfigured` (`LineAsConfigured`), whichever call may fail: when the
  constructor of a serial actor returns, each of the five options of the line has
  the configured value, or asio's default; if the actor is a master whose
  configuration has rs485, RS485 is enabled and each rs485 key that is given has its
  value. `LineSoFar` is the loop invariant of the calls of `set_option`, `Progress` what
  has been done to the rs485 state of the device. `OtherOptionsFromDevice`: an rs485
  key that the configuration does not name stays that of the device.
- `QueueBounded`, `QueueKeepsNewest`, and `QueueLosesNothing`, which the models of the
  masters rely on.

`SerialPortOptions` and `LimitQueue` are proved and not run: their theorems need
no bound, and take the assumption on their constants as a hypothesis.

Every invariant, action property and refinement that a passing run checks is
stated by a theorem. Only the liveness properties are model-checked and not
proved: `ExchangeEnds`, `QueueMoves`, `DisconnectCleansUp`, `LineDrained`,
`StartupEnds`, `SignalEnds`. They rest on fairness, hence on ENABLED, which is out
of the prover's reach here. The refinements are of the safety parts, which is
all that `MasterService` and `SlaveSession` state. That `GatewayNode` may use
a service in the place of a master is an argument about two modules: the proofs
show that each master implements the service and that the node with the service
is right, not a theorem about the node with the master's own variables.

## 5. Not modelled

- Frames as bytes, the conversions between TCP, RTU and ASCII, and checksums:
  the codec is a library; a frame is what its checks say of it.
- Partial sends and writes, except that a request may not reach a device in full.
- The text of the configuration file, whose parser is a library, and the default
  values of keys that are absent. `config/validators.cpp` is not compiled.
- Logging and the details of the command line: no state. That a log statement
  calls `remote_endpoint()`, which throws, is modelled.
- `Synchronized`: a mutex with its value, each use of which is within one
  handler, hence within one step.
- What `Route` returns for a unit id outside the table: undefined. The unit id
  of a request is a free choice of a master, or of none.
- The race on a serial line between the answer to one request and the next
  request of the line's master: no check of the slave could decide it.

## 6. Plan

Done: the four actors, the composition of the TCP slave with its masters, the
start-up and the end of the process, the routing, the reading of the
configuration, two abstract services, and the theorems above. Left, in this
order:

1. The serial slave beside the TCP slave in `GatewayNode`, by way of
   `SlaveSession`, whose refinement is proved.
2. The full turn of the ids: `AnswersMatch` and `ClientImplementsService` under the
   hypothesis that no answer is late by as many exchanges as there are ids, in the
   place of `NoWrap`, so that they hold for a master of any age.
3. Action properties worth a theorem, such as that a request a master has lost
   is never answered later, which `ImplementsService` implies.
4. Shorter proofs where several modules repeat an argument: the three outcomes
   of `QueueProcessUnsafe` serve both masters.
