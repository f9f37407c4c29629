# EminentFeedSystem in TLA+

EminentFeedSystem is a C++ library that gives an application connections to
other devices over an unreliable datagram service.  This directory holds a
formal model of it: TLA+ modules written from the source, TLC runs that check
them on small instances, and TLAPS proofs of what matters most for every
instance.  Line numbers below are those of the repository.

## 1. The system

One device is one `EminentSdk` object with a stack of layers below it.  A
message goes down one stack and up another:

```
 application
   |  connect / send / disconnect / shutdown        callbacks ^
 EminentSdk            recursive mutex_, heartbeat thread     |
   |  outgoingQueue_                      onMessageReceived ^
 SessionManager        queueMutex_, worker thread             |
   |  outgoingPackages_                      receivePackage ^
 TransportLayer        worker thread                          |
   |  outgoingFrames_                          receiveFrame ^
 CodingModule          worker thread                          |
   |  outgoingFrames_                   receiveFrameWithCrc ^
 PhysicalLayer         worker thread (UDP, in memory, ESP32)  |
   +----------------- network or shared medium ---------------+
```

Downwards every arrow is a queue that a worker thread polls; upwards every
arrow is a call, so that everything that happens to a received frame, the
application's callbacks included, runs on the worker of the physical layer.

| component | state | operations | hard behaviour | correct when |
|---|---|---|---|---|
| `SessionManager` | SDK queue, `pendingMessages_`, `packageToMessage_`, `receivedPackages_`, id counters, retransmission configuration | a pass of the worker (drain, retransmit, callbacks); `receivePackage`, `handleAckPackage`, `setRetransmissionConfig` | two threads under one mutex; loss, duplication, reordering; retries against late acknowledgements; ids that run out | a message has one outcome; "delivered" is only said of what arrived; what is handed up is what was sent; every message is resolved |
| `EminentSdk`, connections | `connections_`, `heartbeats_`, `pendingHandshakes_`, `nextConnectionId_`, `shutdownRequested_` | `connect`, `disconnect`, `close`, `shutdown`, six handlers, the heartbeat thread | handshakes that cross, repeat or time out; ids made of two primes; three tables that must agree | a connect is answered once; two sessions are not taken for one; closed ids stay closed |
| `EminentSdk`, data and encryption | handlers, default priorities, `cryptoModule_`, keys, flags | `send`, `sendBinary`, JSON and VIDEO handlers, key management | keys, modules and flags that change while messages are under way; data before the connection is known | what is handed up is what was sent, as long as both ends are ready for the change; who waits for the connection is heard |
| `EminentSdk`, life cycle | `initialized_`, threads, order of members | construction, `initialize`, `shutdown`, destruction | calls from callbacks; joins; destruction while a handler runs | no circle of threads waits; no callback destroys what a frame of some stack uses; the end of a connection is told once |
| `TransportLayer`, `CodingModule` | a queue and a worker each | serialize, add the CRC, check it, deserialize | an exception ends the worker | everything that may be sent passes; order is kept |
| `PhysicalLayerInMemory` | the shared medium: participants, entries, who has taken them | passes of the worker, register, unregister | devices that come, go and fail while others read | every participant gets every frame once, in order |
| `PhysicalLayerUdp`, `PhysicalLayerEsp32Wifi` | a socket, an error counter, `stopWorker_` | passes of the worker, destruction | full buffers that put frames back, errors, pauses, damaged datagrams, a queue that never empties | the worker survives all but a frame that is too long; frames are sent once or dropped; once the traffic ceases the worker comes back to receiving, and stops |
| `ValidationConfig` | field widths | stateless checks and sizes | boundaries | all layers agree on the sizes |
| `ThreadSafeQueue` | a queue | `push`, `tryPop` | -- | atomic |
| logging, `app/`, `examples/` | -- | -- | -- | not modelled (section 7) |

## 2. The modules

| module | models |
|---|---|
| `SessionManager` | the session managers of all devices over a network that delays, reorders, loses and duplicates |
| `ReliableDelivery` | what a sender may expect: every tracked message is confirmed or abandoned, finally, and confirmed only after it arrived |
| `SessionInvariant` | the inductive invariants of `SessionManager` |
| `SessionSafetyProofs`, `SessionOutcomeProofs` | the theorems about `SessionManager`: its types; what an acknowledgement proves; outcomes, reassembly and the refinement |
| `EminentSdk` | the connection protocol: connect, three-way handshake, timeouts, heartbeats, disconnect, shutdown |
| `SdkInvariant`, `SdkProofs` | the inductive invariant of `EminentSdk` and the theorems about it |
| `FramePipeline` | transport layer, coding module, in-memory physical layer and medium, with devices that are destroyed and constructed again |
| `PipelineInvariant`, `PipelineProofs` | the inductive invariant of `FramePipeline` and the theorems about it |
| `UdpPhysicalLayer` | the physical layers over UDP, of a computer and of the ESP32, their sockets and the network |
| `DatagramService` | what the session manager takes all below it for: only what was posted is delivered, any number of times, in any order |
| `UdpInvariant`, `UdpProofs` | the inductive invariant of `UdpPhysicalLayer` and the theorems about it |
| `SequenceFacts` | lemmas about sequences used as queues |
| `SdkData` | messages of the application over the connections of `EminentSdk`, handlers, encryption and its configuration |
| `DataInvariant`, `DataProofs` | the same for `SdkData` |
| `SdkThreads` | the threads of one device, their mutexes, the calls that callbacks make back into the SDK, shutdown and destruction |
| `ThreadsInvariant`, `ThreadsProofs` | the same for `SdkThreads` |
| `MCSessionManager`, `MCEminentSdk`, `MCSdkData`, `MCSdkThreads`, `MCFramePipeline`, `MCUdpPhysicalLayer` | the constants of the runs |

Each module knows its neighbours by their interface.  The set `net` of
`SessionManager` stands for everything from `outgoingPackages_` of one device to
`receivePackage` of another.  `FramePipeline` models that same stretch in detail
for the in-memory medium, where `Push` is the session manager's
`outgoingPackages_.push` and `Deliver` its `receivePackage`.  `UdpPhysicalLayer` does
so for UDP, from the coding module's queue to its `receiveFrameWithCrc`, and is
shown to implement `DatagramService`, which is what `net` allows: to deliver late,
in any order, again or not at all, but nothing that was not sent.

The set `wire` of `EminentSdk` stands for session managers and all below.  Any
message may be received again: a request because it asks for acknowledgement and
is retransmitted, any other because the network may duplicate its datagram, and
the session manager remembers nothing of what it has handed up
(SessionManager.cpp:352-412).  `SdkData` EXTENDS `EminentSdk`: its steps are those
of the protocol, which change no data, and those of the data, which change no
connection.  `SdkThreads` looks inside the actions of `EminentSdk`: there a handler
is one step, because it holds the mutex throughout; here it is the frames of a
stack, because the callbacks in its middle may call back.

### SessionManager

| variable | code |
|---|---|
| `nextMessageId`, `sdkQueue` | `EminentSdk::nextMsgId_`, `outgoingQueue_` (the session manager's `sdkQueue_`) |
| `worker`, `callbacks` | where the worker is in its pass; it holds `queueMutex_` while "processing".  `callbacks` is the local vector of the pass |
| `pendingMessages`, `packageToMessage`, `receivedPackages` | the maps of that name |
| `nextPackageId`, `nextAckMessageId`, `config` | the counters, and `maxRetransmitAttempts_` with `retransmitInterval_` |
| `accepted` ... `abandoned` | history, for the properties only |

`BeginPass`, then one of `DropOversized`, `SendFragments`, `ExhaustPackageIds` for
each message of the queue, then `Retransmit`, then `RunCallback` for each
callback make a pass of `workerLoop`.  `ReceiveFragment`, `HandleAck` and
`IgnoreAck` are `receivePackage` on the receive thread, which needs the mutex and
so cannot run while the worker is "processing", but can between two callbacks.
`Send` is the SDK's `send` under its own mutex and may happen at any point.

Time is counted in sleep intervals of the worker, and only between passes: all
time stamps that are ever compared are the beginnings of passes, because the
code takes `now` once per pass.  The `age` of a package stops at `MaxInterval`,
beyond which no comparison can tell it from a greater one.  A payload is the set
of fragments it is cut into, each named by sender, message and position.

### EminentSdk

`connections`, `heartbeats` and `pendingHandshakes` are the tables of that name.
A `Connection` keeps in `opened` the id that `connect` gave it, which says whether
it carries the application's callbacks, and for which connect.  Every handler
and call holds the recursive mutex for its whole length and is one action; one
iteration of the heartbeat thread (`HeartbeatPass`) first lets the handshakes of
a set `expired` time out, then sends a heartbeat for a set `due`: any set, since
no clock is kept.  What `onMissed` does is the application's business; it may
call `disconnect`, which is an action.

### FramePipeline

Three queues and three workers per device.  The worker of the physical layer
has phases: it puts all ready frames on the medium one at a time, takes what
is new for it from the medium in one step under the medium's mutex, then hands
the frames up one at a time.  `DeliverFails` is an exception out of a handler
(such as `nextPrime`, which throws when ids run out): it ends the worker, and
takes the rest of the frames of that pass along.  `Join` and `Leave` are
construction and destruction; a device is constructed again under the same id.
Frames carry their length in bytes, so that the limits are the real ones: a
header of 15 bytes with the default widths (docs/ARCHITECTURE.md:411 says 17),
65535 bytes of payload, 4 bytes of CRC.

### UdpPhysicalLayer

| variable | code |
|---|---|
| `outgoingFrames` | the queue of the coding module |
| `worker` | where `workerLoop` is: "sending" while it empties the queue, "receiving" while it empties the socket, "sleeping" between passes, "ended" after `stopWorker_`, "dead" after an exception nobody caught |
| `consecutiveErrors`, `stopWorker` | the variables of that name |
| `stream` | which of the two loops of a pass is kept busy |
| `network`, `socket`, `disturbed` | datagrams under way, datagrams that wait to be read, and how often the network did worse than lose or reorder |
| `pushed` ... `handedUp` | history, for the properties only |

Which error `sendto` reports is the environment's choice; the code distinguishes
three kinds: success, a full buffer (`BufferFull`: the frame goes to the end of the
queue) and the rest (`DropFrame`).  `PhysicalLayer[d]` tells the two classes apart: the
ESP32's drops a frame in every case and counts nothing.  Besides the frames that are
numbered there may be traffic without end: `stream[d]` says whether the queue is being
filled, or datagrams come, faster than the worker takes them out, and `Traffic`
begins and ends it.  While it lasts the loop concerned does not end, whatever
`stopWorker_` says.  A frame is its sender
and its number; a damaged one has the number 0, which stands for a CRC that does
not match.  `ReceiveFrame` may also end in the `catch` for any frame, as a handler
above may throw; what is thrown is taken for a `std::exception`, as all that the library
throws is.  Anything else out of an application's callback would end the worker
(PhysicalLayerUdp.cpp:166), and is not modelled.

### SdkData

`crypto` holds, for each device, the module, whether encryption is enabled, the keys
by number, the default key and the key chosen for each connection id.  What
ChaCha20 and `NullCryptoModule` do is kept to what decides whether the receiver
gets back what was sent: both write the key's number in front; ChaCha20 needs the
same secret at both ends, and throws when the message does not begin with the
number of a key it has -- whereupon `decryptMessageIfNeeded` passes it on as it
is.  What plain data happen to begin with is chosen when they are read
(`looksLike`).  A message stays in `mail` once sent, so that it may be received late
and again, under whatever keys are set then.

`agreed` is the discipline under which reading is expected to succeed: both ends
enabled, with the same module, each holding what the other selects, and no key
taken back or replaced.  Any change of the encryption is allowed; the first that
breaks the discipline is the last, as nothing is claimed after it.

### SdkThreads

A thread is a stack of frames, the innermost first.  A frame names the function
and the place in it, the mutexes it holds until it returns, and the objects --
entries of `connections_` and `heartbeats_`, stored functions -- that it will use after
what it has called returns: the iterator of `disconnect`, the element the heartbeat
loop stands on, the `std::function` that is being executed.  To destroy an object
that some frame uses sets `dangling`.  `MayCall` says which callback calls what;
each instance of a callback makes at most one call.

A connection is a status, and whether it carries the functions given to `connect`
(`opened`).  The device hands out the numbers `1..MaxNumber`, one for each `connect` or
accepted request; what a number makes with a peer's is one of `Products[n]`, and two
numbers may make the same.  So `HandleResponse` moves a connection from its number to
a product where another, active connection may be, and `RequestDecided` puts an accepted
one over it (EminentSdk.cpp:400, :343): entry, functions and heartbeat state of the
former are overwritten, and its end is told to nobody.  `HandleFinalConfirmation`
meets whatever connection has the id; if that is one this device opened,
`FinalConfirmed` calls its `onConnected` where it is stored (EminentSdk.cpp:473), not
from a copy as `handleHandshakeResponse` does.

An insertion into a table may move it.  A `Position` is a loop's or an iterator's
place in a table; `connect`, a response or an accepted request destroy the positions
in the tables they insert into, while references to elements stay valid, as the
standard has it of `unordered_map`.  So a callback that calls `connect` under a loop
over `heartbeats_`, or under the iterator of `disconnect`, is a fault in this model.

The destructor calls `shutdown` and then destroys the members in reverse order of
declaration: `heartbeats_`, the crypto module and `connectionKeyMap_` first
(`DestroyTables`), then the physical layer, whose destructor joins its worker, then
the session manager, which joins its own, then the rest.  Between the first and
the joins a worker that gets the mutex may look into what is destroyed:
`UsesDestroyed` lets the process end there, while the other actions let it find the
table empty.  `Initialize` comes once and before `shutdown`.

## 3. The runs

| run | asks | instance | shows |
|---|---|---|---|
| `SessionLoss` | safety under loss | 1 message of 2 fragments, 3 attempts, intervals 1..2, one reconfiguration | `TypeOK`, `Lockstep`, `IndexMatchesPending`, `NotifiedMeansArrived`, `SessionInv` |
| `SessionDuplicates` | safety under duplication, the promise, and that it is kept in the end | 2 messages of 2 fragments or too long, 1 duplicated datagram, ids that run out | `DeliveredIntact`, `OneOutcome`, `PromiseInv`, `KeepsPromise` (refinement of `ReliableDelivery`), `Resolved` |
| `SdkOneConnect` | one handshake, repeated | 1 connect, 2 codes, ids up to 9, 2 receptions after which a message is received again | `TypeOK`, `OneAnswer`, `NoResurrection`, `ConnectAnswered` |
| `SdkConnects` | two handshakes | 2 connects, by one device or by both, 2 codes, ids up to 6, a message received again, no heartbeats, devices and codes interchangeable | `ActiveHasPeer`, `ThreeWay`, `TablesAgree`, `SdkInv`, `SameSession` |
| `DataKeys` | data and keys | 1 connect, a message each way, 2 keys, 2 secrets, 2 changes before one that may do harm | `DataInv`, `ReadAsSent`, `HeardWhenEstablished` |
| `PipelineBroadcast` | the way of a frame in memory | 3 devices, 2 packages, the sender and a receiver constructed twice, handlers that throw | `TypeOK`, `PipelineInv`, `Conveyed`, `WorkersSurvive`, `Arrives` |
| `UdpTwoDevices` | the way of a frame over UDP | a computer that sends 2 frames, an ESP32 whose only numbered frame is too long and that traffic may keep busy, 1 datagram repeated or damaged, a pause after 2 errors | `TypeOK`, `Accounted`, `OvertakenWhenFull`, `DeadOnlyByLength`, `UdpInv`, `CarriesDatagrams` (refinement of `DatagramService`), `AllHandled`, `StopEnds` |
| `ThreadsCallbacks` | callbacks that call back | 2 numbers that both make the same product, the 4 threads, all that callbacks may call without harm | `ThreadsInv`, `NothingPulledAway`, `NoCircularWait`, `ToldOnce`, `QuietAfterShutdown` |
| `SessionPoisoned`, `SdkHalfOpen`, `PipelineFullPayload`, `ThreadsMissed` | what documentation says | as small as the case allows | violations, section 4 |

Why these bounds.  Two fragments are the fewest that can be acknowledged and
retried apart; the second attempt is the first retry, the third lets a
configuration change between two retries.  Two messages are the fewest that can
be confused, two devices the fewest that talk, three the fewest among which one
can miss a broadcast that another gets.  Connection ids up to 6 hold the products 4
and 6 of the first primes, one of which two pairs share (2*3 and 3*2), and 9 is
beyond; up to 9 they hold more than one connect uses.  Two connects with two codes
are the fewest sessions that can be confused; heartbeats (`MaxBeats`), which change
nothing but the heartbeat table, stay out of that run, and as many as the ids allow are
on the wire in the others.  Ids are few, so that they run out.
Two frames are the fewest of which one can overtake the other, and a queue that holds
one while another comes back into it; a limit of two errors lets the pause come
and the counter begin anew.  A loop that does not end has no bound: `Streams` says
which, and the frames in it are not counted.  Two connections are the fewest of
which a callback for one can end the other while a loop over both is under way, and
two numbers with a common product the fewest that overwrite one another.  Two changes of
keys are what a careful change takes: the key at the other end, then its
selection; a third, which may break the discipline, follows in any state.

`OneAnswer` and `NoResurrection` are checked with one connect only, and false beyond: when
both devices connect, their connections may get the same id (2*3 = 3*2), and an
answer meant for one is taken for the other's (section 4); section 5 has the
conditions under which they are proved.  `SameSession` names that case itself
(`TwoWays`); it is checked with two connects, where ids made in one way and in two
occur, and proved for any number.

`MCSdkThreads!Harmless` is at the same time a result: it is what an application may
do in each callback.  It was found by taking away what TLC showed to be
harmful:

* `shutdown` in any callback: it joins the heartbeat thread, which may be the
  caller or wait for the caller's mutex, and a second one, the destructor's, does not
  wait for the first;
* `disconnect` of the same connection in `onMessage`, `onMissed` and `onDisconnected`,
  whose caller uses the entry or the function afterwards, and in
  `onConnectionEstablished` and `onConnected`: `handleHandshakeFinalConfirmation` uses its
  reference after the first (EminentSdk.cpp:473) and runs the second where it is
  stored (:474);
* `connect` in `onMissed` and `onDisconnected`, which run under a loop or an iterator
  that an insertion may make invalid;
* replacing the function that is running: `setOnMessageHandler` in `onMessage`,
  `setOnDisconnected` in `onDisconnected`;
* in `onDisconnected`, any `disconnect`, since it may run under a `disconnect` of that
  other connection, and `setOnMessageHandler` of another connection, since a handler of
  that one may have called `disconnect`.

Deadlock is checked in the session manager's runs, where a worker can always
begin a pass unless the process has ended -- and even then the peer can -- and in
`ThreadsCallbacks`, where threads that wait for one another are the question.  In
the others the system may come to rest (both SDKs shut down; all devices gone and
no life left; workers ended and the network empty), and the configurations say
so; `ThreadsMissed` stops at the violation.

Fairness.  `SessionManager` assumes the worker thread is scheduled, and nothing
of the network or the application.  `EminentSdk` assumes the heartbeat thread
makes a pass for which the deadlines so far are over: it wakes every 100 ms and
the clock goes on.  The violation `SdkHalfOpen` moreover assumes that every
message is received, to show that loss is not the cause.  `FramePipeline` assumes
that the three workers are scheduled; they sleep between passes and wait for no
one.  `UdpPhysicalLayer` assumes that its workers are scheduled (weak fairness of
`Worker(d)`) and, for the layer that puts frames back when a buffer is full, that
the buffer does not stay full (strong fairness of `SocketTakes(d)`): the kernel
drains it, whatever becomes of the datagrams.  Nothing makes the network deliver, and
nothing makes traffic cease: `AllHandled` and `StopEnds` have that as a premise
(`<>[]`), since without it they are false -- the loops look neither at `stopWorker_` nor at
each other (section 4).

## 4. Where the code differs from what is said of it

Checked by a run that finds the violation:

1. `SessionPoisoned`: a fragment received twice stays in the reassembly buffer,
   shifts the fragments after it, and the message is never put together
   (SessionManager.cpp:386) -- while all its packages are acknowledged and the
   sender is told it was delivered.
2. `SdkHalfOpen`: disconnecting or shutting down in the middle of a handshake, at
   either end, leaves the other end active for ever, without any loss
   (EminentSdk.cpp:1126).  In the run it is the accepting end that shuts down.
3. `PipelineFullPayload`: a package of the greatest payload, the length messages
   are cut into by default, ends the worker of the physical layer, because its
   length with CRC is compared with the limit without (AbstractPhysicalLayer.cpp:39).
4. `ThreadsMissed`: `disconnect` in `onMissed`, which docs/ARCHITECTURE.md:659 shows as
   its use, erases the element of `heartbeats_` on which the loop that calls
   `onMissed` stands, and which it uses again (EminentSdk.cpp:1036).

Read in the same code, too direct to need a run:

* Nothing remembers what was handed up (SessionManager.cpp:372): a message whose
  acknowledgement is late is handed up again.  Messages are handed up in the order
  of their last fragments.
* Two connections between the same devices may get the same id, although
  docs/ARCHITECTURE.md:468 says that the product is unique: the counters of the two
  sides may make one product in two ways.  The later connection overwrites the
  earlier one, be that active (EminentSdk.cpp:343, :400), and nobody is told; a final
  confirmation then meets a connection that this device opened, and calls its
  `onConnected` a second time (EminentSdk.cpp:473).
* `onDelivered` runs for a message that is dropped as too long
  (SessionManager.cpp:107); nobody is told when the attempts of a message are
  exhausted (line 211 says so).
* `onSuccess` of `connect` is called with the initial id when the request is
  acknowledged (EminentSdk.cpp:694), before or after `onConnected` has named the
  final one.
* The special code is compared by nobody (EminentSdk.cpp:398, 462), although
  docs/ARCHITECTURE.md:475 says that both sides have to confirm the same;
  `onTransportError_` and `onTrouble` are never called.
* `initialize` writes the callbacks and `initialized_` without the mutex
  (EminentSdk.cpp:582), while the receive thread already runs; called after
  `shutdown` it starts a thread that nobody joins, as `shutdown` acts once.
* The members go in reverse order (EminentSdk.hpp:167): `heartbeats_`, the crypto
  module and `connectionKeyMap_` before `physicalLayer_`, whose worker may still run a
  handler that uses them.
* Neither loop of a pass ends while more comes (PhysicalLayerUdp.cpp:99, :140): an
  application that sends without pause keeps the worker from receiving, and either
  kind of traffic keeps the destructor from returning.

## 5. The proofs

Every theorem is about `Spec` of its module for all values of the constants that
its assumption (`SessionAssumption`, `SdkAssumption`, ...) allows: any number of
devices, messages, ids, retries, connections.  Where a theorem needs more, it says
so with ASSUME, and what it asks is a named condition on the constants, which the
instances that check the same property satisfy.  The inductive invariants stand in modules of
their own, without proofs, and the runs check them: `SessionInv`, `PromiseInv`, `PipelineInv`,
`SdkInv`, `DataInv`, `UdpInv`, `ThreadsInv`.

| theorem | states | asks |
|---|---|---|
| `TypeCorrect` | `[]TypeOK` of the session manager; `attempts` never exceeds what can be configured, though the configuration changes between retries | |
| `LockstepAlways` | `[]Lockstep` | |
| `SessionSafe`, `NotifiedMeansArrivedAlways` | `[]SessionInv`, `[]NotifiedMeansArrived` | `PointToPoint` |
| `OutcomeSafe`, `IndexMatchesPendingAlways`, `OneOutcomeAlways` | `[]OutcomeInv`, `[]IndexMatchesPending`, `[]OneOutcome` | |
| `ContentSafe`, `DeliveredIntactAlways` | `[]ContentInv`, `[]DeliveredIntact` | `OneSource` |
| `PromiseSafe`, `KeepsPromiseAlways` | `[]PromiseInv`; the session manager implements `ReliableDelivery` | `PointToPoint` |
| `SdkSafe`, `SdkTypes`, `TablesAgreeAlways` | `[]SdkInv`, `[]TypeOK`, `[]TablesAgree` | |
| `ActiveHasPeerAlways`, `ThreeWayAlways` | `[]ActiveHasPeer`, `[]ThreeWay` | `NoEcho` |
| `OneAnswerAlways` | `[]OneAnswer` | `RolesApart` |
| `SameSessionAlways` | `[]SameSession` | |
| `NoResurrectionOfOne` | `[](connects <= 1) => NoResurrection`, an action property | `NoEcho` |
| `DataImplementsSdk` | `DataSpec => Spec`: `SdkData` implements `EminentSdk` | |
| `DataSafe`, `ReadAsSentAlways` | `[]DataInv`, `[]ReadAsSent` | the second `FirstAgree` |
| `HeardWhenEstablishedAlways` | `[]HeardWhenEstablished` | `Paired`, `RolesApart` |
| `ThreadsSafe` | `[]ThreadsInv` | |
| `QuietAfterShutdownAlways`, `NoCircularWaitAlways` | `[]QuietAfterShutdown`, `[]NoCircularWait` | `NoneShutsDown` |
| `NothingPulledAwayAlways`, `ToldOnceAlways` | `[]NothingPulledAway`; `ToldOnce`, an action property | `Careful` |
| `PipelineSafe`, `PipelineTypeCorrect`, `PipelineConveyed` | `[]PipelineInv`, `[]TypeOK`, `[]Conveyed` | |
| `PipelineWorkersSurvive` | `[]WorkersSurvive` | `SmallPayloads` |
| `UdpSafe`, `UdpTypeCorrect`, `UdpAccounted`, `UdpOvertakenWhenFull`, `UdpDeadOnlyByLength` | `[]UdpInv` and the four invariants | |
| `UdpCarriesDatagrams` | the UDP layers and the network implement `DatagramService` | |

### The session manager

*Why "delivered" is true* (`SessionSafetyProofs`).  `NotifiedMeansArrived` is not
inductive.  `handleAckPackage` calls `onDelivered` when the last
pending package of a message is acknowledged, so it has to be known that no
package left `pendingMessages_` in any other way: `NothingGivenUp`.  A
retransmission pass does remove packages, those whose attempts are exhausted;
`Lockstep` says that it then removes all of the message, and with none left
nobody is notified any more.  That the acknowledged package was received needs
`AcksGenuine`; that it is this package and not another, `PackagesUnique` (ids are
never reused) and `PackagesGenuine`; that it was received by the listener that
`Arrived` asks for, `PointToPoint` (every device has one listener, and listens to
that one): on a broadcast medium the acknowledgement of
one listener may be for another sender's package of the same id, and the theorem
would be false.  `MessagesKnown` adds that message ids are fresh, so that a new
message finds no pending packages, and that the callbacks queued in a pass are
those of untracked messages only.

*Why there is one outcome* (`SessionOutcomeProofs`).  A message is at one stage of
its way at a time (`OneStage`): it waits in `sdkQueue_`, its callback is queued for
the end of the pass, it is pending, it is confirmed, or it is abandoned.  Every
action moves a message from one stage to a later one.  `Lockstep` is needed again: a
pass that exhausts a message takes all its packages, so that no late
acknowledgement finds a last one.  `IndexFresh` (`packageToMessage_` knows only ids
that were numbered) keeps the two maps in step.

*Why what is handed up is one message.*  Fragments are collected by message id
alone (SessionManager.cpp:372), so all that is filed under an id must come from
one sender: `OneSource`, nobody hears two devices.  Then `CutFromAccepted` (a package
says truly which fragment of which message it is) and `FiledAsHeard` give that the
check of position against fragment number in `receivePackage` admits the fragments
of one message in order.

*Why the promise is kept.*  `ReliableDelivery` lets a message be confirmed only after
it arrived, and end once.  `SentIsTracked` is what remains: the last fragment goes out only
when all do, and from then on the message is pending until it has an outcome.
Before that, package ids may run out half way, and the message is not promised
yet.  Each action of `SessionManager` then is a step of `ReliableDelivery` or none.

### The connection protocol

The number of a connection tells how far it is: `connect` uses the next prime,
and an answered request is known by the product of two primes.  `IdsInv` ties the
number to the status and to who opened it, `WireInv` says what its sender must
have done for a message to be under way, and `PeerInv`, which `ActiveHasPeer` and
`ThreeWay` weaken, follows the two ends of an active connection.  Messages are
received late and again: `WireInv` speaks of what was done, not of what is.

The hypotheses are where the code stops keeping its promises, because two
connections of the same devices may get the same number (2*3 = 3*2,
EminentSdk.cpp:343).  An answer is then taken for the other connection's:
`OneAnswer` needs `RolesApart`, that the devices that open do not hear one another
(a client and a server).  A connection that was closed may seem to come back:
`NoResurrection` is proved for as long as `connect` was called once, however often its
messages come and however many devices accept it.  `NoEcho`, that no device hears
itself, is what a network does that is addressed to a peer; on one that echoes, a
device answers its own request.

*Why two sessions are kept apart.*  Nobody compares the special codes, so
`SameSession` rests on the numbers.  `SessionsInv` collects under each id all that
tells of a session past its request (`Sessions`): the entries of both devices and the
responses and final confirmations under way, each with who opened the connection and
the code.  It says that the id is a product of primes the two counters have
passed, and that all told of it is of one session, unless there are two ways to make
the product.  A new entry needs a prime that was not passed before, so if anything is
told of its product already, there are two ways.  `HearEachOther` is part of the
statement, as a third device would draw the same primes; and the collision is
excluded by name, not by a bound on the connects.

### Data

The steps of the data change no connection, and those of the protocol no data, so
that `SdkData` implements `EminentSdk` and all of the above holds of it.  `ReadAsSent` is about a message that
is read long after it was sent, under whatever keys are set then.  `SecretsInv` says
why it can be: as long as the ends agree, every key that a message under way names
is held by every device with the same secret, and `SetCryptoModule`, which empties
the keys, never leaves them agreeing.  `HeardWhenEstablished` needs that the device that
told `onConnectionEstablished` is the one that receives: `Paired` (point to point) and
`RolesApart`; then an established message was preceded by an `onConnected` there, and
by `AnswersInv` what was connected is still known, or closed.

### The threads

`StacksInv` says of every stack which frame may stand on which (`StandsOn`: a
callback on what called it, an operation on the callback that made the call,
`shutdown` on the destructor), what each frame holds and uses, and which may be
the first of which thread.  This is inductive for whatever callbacks may call.
From it, and from `OneHolder` (one thread at a time holds the recursive mutex):

* A thread that waits for the mutex waits for one that holds it, and a thread
  that joins another holds none, if no callback shuts the SDK down
  (`NoneShutsDown`); so the holder in a circle would wait for nothing: `NoCircularWait`.
* `QuietInv` orders the flag, the joins and the parts of the destructor, as far as
  there is an order: of the tables that go before the joins it says nothing.  With
  `NoneShutsDown`, `shutdown` is called by the application or its destructor alone
  and there is one at a time: `QuietAfterShutdown`.
* Whoever uses an object holds the mutex (`UsersHold`).  So what one thread destroys
  no other uses, and only the frames below on the same stack matter.
  `Careful` is what the callbacks are asked not to do; the proof follows the stack
  downwards, which is at most five frames deep under a call that may destroy
  something: `NothingPulledAway`.
* At most one frame at a time removes connections, by the same hypothesis
  (`OthersMoveNot`, `UnderMover`); it tells before it removes, and what is told is
  being removed (`ToldInv`): `ToldOnce`.  A handshake removes nothing, it overwrites:
  what was active under the id is then accepted, or active again, which the
  property allows and says so.

`Careful` is satisfied by `MCSdkThreads!Harmless`, which allows everything it does not
forbid.  Nothing is assumed of how deep calls and callbacks nest,
nor of how many connections there are, nor of which numbers make which products.

### The frame pipeline

`Conveyed` is about one sequence: what a device was handed of another's packages,
what its pass still holds, what waits for it on the medium, and what the sender has
queued.  It says that the numbers in it are consecutive from the first that is due.  To
be inductive it is taken apart:

* *The sender's half.*  `QueueInOrder`: what is queued are the packages pushed last, and
  everything before (`Sent`) has left.
* *The medium.*  `MediumInOrder`: of the entries of one sender the later has the greater
  number, and whoever took it took the earlier one as well.  The second part is
  why erasing is safe: `processIncomingFrames` erases an entry when its receivers are
  as many as the participants but one.  That count is right only because all in `deliveredTo`
  are participants other than the sender (`TypeOK`; `unregisterParticipant` takes the id
  out), so that whoever is not among them then does not exist (lemma `LastToTake`);
  and what is erased is always the sender's oldest.  `NoGap`: behind an entry come all
  later numbers, as long as the sender's worker lives.  From the two, the entries of a sender
  are what it sent last, and a device that is constructed finds these: `firstDue`.
* *The account of two devices.*  `Ascending`, `Due` and `Complete`: the numbers that were
  handed up, are in the pass, and wait, come in this order, and are together those
  from `firstDue` to `Sent`.  `TakeFromMedium` moves all that waits into the pass,
  `Deliver` the first of the pass to what was handed up, `PutOnMedium` adds one number
  behind all others.  It holds of devices whose physical layers work (`Connected`).
* `PastLives`: nothing that a device holds comes from a life of the sender that has not begun, so
  that a sender that is constructed again begins a new account.

That numbers which ascend and fill an interval are consecutive is a matter of counting
(`Room`, `Consecutive`), by the library's theorems on cardinalities.  `At`, which the model
selects from sequences with, ranks the indices for the same reason: no recursion is
needed to speak about it (`Ranked`, `Selected`).

`WorkersSurvive` is not true of the code for every payload: `PipelineFullPayload` refutes it.
The theorem has the condition under which it is, `SmallPayloads`: 4 bytes, the CRC, are
left below the limit.  Then every frame of a queue, coded as its package says (`Sizes`),
passes the checks, and what ends a worker is a handler.  `PipelineBroadcast` has the
greatest payload that satisfies it.

### The UDP layers

`OvertakenWhenFull` speaks
of what was sent; what keeps it so is that the queue is ordered the same way, and
that what was sent is to what still waits (`InOrder`): a frame is appended with the
greatest number so far, unless it comes back from a full buffer, and then it is
marked.  `Accounted` counts occurrences in two sequences; `Placed` says the same
with the sets of their elements, which are disjoint, each element once, so that
taking the head and appending it elsewhere moves one element.  `Bounds` gives a
new frame a number nobody has.  For the refinement, `Genuine` follows a number
from the network into the socket: damage only makes it 0, which the check of the
CRC keeps from being handed up, and a datagram goes to the remote of its sender,
which is another device.  The queue of a device changes in five ways only
(`QueueStep`, lemma `Queueing`); the lemmas on order and places have one case for each.

### Left to TLC

Liveness (`Resolved`, `ConnectAnswered`, `Arrives`, `AllHandled`, `StopEnds`,
`BothDisconnect`) is out of the prover's reach.  Every safety property that a passing run
checks is proved, under the conditions in the table above; beyond these conditions
it is known of the instances only.

## 6. Plan

Done: the session manager with its abstraction, the connection
protocol, data and encryption, the threads with callbacks and destruction, the
frame pipeline over the in-memory medium, the UDP layers with the refinement
of a datagram service; proofs of all safety properties and of both
refinements.  Left, in this order:

1. Refinement of `DatagramService` by `FramePipeline`, so that both physical layers are known to
   be what `SessionManager` takes them for.
2. Message ids of the SDK that run out, in `EminentSdk`; refinement of an abstract
   connection by the two ends.
3. Restart of a device over `SessionManager`, and three devices on a broadcast
   medium: the code handles neither (ids begin at 1 again, fragments are collected
   by message id alone), so that little of it would be left to hold.

## 7. Not modelled

Logging and the text of payloads; the cipher and the CRC as functions (whether a
receiver has the secret, and whether a frame was damaged, is what the models
keep of them); the byte order of frame fields; applications and examples, whose
behaviour is the nondeterminism of the models.  Statistics (`getStats` returns
constants) and default priorities keep no state that any property depends on.

Data races are not modelled beyond the hazards that name them, as what follows
one is undefined: `outgoingQueue_`, which two mutexes protect, each for one side
(SessionManager.cpp:88, EminentSdk.cpp:793); `initialize`, as above;
`getMaxRetransmitAttempts` and `getRetransmitInterval`, which read without the mutex
(SessionManager.hpp:77); the static generator of `generateSpecialCode`, which all SDK
objects of a process share (EminentSdk.cpp:612); `setOnTransportError`, which takes no
lock (EminentSdk.cpp:1314), for a function nobody calls.
