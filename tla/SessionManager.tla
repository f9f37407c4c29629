--------------------------- MODULE SessionManager ---------------------------
(***************************************************************************)
(* The session manager (Session_Manager/src/SessionManager.cpp) of every   *)
(* device: it cuts the messages of the SDK into packages, retransmits the  *)
(* packages that want an acknowledgement, acknowledges and reassembles     *)
(* what it receives, and reports delivery.                                 *)
(*                                                                         *)
(* One instance runs per device.  Two threads meet in it under queueMutex_:*)
(* the worker, which wakes every workerSleepInterval_ and makes a pass     *)
(* (drain the SDK queue, retransmit, release the mutex, run callbacks),    *)
(* and the receive thread of the physical layer, which calls               *)
(* receivePackage.  The layers below (transport, coding, physical) are     *)
(* `net': a set of datagrams that may be delayed, reordered, duplicated    *)
(* and lost, as UDP may do.  No step has to take a datagram out of `net':  *)
(* one that is never received is lost.                                     *)
(*                                                                         *)
(* Time is counted in workerSleepInterval_ units and only between passes:  *)
(* every lastSent and every `now' it is compared with is the instant at    *)
(* which some pass began.  lastSent is kept as `age', the time since then, *)
(* capped at MaxInterval because only `age >= interval' is ever asked.     *)
(***************************************************************************)
EXTENDS Integers, Sequences, FiniteSets

CONSTANTS
    Device,             \* the devices
    Listeners,          \* Listeners[d]: who hears the frames of d
    MaxPacketSize,      \* maxPacketSize_, in bytes
    MaxMessageId,       \* maxMessageIdValue_
    MaxPackageId,       \* maxPackageIdValue_
    MaxFragmentsCount,  \* maxFragmentsCountValue_
    MaxFragmentId,      \* maxFragmentIdValue_
    MaxAttempts,        \* largest maxRetransmitAttempts_ that is configured
    MaxInterval,        \* largest retransmitInterval_ that is configured
    Sizes,              \* payload sizes the applications use
    MessageLimit,       \* bound: MessageLimit[d] messages are sent by d
    MaxDuplicates,      \* bound: datagrams the network duplicates
    MaxReconfigurations \* bound: calls of setRetransmissionConfig

ASSUME SessionAssumption ==
    /\ Listeners \in [Device -> SUBSET Device]
    /\ MaxPacketSize \in Nat \ {0}
    /\ MaxMessageId \in Nat \ {0}
    /\ MaxPackageId \in Nat \ {0}
    /\ MaxFragmentsCount \in Nat \ {0}
    /\ MaxFragmentId \in Nat
    /\ MaxAttempts \in Nat \ {0}
    /\ MaxInterval \in Nat \ {0}
    /\ Sizes \subseteq Nat
    /\ MessageLimit \in [Device -> Nat]
    /\ MaxDuplicates \in Nat
    /\ MaxReconfigurations \in Nat

MessageId == 1..MaxMessageId
PackageId == 1..MaxPackageId

(* A message of the SDK queue.  Its id is unique at its device (nextMsgId_). *)
Message == [id : MessageId, size : Sizes, requireAck : BOOLEAN]

(* A package with a fragment.  `payload' stands for its bytes: the device   *)
(* whose message they are cut from; messageId and fragmentId say where.     *)
DataPackage ==
    [format : {"DATA"}, packageId : PackageId, messageId : MessageId,
     fragmentId : 0..MaxFragmentId, fragmentsCount : 1..MaxFragmentsCount,
     requireAck : BOOLEAN, payload : Device]

(* An acknowledgement; `ackPackageId' is its parsed payload. *)
AckPackage ==
    [format : {"CONFIRMATION"}, packageId : PackageId, ackPackageId : PackageId]

(* `try' tells the transmissions of one package apart; it is not on the wire. *)
Datagram ==
    [from : Device, to : Device, package : DataPackage \cup AckPackage,
     try : 1..MaxAttempts]

PendingPackageInfo ==
    [package : DataPackage, attempts : 1..MaxAttempts, age : 0..MaxInterval]


VARIABLES
    nextMessageId,    \* nextMsgId_ of the SDK
    sdkQueue,         \* sdkQueue_: messages waiting for the worker
    worker,           \* what the worker does; "processing" holds queueMutex_
    callbacks,        \* the callbacks of this pass, by message
    pendingMessages,  \* pendingMessages_; {} where a message has no entry
    packageToMessage, \* packageToMessage_; 0 where a package has no entry
    receivedPackages, \* receivedPackages_; <<>> where a message has no entry
    nextPackageId,    \* nextPackageId_
    nextAckMessageId, \* nextAckMessageId_
    config,           \* maxRetransmitAttempts_ and retransmitInterval_
    net,              \* packages between outgoingPackages_ and the receivers
    duplicates,       \* datagrams duplicated so far
    reconfigurations, \* calls of setRetransmissionConfig so far
    (* What happened, for the properties: *)
    accepted,         \* messages taken over from the application
    transmitted,      \* data packages that were put on the wire
    heard,            \* data packages receivePackage was called with
    delivered,        \* messages handed up to the SDK, in order
    notified,         \* how often onDelivered ran, by message
    abandoned         \* messages whose attempts are exhausted

workerVars == <<worker, callbacks>>
ackVars    == <<nextPackageId, nextAckMessageId>>
boundVars  == <<duplicates, reconfigurations>>
history    == <<accepted, transmitted, heard, delivered, notified, abandoned>>
vars == <<nextMessageId, sdkQueue, workerVars, pendingMessages, packageToMessage,
          receivedPackages, ackVars, config, net, boundVars, history>>

-----------------------------------------------------------------------------
(* Fragmentation *)

TotalFragments(size) ==
    LET n == (size + MaxPacketSize - 1) \div MaxPacketSize
    IN  IF n <= 0 THEN 1 ELSE n

EnsureFragmentsFit(total) ==
    total <= MaxFragmentsCount /\ total - 1 <= MaxFragmentId

Fragment(d, m, i, packageId) ==
    [format |-> "DATA", packageId |-> packageId, messageId |-> m.id,
     fragmentId |-> i, fragmentsCount |-> TotalFragments(m.size),
     requireAck |-> m.requireAck, payload |-> d]

(* The fragments 0..n-1 of m, numbered from nextPackageId on. *)
Fragments(d, m, n) == {Fragment(d, m, i, nextPackageId[d] + i) : i \in 0..(n - 1)}

(* outgoingPackages_.push: what the layers below make of the packages. *)
Datagrams(d, packages, try) ==
    {[from |-> d, to |-> e, package |-> p, try |-> try] :
        e \in Listeners[d], p \in packages}

-----------------------------------------------------------------------------
(* Reassembly.  The elements that the sort of the vector by fragmentId may   *)
(* put at position i (from 0); it is not stable, so there may be several.    *)

Below(vec, i) == Cardinality({k \in DOMAIN vec : vec[k].fragmentId < i})

AtPosition(vec, i) ==
    {k \in DOMAIN vec : /\ Below(vec, vec[k].fragmentId) <= i
                        /\ i < Below(vec, vec[k].fragmentId + 1)}

AnyOrder(vec, count) == TRUE \* mutant: enough fragments, whichever

InOrder(vec, count) ==
    \A i \in 0..(count - 1) : \A k \in AtPosition(vec, i) : vec[k].fragmentId = i

(* The bytes of a fragment, within its message. *)
Bytes == Device \X (0..MaxFragmentId)
BytesOf(p) == <<p.payload, p.fragmentId>>

FullPayloads(vec, count) ==
    {parts \in [0..(count - 1) -> Bytes] :
        \A i \in 0..(count - 1) : \E k \in AtPosition(vec, i) : parts[i] = BytesOf(vec[k])}

-----------------------------------------------------------------------------
Init ==
    /\ nextMessageId    = [d \in Device |-> 1]
    /\ sdkQueue         = [d \in Device |-> <<>>]
    /\ worker           = [d \in Device |-> "sleeping"]
    /\ callbacks        = [d \in Device |-> <<>>]
    /\ pendingMessages  = [d \in Device |-> [m \in MessageId |-> {}]]
    /\ packageToMessage = [d \in Device |-> [p \in PackageId |-> 0]]
    /\ receivedPackages = [d \in Device |-> [m \in MessageId |-> <<>>]]
    /\ nextPackageId    = [d \in Device |-> 1]
    /\ nextAckMessageId = [d \in Device |-> MaxMessageId]
    /\ config = [d \in Device |-> [attempts |-> MaxAttempts, interval |-> MaxInterval]]
    /\ net = {}
    /\ duplicates = 0
    /\ reconfigurations = 0
    /\ accepted    = [d \in Device |-> {}]
    /\ transmitted = [d \in Device |-> {}]
    /\ heard       = [d \in Device |-> {}]
    /\ delivered   = [d \in Device |-> <<>>]
    /\ notified    = [d \in Device |-> [m \in MessageId |-> 0]]
    /\ abandoned   = [d \in Device |-> {}]

Alive(d) == worker[d] # "terminated"

(* queueMutex_ can be taken by a thread other than the worker. *)
Unlocked(d) == worker[d] \notin {"processing", "terminated"}

(* EminentSdk::send: number the message and queue it.  The SDK has its own *)
(* mutex, so this may happen in the middle of a pass.                      *)
Send(d, size, requireAck) ==
    /\ Alive(d)
    /\ nextMessageId[d] <= MaxMessageId
    /\ nextMessageId[d] <= MessageLimit[d]
    /\ LET m == [id |-> nextMessageId[d], size |-> size, requireAck |-> requireAck]
       IN  /\ sdkQueue' = [sdkQueue EXCEPT ![d] = Append(@, m)]
           /\ accepted' = [accepted EXCEPT ![d] = @ \cup {m}]
    /\ nextMessageId' = [nextMessageId EXCEPT ![d] = @ + 1]
    /\ UNCHANGED <<workerVars, pendingMessages, packageToMessage, receivedPackages,
                   ackVars, config, net, boundVars,
                   transmitted, heard, delivered, notified, abandoned>>

Older(info, elapsed) ==
    [info EXCEPT !.age = IF @ + elapsed > MaxInterval THEN MaxInterval ELSE @ + elapsed]

(* The worker wakes after at least one sleep interval and takes queueMutex_. *)
BeginPass(d, elapsed) ==
    /\ worker[d] = "sleeping"
    /\ worker' = [worker EXCEPT ![d] = "processing"]
    /\ callbacks' = [callbacks EXCEPT ![d] = <<>>]
    /\ pendingMessages' = [pendingMessages EXCEPT ![d] =
           [m \in MessageId |-> {Older(info, elapsed) : info \in pendingMessages[d][m]}]]
    /\ UNCHANGED <<nextMessageId, sdkQueue, packageToMessage, receivedPackages,
                   ackVars, config, net, boundVars, history>>

(* processSdkQueueLocked drains the queue before it retransmits. *)
NextInQueue(d, m) ==
    /\ worker[d] = "processing"
    /\ sdkQueue[d] # <<>>
    /\ m = Head(sdkQueue[d])

(* A message with too many fragments is dropped -- and reported delivered. *)
DropOversized(d, m) ==
    /\ NextInQueue(d, m)
    /\ ~EnsureFragmentsFit(TotalFragments(m.size))
    /\ sdkQueue' = [sdkQueue EXCEPT ![d] = Tail(@)]
    /\ callbacks' = [callbacks EXCEPT ![d] = Append(@, m.id)]
    /\ UNCHANGED <<nextMessageId, worker, pendingMessages, packageToMessage,
                   receivedPackages, ackVars, config, net, boundVars, history>>

AlwaysReportedAtOnce(m) == TRUE \* mutant: tracked messages, too

(* onDelivered does not wait for an acknowledgement that is not wanted. *)
ReportedAtOnce(m) == ~m.requireAck

(* The fragments go out; those that want an acknowledgement are pending. *)
SendFragments(d, m) ==
    LET total == TotalFragments(m.size)
        sent  == Fragments(d, m, total)
    IN  /\ NextInQueue(d, m)
        /\ EnsureFragmentsFit(total)
        /\ nextPackageId[d] + total - 1 <= MaxPackageId
        /\ sdkQueue' = [sdkQueue EXCEPT ![d] = Tail(@)]
        /\ nextPackageId' = [nextPackageId EXCEPT ![d] = @ + total]
        /\ net' = net \cup Datagrams(d, sent, 1)
        /\ transmitted' = [transmitted EXCEPT ![d] = @ \cup sent]
        /\ callbacks' = IF ReportedAtOnce(m)
                        THEN [callbacks EXCEPT ![d] = Append(@, m.id)] ELSE callbacks
        /\ IF m.requireAck
           THEN /\ pendingMessages' = [pendingMessages EXCEPT ![d][m.id] =
                       {[package |-> p, attempts |-> 1, age |-> 0] : p \in sent}]
                /\ packageToMessage' = [packageToMessage EXCEPT ![d] =
                       [p \in PackageId |->
                           IF \E q \in sent : q.packageId = p THEN m.id ELSE @[p]]]
           ELSE UNCHANGED <<pendingMessages, packageToMessage>>
        /\ UNCHANGED <<nextMessageId, worker, receivedPackages, nextAckMessageId,
                       config, boundVars, accepted, heard, delivered, notified, abandoned>>

(* allocatePackageId throws outside the try blocks of the worker: the       *)
(* process terminates.  Some of the fragments numbered before may be out.   *)
ExhaustPackageIds(d, m) ==
    LET total == TotalFragments(m.size)
    IN  /\ NextInQueue(d, m)
        /\ EnsureFragmentsFit(total)
        /\ nextPackageId[d] + total - 1 > MaxPackageId
        /\ worker' = [worker EXCEPT ![d] = "terminated"]
        /\ nextPackageId' = [nextPackageId EXCEPT ![d] = MaxPackageId + 1]
        /\ \E n \in 0..(MaxPackageId + 1 - nextPackageId[d]) :
              /\ net' = net \cup Datagrams(d, Fragments(d, m, n), 1)
              /\ transmitted' = [transmitted EXCEPT ![d] = @ \cup Fragments(d, m, n)]
        /\ UNCHANGED <<nextMessageId, sdkQueue, callbacks, pendingMessages,
                       packageToMessage, receivedPackages, nextAckMessageId, config, boundVars,
                       accepted, heard, delivered, notified, abandoned>>

\* Mutants: one package of a message per pass; one attempt too many; the index
\* forgotten; the attempts not counted.
OldestDue(d, info) ==
    /\ info.age >= config[d].interval
    /\ \A other \in pendingMessages[d][info.package.messageId] :
          info.package.packageId <= other.package.packageId
ExhaustedTooLate(d, info) ==
    info.age >= config[d].interval /\ info.attempts > config[d].attempts
GivenUpButIndexed(d) == {}
RetryUncounted(d, info) ==
    IF info.age >= config[d].interval THEN [info EXCEPT !.age = 0] ELSE info

Due(d, info)       == info.age >= config[d].interval
Exhausted(d, info) == Due(d, info) /\ info.attempts >= config[d].attempts
Kept(d, m)         == {info \in pendingMessages[d][m] : ~Exhausted(d, info)}

(* The packages a pass gives up, and those it puts on the wire again. *)
GivenUp(d) ==
    {info.package.packageId :
        info \in UNION {pendingMessages[d][m] \ Kept(d, m) : m \in MessageId}}
Resent(d) == {info \in UNION {Kept(d, m) : m \in MessageId} : Due(d, info)}

Retry(d, info) ==
    IF Due(d, info) THEN [info EXCEPT !.attempts = @ + 1, !.age = 0] ELSE info

(* retransmitPendingLocked, with the queue drained; the mutex is released. *)
Retransmit(d) ==
    /\ worker[d] = "processing"
    /\ sdkQueue[d] = <<>>
    /\ worker' = [worker EXCEPT ![d] =
           IF callbacks[d] = <<>> THEN "sleeping" ELSE "notifying"]
    /\ pendingMessages' = [pendingMessages EXCEPT ![d] =
           [m \in MessageId |-> {Retry(d, info) : info \in Kept(d, m)}]]
    /\ packageToMessage' = [packageToMessage EXCEPT ![d] =
           [p \in PackageId |-> IF p \in GivenUp(d) THEN 0 ELSE @[p]]]
    /\ net' = net \cup UNION {Datagrams(d, {info.package}, info.attempts + 1) :
                                 info \in Resent(d)}
    /\ abandoned' = [abandoned EXCEPT ![d] = @ \cup
           {m \in MessageId : pendingMessages[d][m] # {} /\ Kept(d, m) = {}}]
    /\ UNCHANGED <<nextMessageId, sdkQueue, callbacks, receivedPackages, ackVars,
                   config, boundVars, accepted, transmitted, heard, delivered, notified>>

(* The callbacks of the pass run one after the other, without the mutex. *)
RunCallback(d) ==
    /\ worker[d] = "notifying"
    /\ callbacks[d] # <<>>
    /\ notified' = [notified EXCEPT ![d][Head(callbacks[d])] = @ + 1]
    /\ callbacks' = [callbacks EXCEPT ![d] = Tail(@)]
    /\ worker' = [worker EXCEPT ![d] =
           IF Len(callbacks[d]) = 1 THEN "sleeping" ELSE "notifying"]
    /\ UNCHANGED <<nextMessageId, sdkQueue, pendingMessages, packageToMessage,
                   receivedPackages, ackVars, config, net, boundVars,
                   accepted, transmitted, heard, delivered, abandoned>>

-----------------------------------------------------------------------------
(* Receiving *)

(* A datagram is consumed, or -- a bounded number of times -- duplicated;   *)
(* `replies' are the packages the receiver puts on the wire meanwhile.      *)
Consume(dg, replies) ==
    \/ net' = (net \ {dg}) \cup replies /\ UNCHANGED duplicates
    \/ /\ duplicates < MaxDuplicates
       /\ duplicates' = duplicates + 1
       /\ net' = net \cup replies

\* mutant: the number of the acknowledgement taken for that of the package
OwnNumberAcknowledged(d, pkg) ==
    [format |-> "CONFIRMATION", packageId |-> nextPackageId[d],
     ackPackageId |-> nextPackageId[d]]

Acknowledgement(d, pkg) ==
    [format |-> "CONFIRMATION", packageId |-> nextPackageId[d],
     ackPackageId |-> pkg.packageId]

(* sendAckForPackageLocked: a package id is taken before the message id, and *)
(* an exception of either allocation means that no acknowledgement is sent.  *)
Acks(d, pkg) ==
    IF pkg.requireAck /\ nextPackageId[d] <= MaxPackageId /\ nextAckMessageId[d] > 0
    THEN {Acknowledgement(d, pkg)} ELSE {}

SendAck(d, pkg) ==
    /\ nextPackageId' = IF pkg.requireAck /\ nextPackageId[d] <= MaxPackageId
                        THEN [nextPackageId EXCEPT ![d] = @ + 1] ELSE nextPackageId
    /\ nextAckMessageId' = IF Acks(d, pkg) # {}
                           THEN [nextAckMessageId EXCEPT ![d] = @ - 1]
                           ELSE nextAckMessageId

(* receivePackage of a data package: acknowledge it, file it under its      *)
(* message id and, once there are enough, try to put the message together.  *)
ReceiveFragment(d, dg) ==
    LET pkg == dg.package
        vec == Append(receivedPackages[d][pkg.messageId], pkg)
    IN  /\ dg.to = d /\ pkg.format = "DATA"
        /\ Unlocked(d)
        /\ SendAck(d, pkg)
        /\ Consume(dg, Datagrams(d, Acks(d, pkg), 1))
        /\ heard' = [heard EXCEPT ![d] = @ \cup {pkg}]
        /\ \/ /\ Len(vec) < pkg.fragmentsCount \/ ~InOrder(vec, pkg.fragmentsCount)
              /\ receivedPackages' = [receivedPackages EXCEPT ![d][pkg.messageId] = vec]
              /\ UNCHANGED delivered
           \/ /\ Len(vec) >= pkg.fragmentsCount /\ InOrder(vec, pkg.fragmentsCount)
              /\ receivedPackages' = [receivedPackages EXCEPT ![d][pkg.messageId] = <<>>]
              /\ \E parts \in FullPayloads(vec, pkg.fragmentsCount) :
                    delivered' = [delivered EXCEPT ![d] =
                        Append(@, [id |-> pkg.messageId, parts |-> parts])]
        /\ UNCHANGED <<nextMessageId, sdkQueue, workerVars, pendingMessages,
                       packageToMessage, config, reconfigurations,
                       accepted, transmitted, notified, abandoned>>

NoneRemaining(d, m, ackId) == {} \* mutant: one acknowledgement confirms all

Remaining(d, m, ackId) ==
    {info \in pendingMessages[d][m] : info.package.packageId # ackId}

(* handleAckPackage: the package is no longer pending, and with the last    *)
(* one of its message the message is: onDelivered runs.                     *)
HandleAck(d, dg) ==
    LET ackId == dg.package.ackPackageId
        msgId == packageToMessage[d][ackId]
        rest  == Remaining(d, msgId, ackId)
    IN  /\ dg.to = d /\ dg.package.format = "CONFIRMATION"
        /\ Unlocked(d)
        /\ msgId # 0
        /\ packageToMessage' = [packageToMessage EXCEPT ![d][ackId] = 0]
        /\ \/ /\ pendingMessages[d][msgId] = {}
              /\ UNCHANGED <<pendingMessages, notified>>
           \/ /\ pendingMessages[d][msgId] # {}
              /\ pendingMessages' = [pendingMessages EXCEPT ![d][msgId] = rest]
              /\ notified' = IF rest = {} THEN [notified EXCEPT ![d][msgId] = @ + 1]
                                          ELSE notified
        /\ Consume(dg, {})
        /\ UNCHANGED <<nextMessageId, sdkQueue, workerVars, receivedPackages, ackVars,
                       config, reconfigurations,
                       accepted, transmitted, heard, delivered, abandoned>>

(* An acknowledgement of a package that is not pending is ignored. *)
IgnoreAck(d, dg) ==
    /\ dg.to = d /\ dg.package.format = "CONFIRMATION"
    /\ Unlocked(d)
    /\ packageToMessage[d][dg.package.ackPackageId] = 0
    /\ net' = net \ {dg}
    /\ UNCHANGED <<nextMessageId, sdkQueue, workerVars, pendingMessages,
                   packageToMessage, receivedPackages, ackVars, config, boundVars, history>>

(* setRetransmissionConfig; the SDK refuses fewer than one attempt. *)
SetRetransmissionConfig(d, attempts, interval) ==
    /\ Unlocked(d)
    /\ reconfigurations < MaxReconfigurations
    /\ reconfigurations' = reconfigurations + 1
    /\ config' = [config EXCEPT ![d] = [attempts |-> attempts, interval |-> interval]]
    /\ UNCHANGED <<nextMessageId, sdkQueue, workerVars, pendingMessages, packageToMessage,
                   receivedPackages, ackVars, net, duplicates, history>>

-----------------------------------------------------------------------------
ProcessMessage(d) ==
    \E m \in Message : DropOversized(d, m) \/ SendFragments(d, m) \/ ExhaustPackageIds(d, m)

Worker(d) ==
    \/ \E elapsed \in 1..MaxInterval : BeginPass(d, elapsed)
    \/ ProcessMessage(d)
    \/ Retransmit(d)
    \/ RunCallback(d)

Application(d) ==
    \/ \E size \in Sizes, requireAck \in BOOLEAN : Send(d, size, requireAck)
    \/ \E attempts \in 1..MaxAttempts, interval \in 1..MaxInterval :
          SetRetransmissionConfig(d, attempts, interval)

Network ==
    \E dg \in net, d \in Device :
        ReceiveFragment(d, dg) \/ HandleAck(d, dg) \/ IgnoreAck(d, dg)

Next == Network \/ \E d \in Device : Worker(d) \/ Application(d)

Spec == Init /\ [][Next]_vars

(* The worker thread is scheduled; nothing is assumed of the network.  *)
FairSpec == Spec /\ \A d \in Device : WF_vars(Worker(d))

-----------------------------------------------------------------------------
(* Properties *)

(* The type invariant.  No package is tried more often than configured. *)
TypeOK ==
    /\ nextMessageId    \in [Device -> 1..(MaxMessageId + 1)]
    /\ sdkQueue         \in [Device -> Seq(Message)]
    /\ worker           \in [Device -> {"sleeping", "processing", "notifying", "terminated"}]
    /\ callbacks        \in [Device -> Seq(MessageId)]
    /\ pendingMessages  \in [Device -> [MessageId -> SUBSET PendingPackageInfo]]
    /\ packageToMessage \in [Device -> [PackageId -> MessageId \cup {0}]]
    /\ receivedPackages \in [Device -> [MessageId -> Seq(DataPackage)]]
    /\ nextPackageId    \in [Device -> 1..(MaxPackageId + 1)]
    /\ nextAckMessageId \in [Device -> 0..MaxMessageId]
    /\ config \in [Device -> [attempts : 1..MaxAttempts, interval : 1..MaxInterval]]
    /\ net \subseteq Datagram
    /\ duplicates \in 0..MaxDuplicates
    /\ reconfigurations \in 0..MaxReconfigurations
    /\ accepted    \in [Device -> SUBSET Message]
    /\ transmitted \in [Device -> SUBSET DataPackage]
    /\ heard       \in [Device -> SUBSET DataPackage]
    /\ delivered   \in [Device -> Seq([id : MessageId, parts :
           UNION {[0..(n - 1) -> Bytes] : n \in 1..MaxFragmentsCount}])]
    /\ notified    \in [Device -> [MessageId -> Nat]]
    /\ abandoned   \in [Device -> SUBSET MessageId]

(* The messages whose delivery the session manager tracks. *)
IsTracked(m) == m.requireAck /\ EnsureFragmentsFit(TotalFragments(m.size))
Tracked(d)   == {m \in accepted[d] : IsTracked(m)}

(* Some listener was handed every fragment of m by its network. *)
FragmentHeard(d, m, i, e) ==
    \E p \in heard[e] : p.payload = d /\ p.messageId = m.id /\ p.fragmentId = i

Arrived(d, m) ==
    \E e \in Listeners[d] : \A i \in 0..(TotalFragments(m.size) - 1) : FragmentHeard(d, m, i, e)

(* Every device talks to one other, over UDP with a configured remote. *)
PointToPoint ==
    \A d \in Device : \E e \in Device \ {d} : Listeners[d] = {e} /\ Listeners[e] = {d}

(* onDelivered of a tracked message means that all its fragments arrived.  A *)
(* message of several packages is confirmed by the last acknowledgement: had *)
(* any package been given up before, the confirmation would be wrong.        *)
NotifiedMeansArrived ==
    \A d \in Device : \A m \in Tracked(d) : notified[d][m.id] > 0 => Arrived(d, m)

(* The packages of one message age and are retried in step, so that one      *)
(* retransmission pass gives up all that are left of a message or none.      *)
Lockstep ==
    \A d \in Device, m \in MessageId :
        \A i, j \in pendingMessages[d][m] : i.attempts = j.attempts /\ i.age = j.age

(* packageToMessage_ and pendingMessages_ always hold the same packages: an  *)
(* acknowledgement finds its package, and finds it once.                     *)
IndexMatchesPending ==
    \A d \in Device, p \in PackageId, m \in MessageId :
        packageToMessage[d][p] = m
            <=> \E info \in pendingMessages[d][m] : info.package.packageId = p

(* A message has one outcome: onDelivered runs at most once, and never for a *)
(* message that the session manager has given up.                            *)
OneOutcome ==
    \A d \in Device, m \in MessageId :
        notified[d][m] + (IF m \in abandoned[d] THEN 1 ELSE 0) <= 1

(* What reaches the SDK is a message some device sent: all of it, in order,  *)
(* and nothing of another message -- whatever the network loses, repeats or  *)
(* reorders.                                                                 *)
DeliveredIntact ==
    \A e \in Device : \A k \in DOMAIN delivered[e] :
        \E d \in Device : \E m \in accepted[d] :
            /\ e \in Listeners[d]
            /\ delivered[e][k] =
                 [id |-> m.id, parts |-> [i \in 0..(TotalFragments(m.size) - 1) |-> <<d, i>>]]

(* Every message the application hands over is resolved: reported delivered  *)
(* or given up, unless the worker has brought the process down.              *)
Resolved ==
    \A d \in Device, m \in MessageId :
        nextMessageId[d] > m ~> \/ notified[d][m] > 0
                                \/ m \in abandoned[d]
                                \/ ~Alive(d)

(* The session manager implements reliable delivery of its tracked messages. *)
TrackedId(d, m) == \E msg \in Tracked(d) : msg.id = m

OutcomeOf(d, m) ==
    IF ~TrackedId(d, m)              THEN "unsent"
    ELSE IF notified[d][m] > 0       THEN "confirmed"
    ELSE IF m \in abandoned[d]       THEN "abandoned"
    ELSE IF pendingMessages[d][m] # {} THEN "inFlight"
    ELSE "unsent"

Promise == INSTANCE ReliableDelivery WITH
    outcome <- [d \in Device |-> [m \in MessageId |-> OutcomeOf(d, m)]],
    arrived <- [d \in Device |-> {m \in MessageId :
                    \E msg \in Tracked(d) : msg.id = m /\ Arrived(d, msg)}]

KeepsPromise == Promise!Spec

-----------------------------------------------------------------------------
(* What the repository says of the session manager and the code does not do. *)

(* A sender that is told `delivered' can rely on the peer's application     *)
(* having got the message.                                                  *)
NotifiedMeansDelivered ==
    \A d \in Device : \A m \in Tracked(d) :
        notified[d][m.id] > 0 =>
            \E e \in Listeners[d] : \E k \in DOMAIN delivered[e] : delivered[e][k].id = m.id

=============================================================================
