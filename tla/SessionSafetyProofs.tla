------------------------- MODULE SessionSafetyProofs -------------------------
(***************************************************************************)
(* Proofs about SessionManager, for any devices, listeners, id widths,     *)
(* attempts, intervals and bounds: its types; and, for devices that have   *)
(* at most one listener each, that onDelivered means that every fragment   *)
(* arrived (SessionInv is inductive).                                      *)
(***************************************************************************)
EXTENDS SessionInvariant, SequenceFacts, TLAPS

USE SessionAssumption DEF MessageId, PackageId

-----------------------------------------------------------------------------
(* Types *)

(* Lemma: a message of any size has at least one fragment.                   *)
LEMMA TotalFragmentsType ==
    ASSUME NEW size \in Nat
    PROVE  TotalFragments(size) \in Nat \ {0}
<1>1. (size + MaxPacketSize - 1) \div MaxPacketSize \in Int
  OBVIOUS
<1> QED
  BY <1>1 DEF TotalFragments

(* Lemma: the fragments of a message that fits are packages of its device,   *)
(* numbered with free ids.                                                   *)
LEMMA FragmentsType ==
    ASSUME NEW d \in Device, NEW m \in Message, NEW n \in 0..TotalFragments(m.size),
           EnsureFragmentsFit(TotalFragments(m.size)),
           nextPackageId[d] \in Nat \ {0}, nextPackageId[d] + n - 1 <= MaxPackageId
    PROVE  Fragments(d, m, n) \subseteq DataPackage
<1>1. TotalFragments(m.size) \in Nat \ {0}
  BY TotalFragmentsType DEF Message
<1> QED
  BY <1>1 DEF Fragments, Fragment, DataPackage, EnsureFragmentsFit, Message

(* Lemma: packages put on the wire become datagrams to the listeners.        *)
LEMMA DatagramsType ==
    ASSUME NEW d \in Device, NEW S \in SUBSET (DataPackage \cup AckPackage),
           NEW try \in 1..MaxAttempts
    PROVE  Datagrams(d, S, try) \subseteq Datagram
BY DEF Datagrams, Datagram

(* Lemma: the parts of each step of a retransmission pass keep their type.   *)
LEMMA RetryType ==
    ASSUME TypeOK, NEW d \in Device, NEW m \in MessageId, NEW info \in Kept(d, m)
    PROVE  /\ info \in pendingMessages[d][m]
           /\ info \in PendingPackageInfo
           /\ Retry(d, info) \in PendingPackageInfo
           /\ Due(d, info) => info.attempts + 1 \in 1..MaxAttempts
<1>1. info \in pendingMessages[d][m] /\ info \in PendingPackageInfo
  <2>1. info \in pendingMessages[d][m]
    BY DEF Kept
  <2>2. pendingMessages \in [Device -> [MessageId -> SUBSET PendingPackageInfo]]
    BY DEF TypeOK
  <2> QED
    BY <2>1, <2>2
<1>2. config[d].attempts \in 1..MaxAttempts
  <2>1. config \in [Device -> [attempts : 1..MaxAttempts, interval : 1..MaxInterval]]
    BY DEF TypeOK
  <2> QED
    BY <2>1
<1>3. Due(d, info) => info.attempts + 1 \in 1..MaxAttempts
  BY <1>1, <1>2 DEF Kept, Exhausted, PendingPackageInfo
<1>4. Retry(d, info) \in PendingPackageInfo
  <2>1. CASE Due(d, info)
    <3>1. Retry(d, info) = [info EXCEPT !.attempts = info.attempts + 1, !.age = 0]
      BY <2>1 DEF Retry
    <3>2. info.attempts + 1 \in 1..MaxAttempts /\ 0 \in 0..MaxInterval
      BY <1>3, <2>1
    <3> QED
      BY <1>1, <3>1, <3>2 DEF PendingPackageInfo
  <2>2. CASE ~Due(d, info)
    BY <1>1, <2>2 DEF Retry
  <2> QED
    BY <2>1, <2>2
<1> QED
  BY <1>1, <1>3, <1>4

-----------------------------------------------------------------------------
(* Type correctness *)

LEMMA TypeInit == Init => TypeOK
BY DEF Init, TypeOK

(* Lemma: the actions of the application and the callbacks keep the types.   *)
LEMMA TypeApplication ==
    ASSUME TypeOK, NEW d \in Device, Application(d)
    PROVE  TypeOK'
<1>1. ASSUME NEW size \in Sizes, NEW requireAck \in BOOLEAN, Send(d, size, requireAck)
      PROVE  TypeOK'
  <2> DEFINE m == [id |-> nextMessageId[d], size |-> size, requireAck |-> requireAck]
  <2>1. m \in Message
    BY <1>1 DEF Send, Message, TypeOK
  <2>2. sdkQueue' \in [Device -> Seq(Message)]
    BY <1>1, <2>1 DEF Send, TypeOK
  <2>3. accepted' \in [Device -> SUBSET Message]
    BY <1>1, <2>1 DEF Send, TypeOK
  <2>4. nextMessageId' \in [Device -> 1..(MaxMessageId + 1)]
    <3>1. nextMessageId \in [Device -> 1..(MaxMessageId + 1)]
      BY DEF TypeOK
    <3>2. nextMessageId[d] <= MaxMessageId
          /\ nextMessageId' = [nextMessageId EXCEPT ![d] = @ + 1]
      BY <1>1 DEF Send
    <3> QED
      BY <3>1, <3>2
  <2> QED
    BY <1>1, <2>2, <2>3, <2>4 DEF Send, TypeOK, workerVars, ackVars, boundVars
<1>2. ASSUME NEW attempts \in 1..MaxAttempts, NEW interval \in 1..MaxInterval,
             SetRetransmissionConfig(d, attempts, interval)
      PROVE  TypeOK'
  <2>1. reconfigurations' \in 0..MaxReconfigurations
    BY <1>2 DEF SetRetransmissionConfig, TypeOK
  <2>2. config' \in [Device -> [attempts : 1..MaxAttempts, interval : 1..MaxInterval]]
    BY <1>2 DEF SetRetransmissionConfig, TypeOK
  <2> QED
    BY <1>2, <2>1, <2>2 DEF SetRetransmissionConfig, TypeOK, workerVars, ackVars, history
<1> QED
  BY <1>1, <1>2 DEF Application

(* Lemma: a pass that begins ages what is pending, up to MaxInterval.        *)
LEMMA TypeBeginPass ==
    ASSUME TypeOK, NEW d \in Device, NEW elapsed \in 1..MaxInterval, BeginPass(d, elapsed)
    PROVE  TypeOK'
<1>1. ASSUME NEW info \in PendingPackageInfo
      PROVE  Older(info, elapsed) \in PendingPackageInfo
  BY DEF Older, PendingPackageInfo
<1>2. pendingMessages \in [Device -> [MessageId -> SUBSET PendingPackageInfo]]
  BY DEF TypeOK
<1> DEFINE aged == [m \in MessageId |-> {Older(info, elapsed) : info \in pendingMessages[d][m]}]
<1>3. aged \in [MessageId -> SUBSET PendingPackageInfo]
  BY <1>1, <1>2
<1>4. pendingMessages' = [pendingMessages EXCEPT ![d] = aged]
  BY DEF BeginPass
<1>5. pendingMessages' \in [Device -> [MessageId -> SUBSET PendingPackageInfo]]
  BY <1>2, <1>3, <1>4
<1>6. worker' \in [Device -> {"sleeping", "processing", "notifying", "terminated"}]
  BY DEF BeginPass, TypeOK
<1>7. callbacks' \in [Device -> Seq(MessageId)]
  BY DEF BeginPass, TypeOK
<1> QED
  BY <1>5, <1>6, <1>7 DEF BeginPass, TypeOK, ackVars, boundVars, history

(* Lemma: draining the SDK queue keeps the types; every fragment that is sent*)
(* is a package.                                                             *)
LEMMA TypeProcessMessage ==
    ASSUME TypeOK, NEW d \in Device, ProcessMessage(d)
    PROVE  TypeOK'
<1>1. PICK m \in Message :
          DropOversized(d, m) \/ SendFragments(d, m) \/ ExhaustPackageIds(d, m)
  BY DEF ProcessMessage
<1> DEFINE total == TotalFragments(m.size)
<1>2. total \in Nat \ {0} /\ m.id \in MessageId
  BY TotalFragmentsType DEF Message
<1>3. sdkQueue[d] # <<>> => Tail(sdkQueue[d]) \in Seq(Message)
  BY DEF TypeOK
<1>4. Append(callbacks[d], m.id) \in Seq(MessageId)
  BY <1>2 DEF TypeOK
<1>5. CASE DropOversized(d, m)
  <2>1. sdkQueue' \in [Device -> Seq(Message)]
    BY <1>3, <1>5 DEF DropOversized, NextInQueue, TypeOK
  <2>2. callbacks' \in [Device -> Seq(MessageId)]
    BY <1>4, <1>5 DEF DropOversized, TypeOK
  <2> QED
    BY <1>5, <2>1, <2>2 DEF DropOversized, TypeOK, ackVars, boundVars, history
<1>6. CASE SendFragments(d, m)
  <2> DEFINE sent == Fragments(d, m, total)
  <2>1. nextPackageId[d] + total - 1 <= MaxPackageId
    BY <1>6 DEF SendFragments
  <2> nextPackageId \in [Device -> 1..(MaxPackageId + 1)]
    BY DEF TypeOK
  <2>2. sent \subseteq DataPackage
    <3>1. EnsureFragmentsFit(total)
      BY <1>6 DEF SendFragments
    <3>2. total \in 0..total /\ nextPackageId[d] \in Nat \ {0}
      BY <1>2
    <3> QED
      BY <2>1, <3>1, <3>2, FragmentsType
  <2>3. sdkQueue' \in [Device -> Seq(Message)]
    BY <1>3, <1>6 DEF SendFragments, NextInQueue, TypeOK
  <2>4. callbacks' \in [Device -> Seq(MessageId)]
    BY <1>4, <1>6 DEF SendFragments, TypeOK
  <2>5. nextPackageId' \in [Device -> 1..(MaxPackageId + 1)]
    <3>1. nextPackageId' = [nextPackageId EXCEPT ![d] = @ + total]
      BY <1>6 DEF SendFragments
    <3>2. nextPackageId[d] + total \in 1..(MaxPackageId + 1)
      <4> HIDE DEF total
      <4> QED
        BY <1>2, <2>1
    <3> QED
      BY <3>1, <3>2
  <2>6. net' \subseteq Datagram
    BY <1>6, <2>2, DatagramsType DEF SendFragments, TypeOK
  <2>7. transmitted' \in [Device -> SUBSET DataPackage]
    BY <1>6, <2>2 DEF SendFragments, TypeOK
  <2>8. {[package |-> p, attempts |-> 1, age |-> 0] : p \in sent} \subseteq PendingPackageInfo
    BY <2>2 DEF PendingPackageInfo
  <2>9. pendingMessages' \in [Device -> [MessageId -> SUBSET PendingPackageInfo]]
    <3> DEFINE infos == {[package |-> p, attempts |-> 1, age |-> 0] : p \in sent}
    <3>1. pendingMessages \in [Device -> [MessageId -> SUBSET PendingPackageInfo]]
      BY DEF TypeOK
    <3>2. \/ pendingMessages' = [pendingMessages EXCEPT ![d][m.id] = infos]
          \/ pendingMessages' = pendingMessages
      BY <1>6 DEF SendFragments
    <3>3. infos \in SUBSET PendingPackageInfo
      BY <2>8
    <3> HIDE DEF infos
    <3>4. [pendingMessages[d] EXCEPT ![m.id] = infos] \in [MessageId -> SUBSET PendingPackageInfo]
      BY <1>2, <3>1, <3>3
    <3> QED
      BY <3>1, <3>2, <3>4
  <2>10. packageToMessage' \in [Device -> [PackageId -> MessageId \cup {0}]]
    <3> DEFINE index == [p \in PackageId |->
                  IF \E q \in sent : q.packageId = p THEN m.id ELSE packageToMessage[d][p]]
    <3>1. packageToMessage \in [Device -> [PackageId -> MessageId \cup {0}]]
      BY DEF TypeOK
    <3>2. \/ packageToMessage' = [packageToMessage EXCEPT ![d] = index]
          \/ packageToMessage' = packageToMessage
      BY <1>6 DEF SendFragments
    <3>3. index \in [PackageId -> MessageId \cup {0}]
      BY <1>2, <3>1
    <3> HIDE DEF index
    <3> QED
      BY <3>1, <3>2, <3>3
  <2> QED
    BY <1>6, <2>3, <2>4, <2>5, <2>6, <2>7, <2>9, <2>10
    DEF SendFragments, TypeOK, boundVars
<1>7. CASE ExhaustPackageIds(d, m)
  <2>1. PICK n \in 0..(MaxPackageId + 1 - nextPackageId[d]) :
            /\ net' = net \cup Datagrams(d, Fragments(d, m, n), 1)
            /\ transmitted' = [transmitted EXCEPT ![d] = @ \cup Fragments(d, m, n)]
    BY <1>7 DEF ExhaustPackageIds
  <2>2. n \in 0..total /\ nextPackageId[d] \in Nat \ {0} /\ nextPackageId[d] + n - 1 <= MaxPackageId
    <3>1. nextPackageId[d] \in 1..(MaxPackageId + 1)
      BY DEF TypeOK
    <3>2. nextPackageId[d] + total - 1 > MaxPackageId
      BY <1>7 DEF ExhaustPackageIds
    <3> QED
      BY <1>2, <3>1, <3>2
  <2>3. Fragments(d, m, n) \subseteq DataPackage
    BY <1>7, <2>2, FragmentsType DEF ExhaustPackageIds
  <2>4. net' \subseteq Datagram
    BY <2>1, <2>3, DatagramsType DEF TypeOK
  <2>5. transmitted' \in [Device -> SUBSET DataPackage]
    BY <2>1, <2>3 DEF TypeOK
  <2>6. nextPackageId' \in [Device -> 1..(MaxPackageId + 1)]
    BY <1>7 DEF ExhaustPackageIds, TypeOK
  <2> QED
    BY <1>7, <2>4, <2>5, <2>6 DEF ExhaustPackageIds, TypeOK, boundVars
<1> QED
  BY <1>1, <1>5, <1>6, <1>7

(* Lemma: a retransmission keeps the types: what is kept after Due has an    *)
(* attempt left.                                                             *)
LEMMA TypeRetransmit ==
    ASSUME TypeOK, NEW d \in Device, Retransmit(d)
    PROVE  TypeOK'
<1>1. pendingMessages' \in [Device -> [MessageId -> SUBSET PendingPackageInfo]]
  <2> DEFINE retried == [m \in MessageId |-> {Retry(d, info) : info \in Kept(d, m)}]
  <2>1. retried \in [MessageId -> SUBSET PendingPackageInfo]
    BY RetryType
  <2>2. pendingMessages' = [pendingMessages EXCEPT ![d] = retried]
    BY DEF Retransmit
  <2>3. pendingMessages \in [Device -> [MessageId -> SUBSET PendingPackageInfo]]
    BY DEF TypeOK
  <2> QED
    BY <2>1, <2>2, <2>3
<1>2. packageToMessage' \in [Device -> [PackageId -> MessageId \cup {0}]]
  <2>1. packageToMessage \in [Device -> [PackageId -> MessageId \cup {0}]]
    BY DEF TypeOK
  <2> QED
    BY <2>1 DEF Retransmit
<1>3. ASSUME NEW info \in Resent(d)
      PROVE  Datagrams(d, {info.package}, info.attempts + 1) \subseteq Datagram
  <2>1. PICK m \in MessageId : info \in Kept(d, m)
    BY <1>3 DEF Resent
  <2>2. Due(d, info)
    BY <1>3 DEF Resent
  <2>3. info.package \in DataPackage /\ info.attempts + 1 \in 1..MaxAttempts
    BY <2>1, <2>2, RetryType DEF PendingPackageInfo
  <2> QED
    BY <2>3, DatagramsType
<1>4. net' \subseteq Datagram
  <2>1. net \subseteq Datagram
    BY DEF TypeOK
  <2>2. net' = net \cup UNION {Datagrams(d, {info.package}, info.attempts + 1) :
                                   info \in Resent(d)}
    BY DEF Retransmit
  <2> QED
    BY <1>3, <2>1, <2>2
<1>5. abandoned' \in [Device -> SUBSET MessageId]
  BY DEF Retransmit, TypeOK
<1> QED
  BY <1>1, <1>2, <1>4, <1>5 DEF Retransmit, TypeOK, ackVars, boundVars

(* Lemma: running a callback keeps the types.                                *)
LEMMA TypeRunCallback ==
    ASSUME TypeOK, NEW d \in Device, RunCallback(d)
    PROVE  TypeOK'
<1>1. Head(callbacks[d]) \in MessageId /\ Tail(callbacks[d]) \in Seq(MessageId)
  <2>1. callbacks[d] \in Seq(MessageId)
    BY DEF TypeOK
  <2>2. callbacks[d] # <<>>
    BY DEF RunCallback
  <2> QED
    BY <2>1, <2>2, HeadTail
<1>2. notified' \in [Device -> [MessageId -> Nat]]
  <2>1. notified \in [Device -> [MessageId -> Nat]]
    BY DEF TypeOK
  <2> DEFINE called == Head(callbacks[d])
  <2>2. notified' = [notified EXCEPT ![d][called] = @ + 1]
    BY DEF RunCallback
  <2>3. called \in MessageId
    BY <1>1
  <2> HIDE DEF called
  <2>4. [notified[d] EXCEPT ![called] = @ + 1] \in [MessageId -> Nat]
    BY <2>1, <2>3
  <2> QED
    BY <2>1, <2>2, <2>3, <2>4
<1>3. callbacks' \in [Device -> Seq(MessageId)]
  BY <1>1 DEF RunCallback, TypeOK
<1> QED
  BY <1>2, <1>3 DEF RunCallback, TypeOK, ackVars, boundVars

(* Lemma: what sendAckForPackageLocked puts on the wire is an acknowledgement, and*)
(* the ids it takes stay in their ranges.                                    *)
LEMMA AckType ==
    ASSUME TypeOK, NEW d \in Device, NEW pkg \in DataPackage
    PROVE  /\ Acks(d, pkg) \subseteq AckPackage
           /\ SendAck(d, pkg) => /\ nextPackageId' \in [Device -> 1..(MaxPackageId + 1)]
                                 /\ nextAckMessageId' \in [Device -> 0..MaxMessageId]
<1>1. nextPackageId \in [Device -> 1..(MaxPackageId + 1)]
  BY DEF TypeOK
<1>2. nextAckMessageId \in [Device -> 0..MaxMessageId]
  BY DEF TypeOK
<1>3. Acks(d, pkg) \subseteq AckPackage
  BY <1>1 DEF Acks, Acknowledgement, AckPackage, DataPackage
<1>4. ASSUME SendAck(d, pkg)
      PROVE  nextPackageId' \in [Device -> 1..(MaxPackageId + 1)]
  <2>1. CASE pkg.requireAck /\ nextPackageId[d] <= MaxPackageId
    <3>1. nextPackageId' = [nextPackageId EXCEPT ![d] = @ + 1]
      BY <1>4, <2>1 DEF SendAck
    <3> QED
      BY <1>1, <2>1, <3>1
  <2>2. CASE ~(pkg.requireAck /\ nextPackageId[d] <= MaxPackageId)
    BY <1>1, <1>4, <2>2 DEF SendAck
  <2> QED
    BY <2>1, <2>2
<1>5. ASSUME SendAck(d, pkg)
      PROVE  nextAckMessageId' \in [Device -> 0..MaxMessageId]
  <2>1. CASE Acks(d, pkg) # {}
    <3>1. nextAckMessageId[d] > 0
      BY <2>1 DEF Acks
    <3>2. nextAckMessageId' = [nextAckMessageId EXCEPT ![d] = @ - 1]
      BY <1>5, <2>1 DEF SendAck
    <3> QED
      BY <1>2, <3>1, <3>2
  <2>2. CASE Acks(d, pkg) = {}
    BY <1>2, <1>5, <2>2 DEF SendAck
  <2> QED
    BY <2>1, <2>2
<1> QED
  BY <1>3, <1>4, <1>5

(* Lemma: consuming a datagram leaves only datagrams and the replies.        *)
LEMMA ConsumeType ==
    ASSUME TypeOK, NEW dg \in net, NEW replies \in SUBSET Datagram, Consume(dg, replies)
    PROVE  net' \subseteq Datagram /\ duplicates' \in 0..MaxDuplicates
<1>1. net \subseteq Datagram /\ duplicates \in 0..MaxDuplicates
  BY DEF TypeOK
<1> QED
  BY <1>1 DEF Consume

(* Lemma: receivePackage of a fragment keeps the types, what it delivers included.*)
LEMMA TypeReceiveFragment ==
    ASSUME TypeOK, NEW d \in Device, NEW dg \in net, ReceiveFragment(d, dg)
    PROVE  TypeOK'
<1> DEFINE pkg == dg.package
           vec == Append(receivedPackages[d][pkg.messageId], pkg)
<1>1. pkg \in DataPackage
  BY DEF ReceiveFragment, TypeOK, Datagram, AckPackage
<1>2. /\ pkg.messageId \in MessageId
      /\ pkg.fragmentsCount \in 1..MaxFragmentsCount
  BY <1>1 DEF DataPackage
<1>3. vec \in Seq(DataPackage)
  <2> HIDE DEF pkg
  <2>1. receivedPackages[d][pkg.messageId] \in Seq(DataPackage)
    <3>1. receivedPackages \in [Device -> [MessageId -> Seq(DataPackage)]]
      BY DEF TypeOK
    <3> QED
      BY <1>2, <3>1
  <2> QED
    BY <1>1, <2>1
<1>4. /\ nextPackageId' \in [Device -> 1..(MaxPackageId + 1)]
      /\ nextAckMessageId' \in [Device -> 0..MaxMessageId]
  BY <1>1, AckType DEF ReceiveFragment
<1>5. net' \subseteq Datagram /\ duplicates' \in 0..MaxDuplicates
  <2>1. Datagrams(d, Acks(d, pkg), 1) \subseteq Datagram
    BY <1>1, AckType, DatagramsType
  <2> QED
    BY <2>1, ConsumeType DEF ReceiveFragment
<1>6. heard' \in [Device -> SUBSET DataPackage]
  <2>1. heard \in [Device -> SUBSET DataPackage]
    BY DEF TypeOK
  <2>2. heard' = [heard EXCEPT ![d] = @ \cup {pkg}]
    BY DEF ReceiveFragment
  <2> HIDE DEF pkg
  <2> QED
    BY <1>1, <2>1, <2>2
<1>7. receivedPackages' \in [Device -> [MessageId -> Seq(DataPackage)]]
  <2>1. receivedPackages \in [Device -> [MessageId -> Seq(DataPackage)]]
    BY DEF TypeOK
  <2>2. \E new \in {vec, <<>>} :
            receivedPackages' = [receivedPackages EXCEPT ![d][pkg.messageId] = new]
    BY DEF ReceiveFragment
  <2> HIDE DEF vec, pkg
  <2>3. PICK new \in Seq(DataPackage) :
            receivedPackages' = [receivedPackages EXCEPT ![d][pkg.messageId] = new]
    <3>1. <<>> \in Seq(DataPackage)
      OBVIOUS
    <3> QED
      BY <1>3, <2>2, <3>1
  <2>4. [receivedPackages[d] EXCEPT ![pkg.messageId] = new] \in [MessageId -> Seq(DataPackage)]
    BY <1>2, <2>1
  <2> QED
    BY <2>1, <2>3, <2>4
<1>8. delivered' \in [Device -> Seq([id : MessageId, parts :
           UNION {[0..(n - 1) -> Bytes] : n \in 1..MaxFragmentsCount}])]
  <2> DEFINE Delivered == [id : MessageId, parts :
           UNION {[0..(n - 1) -> Bytes] : n \in 1..MaxFragmentsCount}]
  <2>1. delivered \in [Device -> Seq(Delivered)]
    BY DEF TypeOK
  <2>2. CASE UNCHANGED delivered
    BY <2>1, <2>2
  <2>3. CASE \E parts \in FullPayloads(vec, pkg.fragmentsCount) :
                 delivered' = [delivered EXCEPT ![d] =
                     Append(@, [id |-> pkg.messageId, parts |-> parts])]
    <3>1. PICK parts \in FullPayloads(vec, pkg.fragmentsCount) :
                 delivered' = [delivered EXCEPT ![d] =
                     Append(@, [id |-> pkg.messageId, parts |-> parts])]
      BY <2>3
    <3>2. parts \in [0..(pkg.fragmentsCount - 1) -> Bytes]
      BY DEF FullPayloads
    <3>3. [id |-> pkg.messageId, parts |-> parts] \in Delivered
      BY <1>2, <3>2
    <3> DEFINE message == [id |-> pkg.messageId, parts |-> parts]
    <3>4. delivered' = [delivered EXCEPT ![d] = Append(@, message)]
      BY <3>1
    <3>5. message \in Delivered
      BY <3>3
    <3> HIDE DEF Delivered, message
    <3>6. Append(delivered[d], message) \in Seq(Delivered)
      BY <2>1, <3>5
    <3>7. delivered' \in [Device -> Seq(Delivered)]
      BY <2>1, <3>4, <3>6
    <3> QED
      BY <3>7 DEF Delivered
  <2> QED
    BY <2>2, <2>3 DEF ReceiveFragment
<1> QED
  BY <1>4, <1>5, <1>6, <1>7, <1>8 DEF ReceiveFragment, TypeOK, workerVars

(* Lemma: handleAckPackage keeps the types.                                  *)
LEMMA TypeHandleAck ==
    ASSUME TypeOK, NEW d \in Device, NEW dg \in net, HandleAck(d, dg)
    PROVE  TypeOK'
<1> DEFINE ackId == dg.package.ackPackageId
           msgId == packageToMessage[d][ackId]
<1>1. packageToMessage \in [Device -> [PackageId -> MessageId \cup {0}]]
  BY DEF TypeOK
<1>2. ackId \in PackageId
  BY DEF HandleAck, TypeOK, Datagram, DataPackage, AckPackage
<1>3. msgId \in MessageId
  <2>1. msgId # 0
    BY DEF HandleAck
  <2> QED
    BY <1>1, <1>2, <2>1
<1>4. packageToMessage' \in [Device -> [PackageId -> MessageId \cup {0}]]
  <2>1. packageToMessage' = [packageToMessage EXCEPT ![d][ackId] = 0]
    BY DEF HandleAck
  <2>2. [packageToMessage[d] EXCEPT ![ackId] = 0] \in [PackageId -> MessageId \cup {0}]
    BY <1>1, <1>2
  <2> HIDE DEF ackId
  <2> QED
    BY <1>1, <2>1, <2>2
<1>5. pendingMessages' \in [Device -> [MessageId -> SUBSET PendingPackageInfo]]
  <2>1. pendingMessages \in [Device -> [MessageId -> SUBSET PendingPackageInfo]]
    BY DEF TypeOK
  <2>2. \/ pendingMessages' = pendingMessages
        \/ pendingMessages' =
               [pendingMessages EXCEPT ![d][msgId] = Remaining(d, msgId, ackId)]
    BY DEF HandleAck
  <2>3. Remaining(d, msgId, ackId) \in SUBSET PendingPackageInfo
    BY <1>3, <2>1 DEF Remaining
  <2> HIDE DEF msgId, ackId
  <2>4. [pendingMessages[d] EXCEPT ![msgId] = Remaining(d, msgId, ackId)]
            \in [MessageId -> SUBSET PendingPackageInfo]
    BY <1>3, <2>1, <2>3
  <2> QED
    BY <2>1, <2>2, <2>4
<1>6. notified' \in [Device -> [MessageId -> Nat]]
  <2>1. notified \in [Device -> [MessageId -> Nat]]
    BY DEF TypeOK
  <2>2. \/ notified' = notified
        \/ notified' = [notified EXCEPT ![d][msgId] = @ + 1]
    BY DEF HandleAck
  <2> HIDE DEF msgId
  <2>3. [notified[d] EXCEPT ![msgId] = @ + 1] \in [MessageId -> Nat]
    BY <1>3, <2>1
  <2> QED
    BY <2>1, <2>2, <2>3
<1>7. net' \subseteq Datagram /\ duplicates' \in 0..MaxDuplicates
  BY ConsumeType DEF HandleAck
<1> QED
  BY <1>4, <1>5, <1>6, <1>7 DEF HandleAck, TypeOK, workerVars, ackVars

(* Lemma: every step of every device keeps every type.                       *)
LEMMA TypeStep == TypeOK /\ [Next]_vars => TypeOK'
<1> SUFFICES ASSUME TypeOK, [Next]_vars PROVE TypeOK'
  OBVIOUS
<1>1. ASSUME NEW d \in Device, Worker(d) PROVE TypeOK'
  BY <1>1, TypeBeginPass, TypeProcessMessage, TypeRetransmit, TypeRunCallback DEF Worker
<1>2. ASSUME NEW d \in Device, Application(d) PROVE TypeOK'
  BY <1>2, TypeApplication
<1>3. ASSUME NEW d \in Device, NEW dg \in net, IgnoreAck(d, dg) PROVE TypeOK'
  BY <1>3 DEF IgnoreAck, TypeOK, workerVars, ackVars, boundVars, history
<1>4. CASE Network
  BY <1>3, <1>4, TypeReceiveFragment, TypeHandleAck DEF Network
<1>5. CASE UNCHANGED vars
  BY <1>5 DEF TypeOK, vars, workerVars, ackVars, boundVars, history
<1> QED
  BY <1>1, <1>2, <1>4, <1>5 DEF Next

(* Theorem: every variable keeps its type; in particular no package is ever  *)
(* tried more often than MaxAttempts times, and no id leaves its width.      *)
THEOREM TypeCorrect == Spec => []TypeOK
<1> QED
  BY TypeInit, TypeStep, PTL DEF Spec

-----------------------------------------------------------------------------
(* What the steps do to the pending packages *)

PendingType == pendingMessages \in [Device -> [MessageId -> SUBSET PendingPackageInfo]]

(* Lemma: a step other than these four leaves the pending packages alone.    *)
LEMMA PendingFrame ==
    ASSUME [Next]_vars,
           \A d \in Device :
               /\ \A elapsed \in 1..MaxInterval : ~BeginPass(d, elapsed)
               /\ \A m \in Message : ~SendFragments(d, m)
               /\ ~Retransmit(d)
               /\ \A dg \in net : ~HandleAck(d, dg)
    PROVE  UNCHANGED pendingMessages
<1>1. CASE UNCHANGED vars
  BY <1>1 DEF vars
<1>2. CASE Network
  BY <1>2 DEF Network, ReceiveFragment, IgnoreAck
<1>3. ASSUME NEW d \in Device, Worker(d) PROVE UNCHANGED pendingMessages
  BY <1>3 DEF Worker, ProcessMessage, DropOversized, ExhaustPackageIds, RunCallback
<1>4. ASSUME NEW d \in Device, Application(d) PROVE UNCHANGED pendingMessages
  BY <1>4 DEF Application, Send, SetRetransmissionConfig
<1> QED
  BY <1>1, <1>2, <1>3, <1>4 DEF Next

(* Lemma: a new pass makes every pending package older.                      *)
LEMMA PendingBeginPass ==
    ASSUME TypeOK, NEW d \in Device, NEW elapsed \in 1..MaxInterval, BeginPass(d, elapsed),
           NEW e \in Device, NEW id \in MessageId
    PROVE  /\ e # d => pendingMessages'[e][id] = pendingMessages[e][id]
           /\ e = d => /\ \A i \in pendingMessages'[e][id] :
                             \E k \in pendingMessages[e][id] : i = Older(k, elapsed)
                       /\ \A k \in pendingMessages[e][id] :
                             Older(k, elapsed) \in pendingMessages'[e][id]
<1>1. PendingType
  BY DEF TypeOK, PendingType
<1>2. pendingMessages'[e][id] =
          IF e = d THEN {Older(info, elapsed) : info \in pendingMessages[d][id]}
                   ELSE pendingMessages[e][id]
  BY <1>1 DEF BeginPass, PendingType
<1> QED
  BY <1>2

(* Lemma: the fragments of a tracked message become pending.                 *)
LEMMA PendingSend ==
    ASSUME TypeOK, NEW d \in Device, NEW m \in Message, SendFragments(d, m),
           NEW e \in Device, NEW id \in MessageId
    PROVE  /\ ~(e = d /\ id = m.id /\ m.requireAck) =>
                  pendingMessages'[e][id] = pendingMessages[e][id]
           /\ e = d /\ id = m.id /\ m.requireAck =>
                  /\ \A i \in pendingMessages'[e][id] :
                        \E p \in Fragments(d, m, TotalFragments(m.size)) :
                            i = [package |-> p, attempts |-> 1, age |-> 0]
                  /\ \A p \in Fragments(d, m, TotalFragments(m.size)) :
                        [package |-> p, attempts |-> 1, age |-> 0] \in pendingMessages'[e][id]
<1>1. PendingType
  BY DEF TypeOK, PendingType
<1>2. m.id \in MessageId
  BY DEF Message
<1> DEFINE infos == {[package |-> p, attempts |-> 1, age |-> 0] :
                         p \in Fragments(d, m, TotalFragments(m.size))}
<1>3. CASE m.requireAck
  <2>1. pendingMessages' = [pendingMessages EXCEPT ![d][m.id] = infos]
    BY <1>3 DEF SendFragments
  <2> HIDE DEF infos
  <2>2. pendingMessages'[e][id] =
            IF e = d /\ id = m.id THEN infos ELSE pendingMessages[e][id]
    BY <1>1, <1>2, <2>1 DEF PendingType
  <2> QED
    BY <1>3, <2>2 DEF infos
<1>4. CASE ~m.requireAck
  BY <1>4 DEF SendFragments
<1> QED
  BY <1>3, <1>4

(* Lemma: a retransmission pass keeps what is not exhausted.                 *)
LEMMA PendingRetransmit ==
    ASSUME TypeOK, NEW d \in Device, Retransmit(d), NEW e \in Device, NEW id \in MessageId
    PROVE  /\ e # d => pendingMessages'[e][id] = pendingMessages[e][id]
           /\ e = d => /\ \A i \in pendingMessages'[e][id] :
                             \E k \in Kept(d, id) : i = Retry(d, k)
                       /\ \A k \in Kept(d, id) : Retry(d, k) \in pendingMessages'[e][id]
<1>1. PendingType
  BY DEF TypeOK, PendingType
<1>2. pendingMessages'[e][id] =
          IF e = d THEN {Retry(d, info) : info \in Kept(d, id)} ELSE pendingMessages[e][id]
  BY <1>1 DEF Retransmit, PendingType
<1> QED
  BY <1>2

(* Lemma: an acknowledgement removes its package from its message.           *)
LEMMA PendingAck ==
    ASSUME TypeOK, NEW d \in Device, NEW dg \in net, HandleAck(d, dg),
           NEW e \in Device, NEW id \in MessageId
    PROVE  /\ packageToMessage[d][dg.package.ackPackageId] \in MessageId
           /\ pendingMessages'[e][id] =
                  IF e = d /\ id = packageToMessage[d][dg.package.ackPackageId]
                  THEN Remaining(d, id, dg.package.ackPackageId)
                  ELSE pendingMessages[e][id]
<1> DEFINE ackId == dg.package.ackPackageId
           msgId == packageToMessage[d][ackId]
<1>1. PendingType
  BY DEF TypeOK, PendingType
<1>2. msgId \in MessageId
  <2>1. packageToMessage \in [Device -> [PackageId -> MessageId \cup {0}]]
    BY DEF TypeOK
  <2>2. ackId \in PackageId
    BY DEF HandleAck, TypeOK, Datagram, DataPackage, AckPackage
  <2>3. msgId # 0
    BY DEF HandleAck
  <2> QED
    BY <2>1, <2>2, <2>3
<1>3. CASE pendingMessages[d][msgId] = {}
  <2>1. pendingMessages' = pendingMessages
    BY <1>3 DEF HandleAck
  <2> QED
    BY <1>2, <1>3, <2>1 DEF Remaining
<1>4. CASE pendingMessages[d][msgId] # {}
  <2>1. pendingMessages' = [pendingMessages EXCEPT ![d][msgId] = Remaining(d, msgId, ackId)]
    BY <1>4 DEF HandleAck
  <2>2. msgId \in MessageId
    BY <1>2
  <2> HIDE DEF msgId, ackId
  <2>3. pendingMessages'[e][id] =
            IF e = d /\ id = msgId THEN Remaining(d, msgId, ackId) ELSE pendingMessages[e][id]
    BY <1>1, <2>1, <2>2 DEF PendingType
  <2> QED
    BY <2>2, <2>3 DEF msgId, ackId
<1> QED
  BY <1>3, <1>4

(* Lemma: a pass treats packages in the same state alike.                    *)
LEMMA RetryAlike ==
    ASSUME NEW d, NEW i \in PendingPackageInfo, NEW j \in PendingPackageInfo,
           i.attempts = j.attempts, i.age = j.age
    PROVE  /\ Exhausted(d, i) <=> Exhausted(d, j)
           /\ Retry(d, i).attempts = Retry(d, j).attempts /\ Retry(d, i).age = Retry(d, j).age
           /\ Retry(d, i).package = i.package
           /\ \A elapsed \in 1..MaxInterval :
                  /\ Older(i, elapsed).attempts = Older(j, elapsed).attempts
                  /\ Older(i, elapsed).age = Older(j, elapsed).age
                  /\ Older(i, elapsed).package = i.package
BY DEF Exhausted, Due, Retry, Older, PendingPackageInfo

-----------------------------------------------------------------------------
(* Lockstep *)

LEMMA LockstepStep == TypeOK /\ Lockstep /\ [Next]_vars => Lockstep'
<1> SUFFICES ASSUME TypeOK, Lockstep, [Next]_vars PROVE Lockstep'
  OBVIOUS
<1> SUFFICES ASSUME NEW e \in Device, NEW id \in MessageId,
                    NEW i \in pendingMessages'[e][id], NEW j \in pendingMessages'[e][id]
             PROVE  i.attempts = j.attempts /\ i.age = j.age
  BY DEF Lockstep
<1>1. PendingType
  BY DEF TypeOK, PendingType
<1>2. ASSUME NEW k \in pendingMessages[e][id], NEW l \in pendingMessages[e][id]
      PROVE  /\ k \in PendingPackageInfo /\ l \in PendingPackageInfo
             /\ k.attempts = l.attempts /\ k.age = l.age
  BY <1>1, <1>2 DEF Lockstep, PendingType
<1>3. ASSUME NEW d \in Device, NEW elapsed \in 1..MaxInterval, BeginPass(d, elapsed)
      PROVE  i.attempts = j.attempts /\ i.age = j.age
  <2>2. CASE e = d
    <3>1. PICK k \in pendingMessages[e][id], l \in pendingMessages[e][id] :
              i = Older(k, elapsed) /\ j = Older(l, elapsed)
      BY <1>3, <2>2, PendingBeginPass
    <3> QED
      BY <1>2, <3>1, RetryAlike
  <2>3. CASE e # d
    BY <1>2, <1>3, <2>3, PendingBeginPass
  <2> QED
    BY <2>2, <2>3
<1>4. ASSUME NEW d \in Device, NEW m \in Message, SendFragments(d, m)
      PROVE  i.attempts = j.attempts /\ i.age = j.age
  <2>1. \/ \E p, q : /\ i = [package |-> p, attempts |-> 1, age |-> 0]
                     /\ j = [package |-> q, attempts |-> 1, age |-> 0]
        \/ i \in pendingMessages[e][id] /\ j \in pendingMessages[e][id]
    BY <1>4, PendingSend
  <2> QED
    BY <1>2, <2>1
<1>5. ASSUME NEW d \in Device, Retransmit(d)
      PROVE  i.attempts = j.attempts /\ i.age = j.age
  <2>2. CASE e = d
    <3>1. PICK k \in Kept(d, id), l \in Kept(d, id) : i = Retry(d, k) /\ j = Retry(d, l)
      BY <1>5, <2>2, PendingRetransmit
    <3>2. k \in pendingMessages[e][id] /\ l \in pendingMessages[e][id]
      BY <2>2 DEF Kept
    <3> QED
      BY <1>2, <3>1, <3>2, RetryAlike
  <2>3. CASE e # d
    BY <1>2, <1>5, <2>3, PendingRetransmit
  <2> QED
    BY <2>2, <2>3
<1>6. ASSUME NEW d \in Device, NEW dg \in net, HandleAck(d, dg)
      PROVE  i.attempts = j.attempts /\ i.age = j.age
  <2>1. i \in pendingMessages[e][id] /\ j \in pendingMessages[e][id]
    <3> DEFINE ackId == dg.package.ackPackageId
               msgId == packageToMessage[d][ackId]
    <3>1. pendingMessages'[e][id] = IF e = d /\ id = msgId THEN Remaining(d, id, ackId)
                                                          ELSE pendingMessages[e][id]
      BY <1>6, PendingAck
    <3> HIDE DEF ackId, msgId
    <3> QED
      BY <3>1 DEF Remaining
  <2> QED
    BY <1>2, <2>1
<1>7. CASE UNCHANGED pendingMessages
  BY <1>2, <1>7
<1> QED
  BY <1>3, <1>4, <1>5, <1>6, <1>7, PendingFrame

(* Theorem: the packages of a message are always retried in step, so a pass  *)
(* gives up all that are left of a message or none.                          *)
THEOREM LockstepAlways == Spec => []Lockstep
<1>1. Init => Lockstep
  BY DEF Init, Lockstep
<1> QED
  BY <1>1, TypeInit, TypeStep, LockstepStep, PTL DEF Spec

-----------------------------------------------------------------------------
(* MessagesKnown *)

(* Lemma: a longer sequence over a larger set.                               *)
LEMMA SeqGrows ==
    ASSUME NEW S, NEW T, S \subseteq T, NEW s \in Seq(S)
    PROVE  s \in Seq(T) /\ \A x \in T : Append(s, x) \in Seq(T)
<1>1. s \in Seq(T)
  <2>1. s = [k \in 1..Len(s) |-> s[k]] /\ Len(s) \in Nat
    OBVIOUS
  <2>2. \A k \in 1..Len(s) : s[k] \in T
    OBVIOUS
  <2> QED
    BY <2>1, <2>2
<1> QED
  BY <1>1

(* Lemma: a message handed over by the application gets a fresh id.          *)
LEMMA KnownSend ==
    ASSUME TypeOK, MessagesKnown, NEW d \in Device, NEW size \in Sizes,
           NEW requireAck \in BOOLEAN, Send(d, size, requireAck)
    PROVE  MessagesKnown'
<1> SUFFICES ASSUME NEW e \in Device PROVE MessagesKnownAt(e)'
  BY DEF MessagesKnown
<1>1. MessagesKnownAt(e)
  BY DEF MessagesKnown
<1> DEFINE new == [id |-> nextMessageId[d], size |-> size, requireAck |-> requireAck]
<1>2. /\ accepted \in [Device -> SUBSET Message]
      /\ accepted' = [accepted EXCEPT ![d] = @ \cup {new}]
      /\ nextMessageId \in [Device -> 1..(MaxMessageId + 1)]
      /\ nextMessageId' = [nextMessageId EXCEPT ![d] = @ + 1]
      /\ sdkQueue \in [Device -> Seq(Message)]
      /\ sdkQueue' = [sdkQueue EXCEPT ![d] = Append(@, new)]
      /\ new.id = nextMessageId[d]
  BY DEF Send, TypeOK
<1>3. UNCHANGED <<callbacks, pendingMessages, notified>>
  BY DEF Send, workerVars
<1>4. \A m \in accepted[e] : m.id \in MessageId
  BY <1>2 DEF Message
<1> HIDE DEF new
<1>5. /\ accepted'[e] = IF e = d THEN accepted[e] \cup {new} ELSE accepted[e]
      /\ nextMessageId'[e] = IF e = d THEN nextMessageId[e] + 1 ELSE nextMessageId[e]
      /\ sdkQueue'[e] = IF e = d THEN Append(sdkQueue[e], new) ELSE sdkQueue[e]
  BY <1>2
<1>6. \A m \in accepted'[e] : m.id < nextMessageId'[e]
  BY <1>1, <1>2, <1>4, <1>5 DEF MessagesKnownAt
<1>7. \A m, n \in accepted'[e] : m.id = n.id => m = n
  BY <1>1, <1>2, <1>4, <1>5 DEF MessagesKnownAt
<1>8. sdkQueue'[e] \in Seq(accepted'[e])
  <2>1. sdkQueue[e] \in Seq(accepted[e])
    BY <1>1 DEF MessagesKnownAt
  <2>2. accepted[e] \subseteq accepted'[e] /\ (e = d => new \in accepted'[e])
    BY <1>5
  <2> QED
    <3>1. CASE e = d
      <4>1. sdkQueue'[e] = Append(sdkQueue[e], new)
        BY <1>5, <3>1
      <4>2. \A x \in accepted'[e] : Append(sdkQueue[e], x) \in Seq(accepted'[e])
        BY <2>1, <2>2, SeqGrows
      <4> QED
        BY <2>2, <3>1, <4>1, <4>2
    <3>2. CASE e # d
      <4>1. sdkQueue'[e] = sdkQueue[e]
        BY <1>5, <3>2
      <4> QED
        BY <2>1, <2>2, <4>1, SeqGrows
    <3> QED
      BY <3>1, <3>2
<1>9. callbacks'[e] \in Seq(UntrackedIds(e)')
  <2>1. callbacks[e] \in Seq(UntrackedIds(e)) /\ callbacks'[e] = callbacks[e]
    BY <1>1, <1>3 DEF MessagesKnownAt
  <2>2. UntrackedIds(e) \subseteq UntrackedIds(e)'
    BY <1>5 DEF UntrackedIds
  <2> QED
    BY <2>1, <2>2, SeqGrows
<1>10. \A id \in MessageId : /\ pendingMessages'[e][id] # {} => KnownId(e, id)'
                             /\ notified'[e][id] > 0 => KnownId(e, id)'
  BY <1>1, <1>3, <1>5 DEF MessagesKnownAt, KnownId
<1> QED
  BY <1>6, <1>7, <1>8, <1>9, <1>10 DEF MessagesKnownAt

(* Lemma: what a step that accepts nothing has to preserve.                  *)
LEMMA KnownFrame ==
    ASSUME MessagesKnown, NEW e \in Device, UNCHANGED <<accepted, nextMessageId>>,
           sdkQueue'[e] \in Seq(accepted[e]),
           callbacks'[e] \in Seq(UntrackedIds(e)),
           \A id \in MessageId : pendingMessages'[e][id] # {} => KnownId(e, id),
           \A id \in MessageId : notified'[e][id] > 0 => KnownId(e, id)
    PROVE  MessagesKnownAt(e)'
<1>1. UntrackedIds(e)' = UntrackedIds(e)
  BY DEF UntrackedIds
<1>2. \A id \in MessageId : KnownId(e, id)' <=> KnownId(e, id)
  BY DEF KnownId
<1> QED
  BY <1>1, <1>2 DEF MessagesKnown, MessagesKnownAt

(* Lemma: the worker takes its messages from the accepted ones.              *)
LEMMA KnownProcess ==
    ASSUME TypeOK, MessagesKnown, NEW d \in Device, ProcessMessage(d)
    PROVE  MessagesKnown'
<1> SUFFICES ASSUME NEW e \in Device PROVE MessagesKnownAt(e)'
  BY DEF MessagesKnown
<1>1. PICK m \in Message :
          DropOversized(d, m) \/ SendFragments(d, m) \/ ExhaustPackageIds(d, m)
  BY DEF ProcessMessage
<1>2. UNCHANGED <<accepted, nextMessageId, notified>>
  BY <1>1 DEF DropOversized, SendFragments, ExhaustPackageIds, history
<1>3. MessagesKnownAt(e) /\ MessagesKnownAt(d)
  BY DEF MessagesKnown
<1>4. /\ sdkQueue[d] \in Seq(accepted[d]) /\ sdkQueue[d] # <<>>
      /\ m \in accepted[d] /\ Tail(sdkQueue[d]) \in Seq(accepted[d])
  <2>1. NextInQueue(d, m)
    BY <1>1 DEF DropOversized, SendFragments, ExhaustPackageIds
  <2>2. sdkQueue[d] \in Seq(accepted[d]) /\ sdkQueue[d] # <<>> /\ m = Head(sdkQueue[d])
    BY <1>3, <2>1 DEF MessagesKnownAt, NextInQueue
  <2> QED
    BY <2>2, HeadTail
<1>5. sdkQueue'[e] \in Seq(accepted[e])
  <2>1. sdkQueue \in [Device -> Seq(Message)] /\ sdkQueue[e] \in Seq(accepted[e])
    BY <1>3 DEF TypeOK, MessagesKnownAt
  <2>2. sdkQueue' = sdkQueue \/ sdkQueue' = [sdkQueue EXCEPT ![d] = Tail(sdkQueue[d])]
    BY <1>1 DEF DropOversized, SendFragments, ExhaustPackageIds
  <2> QED
    BY <1>4, <2>1, <2>2
<1>6. callbacks'[e] \in Seq(UntrackedIds(e))
  <2>1. callbacks \in [Device -> Seq(MessageId)] /\ callbacks[e] \in Seq(UntrackedIds(e))
    BY <1>3 DEF TypeOK, MessagesKnownAt
  <2>2. \/ callbacks' = callbacks
        \/ callbacks' = [callbacks EXCEPT ![d] = Append(callbacks[d], m.id)] /\ ~IsTracked(m)
    BY <1>1 DEF DropOversized, SendFragments, ExhaustPackageIds, IsTracked, ReportedAtOnce
  <2>3. ~IsTracked(m) => m.id \in UntrackedIds(d)
    BY <1>4 DEF UntrackedIds, Message
  <2>4. CASE callbacks' = callbacks
    BY <2>1, <2>4
  <2>5. CASE callbacks' # callbacks
    <3>1. callbacks'[e] = IF e = d THEN Append(callbacks[d], m.id) ELSE callbacks[e]
      BY <2>1, <2>2, <2>5
    <3>2. m.id \in UntrackedIds(d)
      BY <2>2, <2>3, <2>5
    <3> QED
      BY <2>1, <3>1, <3>2
  <2> QED
    BY <2>4, <2>5
<1>7. ASSUME NEW id \in MessageId, pendingMessages'[e][id] # {}
      PROVE  KnownId(e, id)
  <2>1. CASE SendFragments(d, m)
    BY <1>3, <1>4, <1>7, <2>1, PendingSend DEF MessagesKnownAt, KnownId
  <2>2. CASE pendingMessages' = pendingMessages
    BY <1>3, <1>7, <2>2 DEF MessagesKnownAt
  <2> QED
    BY <1>1, <2>1, <2>2 DEF DropOversized, ExhaustPackageIds
<1>8. \A id \in MessageId : notified'[e][id] > 0 => KnownId(e, id)
  BY <1>2, <1>3 DEF MessagesKnownAt
<1> QED
  BY <1>2, <1>5, <1>6, <1>7, <1>8, KnownFrame

(* Lemma: every step keeps message ids unique and known.                     *)
LEMMA KnownStep == TypeOK /\ MessagesKnown /\ [Next]_vars => MessagesKnown'
<1> SUFFICES ASSUME TypeOK, MessagesKnown, [Next]_vars PROVE MessagesKnown'
  OBVIOUS
<1> USE DEF PendingType
<1>1. PendingType
  BY DEF TypeOK
<1>2. \A e \in Device : MessagesKnownAt(e)
  BY DEF MessagesKnown
<1>3. ASSUME UNCHANGED <<accepted, nextMessageId, sdkQueue, notified>>, NEW e \in Device,
             callbacks'[e] \in Seq(UntrackedIds(e)),
             \A id \in MessageId : pendingMessages'[e][id] # {} => pendingMessages[e][id] # {}
      PROVE  MessagesKnownAt(e)'
  BY <1>2, <1>3, KnownFrame DEF MessagesKnownAt
<1>4. ASSUME NEW d \in Device, NEW elapsed \in 1..MaxInterval, BeginPass(d, elapsed)
      PROVE  MessagesKnown'
  <2> SUFFICES ASSUME NEW e \in Device PROVE MessagesKnownAt(e)'
    BY DEF MessagesKnown
  <2>1. callbacks'[e] \in Seq(UntrackedIds(e))
    <3>1. callbacks \in [Device -> Seq(MessageId)] /\ callbacks[e] \in Seq(UntrackedIds(e))
      BY <1>2 DEF TypeOK, MessagesKnownAt
    <3>2. callbacks' = [callbacks EXCEPT ![d] = <<>>]
      BY <1>4 DEF BeginPass
    <3>3. <<>> \in Seq(UntrackedIds(e))
      OBVIOUS
    <3> QED
      BY <3>1, <3>2, <3>3
  <2>2. \A id \in MessageId : pendingMessages'[e][id] # {} => pendingMessages[e][id] # {}
    BY <1>4, PendingBeginPass
  <2> QED
    BY <1>3, <1>4, <2>1, <2>2 DEF BeginPass, history
<1>5. ASSUME NEW d \in Device, Retransmit(d)
      PROVE  MessagesKnown'
  <2> SUFFICES ASSUME NEW e \in Device PROVE MessagesKnownAt(e)'
    BY DEF MessagesKnown
  <2>1. callbacks'[e] \in Seq(UntrackedIds(e))
    BY <1>2, <1>5 DEF Retransmit, MessagesKnownAt
  <2>2. \A id \in MessageId : pendingMessages'[e][id] # {} => pendingMessages[e][id] # {}
    BY <1>5, PendingRetransmit DEF Kept
  <2> QED
    BY <1>3, <1>5, <2>1, <2>2 DEF Retransmit
<1>6. ASSUME NEW d \in Device, RunCallback(d)
      PROVE  MessagesKnown'
  <2> SUFFICES ASSUME NEW e \in Device PROVE MessagesKnownAt(e)'
    BY DEF MessagesKnown
  <2>1. UNCHANGED <<accepted, nextMessageId, sdkQueue, pendingMessages>>
    BY <1>6 DEF RunCallback
  <2>2. /\ callbacks \in [Device -> Seq(MessageId)]
        /\ callbacks' = [callbacks EXCEPT ![d] = Tail(callbacks[d])]
        /\ notified \in [Device -> [MessageId -> Nat]]
        /\ notified' = [notified EXCEPT ![d][Head(callbacks[d])] = @ + 1]
        /\ callbacks[d] # <<>>
    BY <1>6 DEF RunCallback, TypeOK
  <2>3. Head(callbacks[d]) \in UntrackedIds(d) /\ Tail(callbacks[d]) \in Seq(UntrackedIds(d))
    BY <1>2, <2>2, HeadTail DEF MessagesKnownAt
  <2>4. callbacks'[e] \in Seq(UntrackedIds(e))
    BY <1>2, <2>2, <2>3 DEF MessagesKnownAt
  <2>5. ASSUME NEW id \in MessageId, notified'[e][id] > 0
        PROVE  KnownId(e, id)
    <3>1. notified[e][id] > 0 \/ (e = d /\ id = Head(callbacks[d]))
      <4> DEFINE called == Head(callbacks[d])
      <4>1. notified' = [notified EXCEPT ![d][called] = @ + 1] /\ called \in MessageId
        BY <2>2, <2>3 DEF UntrackedIds
      <4> HIDE DEF called
      <4>2. notified[e][id] > 0 \/ (e = d /\ id = called)
        <5>1. notified \in [Device -> [MessageId -> Nat]]
          BY DEF TypeOK
        <5> QED
          BY <2>5, <4>1, <5>1
      <4> QED
        BY <4>2 DEF called
    <3> QED
      BY <1>2, <2>3, <3>1 DEF MessagesKnownAt, UntrackedIds, KnownId
  <2>6. \A id \in MessageId : pendingMessages'[e][id] # {} => KnownId(e, id)
    BY <1>2, <2>1 DEF MessagesKnownAt
  <2>7. sdkQueue'[e] \in Seq(accepted[e])
    BY <1>2, <2>1 DEF MessagesKnownAt
  <2> QED
    BY <2>1, <2>4, <2>5, <2>6, <2>7, KnownFrame
<1>7. ASSUME NEW d \in Device, NEW dg \in net, HandleAck(d, dg)
      PROVE  MessagesKnown'
  <2> SUFFICES ASSUME NEW e \in Device PROVE MessagesKnownAt(e)'
    BY DEF MessagesKnown
  <2> DEFINE ackId == dg.package.ackPackageId
             msgId == packageToMessage[d][ackId]
  <2>1. UNCHANGED <<accepted, nextMessageId, sdkQueue, callbacks>>
    BY <1>7 DEF HandleAck, workerVars
  <2>2. ASSUME NEW id \in MessageId, pendingMessages'[e][id] # {}
        PROVE  pendingMessages[e][id] # {}
    <3>1. Remaining(d, id, ackId) \subseteq pendingMessages[d][id]
      BY DEF Remaining
    <3> QED
      BY <1>7, <2>2, <3>1, PendingAck
  <2>3. ASSUME NEW id \in MessageId, notified'[e][id] > 0
        PROVE  KnownId(e, id)
    <3>1. msgId \in MessageId
      BY <1>7, PendingAck
    <3>2. \/ notified' = notified
          \/ /\ notified' = [notified EXCEPT ![d][msgId] = @ + 1]
             /\ pendingMessages[d][msgId] # {}
      BY <1>7 DEF HandleAck
    <3>3. notified \in [Device -> [MessageId -> Nat]]
      BY DEF TypeOK
    <3> HIDE DEF msgId
    <3>4. notified[e][id] > 0 \/ (e = d /\ id = msgId /\ pendingMessages[d][msgId] # {})
      BY <2>3, <3>1, <3>2, <3>3
    <3> QED
      BY <1>2, <3>1, <3>4 DEF MessagesKnownAt
  <2>4. \A id \in MessageId : pendingMessages'[e][id] # {} => KnownId(e, id)
    BY <1>2, <2>2 DEF MessagesKnownAt
  <2>5. sdkQueue'[e] \in Seq(accepted[e]) /\ callbacks'[e] \in Seq(UntrackedIds(e))
    BY <1>2, <2>1 DEF MessagesKnownAt
  <2> QED
    BY <2>1, <2>3, <2>4, <2>5, KnownFrame
<1>8. CASE UNCHANGED <<accepted, nextMessageId, sdkQueue, callbacks, pendingMessages, notified>>
  <2> SUFFICES ASSUME NEW e \in Device PROVE MessagesKnownAt(e)'
    BY DEF MessagesKnown
  <2> QED
    BY <1>2, <1>3, <1>8 DEF MessagesKnownAt
<1>9. ASSUME NEW d \in Device, Worker(d) PROVE MessagesKnown'
  BY <1>4, <1>5, <1>6, <1>9, KnownProcess DEF Worker
<1>10. ASSUME NEW d \in Device, Application(d) PROVE MessagesKnown'
  BY <1>8, <1>10, KnownSend DEF Application, SetRetransmissionConfig, workerVars, history
<1>11. CASE Network
  <2>1. PICK dg \in net, d \in Device :
            ReceiveFragment(d, dg) \/ HandleAck(d, dg) \/ IgnoreAck(d, dg)
    BY <1>11 DEF Network
  <2>2. CASE ReceiveFragment(d, dg) \/ IgnoreAck(d, dg)
    BY <1>8, <2>2 DEF ReceiveFragment, IgnoreAck, workerVars, history
  <2> QED
    BY <1>7, <2>1, <2>2
<1>12. CASE UNCHANGED vars
  BY <1>8, <1>12 DEF vars, workerVars, history
<1> QED
  BY <1>9, <1>10, <1>11, <1>12 DEF Next

-----------------------------------------------------------------------------
(* PackagesUnique *)

(* Lemma: what the fragments of a message look like.                         *)
LEMMA FragmentsAre ==
    ASSUME NEW d \in Device, NEW m \in Message, NEW n \in Nat, NEW p \in Fragments(d, m, n)
    PROVE  \E i \in 0..(n - 1) : /\ p = Fragment(d, m, i, nextPackageId[d] + i)
                                 /\ p.packageId = nextPackageId[d] + i
                                 /\ p.fragmentId = i
                                 /\ p.payload = d
                                 /\ p.messageId = m.id
                                 /\ p.format = "DATA"
BY DEF Fragments, Fragment

(* Lemma: fragments with fresh package ids keep the package ids unique.      *)
LEMMA UniqueNew ==
    ASSUME TypeOK, PackagesUnique, NEW d \in Device, NEW m \in Message, NEW n \in Nat,
           transmitted' = [transmitted EXCEPT ![d] = @ \cup Fragments(d, m, n)],
           nextPackageId' \in [Device -> Nat], nextPackageId'[d] >= nextPackageId[d] + n,
           \A e \in Device \ {d} : nextPackageId'[e] = nextPackageId[e]
    PROVE  PackagesUnique'
<1> SUFFICES ASSUME NEW e \in Device,
                    NEW p \in transmitted'[e], NEW q \in transmitted'[e]
             PROVE  /\ p.payload = e /\ p.packageId < nextPackageId'[e]
                    /\ p.packageId = q.packageId => p = q
  BY DEF PackagesUnique
<1>1. /\ transmitted \in [Device -> SUBSET DataPackage]
      /\ nextPackageId \in [Device -> 1..(MaxPackageId + 1)]
  BY DEF TypeOK
<1>2. \A r \in transmitted[e] : /\ r.packageId \in Nat /\ r.packageId < nextPackageId[e]
                                /\ r.payload = e
  BY <1>1 DEF PackagesUnique, DataPackage
<1>3. \A r, t \in transmitted[e] : r.packageId = t.packageId => r = t
  BY DEF PackagesUnique
<1>4. CASE e # d
  BY <1>1, <1>2, <1>3, <1>4
<1>5. CASE e = d
  <2>1. transmitted'[e] = transmitted[e] \cup Fragments(d, m, n)
    BY <1>1, <1>5
  <2>2. nextPackageId[d] \in Nat /\ nextPackageId'[d] \in Nat
    BY <1>1
  <2>3. ASSUME NEW r \in Fragments(d, m, n)
        PROVE  \E i \in 0..(n - 1) : /\ r = Fragment(d, m, i, nextPackageId[d] + i)
                                     /\ r.packageId = nextPackageId[d] + i
                                     /\ r.payload = d
    BY FragmentsAre
  <2>4. p.payload = e /\ p.packageId < nextPackageId'[e]
    BY <1>2, <1>5, <2>1, <2>2, <2>3
  <2>5. ASSUME p.packageId = q.packageId PROVE p = q
    <3>1. CASE p \in transmitted[e] /\ q \in transmitted[e]
      BY <1>3, <2>5, <3>1
    <3>2. CASE p \in Fragments(d, m, n) /\ q \in Fragments(d, m, n)
      <4>1. PICK i \in 0..(n - 1) : /\ p = Fragment(d, m, i, nextPackageId[d] + i)
                                    /\ p.packageId = nextPackageId[d] + i
        BY <2>3, <3>2
      <4>2. PICK j \in 0..(n - 1) : /\ q = Fragment(d, m, j, nextPackageId[d] + j)
                                    /\ q.packageId = nextPackageId[d] + j
        BY <2>3, <3>2
      <4>3. i = j
        BY <2>2, <2>5, <4>1, <4>2
      <4> QED
        BY <4>1, <4>2, <4>3
    <3>3. CASE p \in transmitted[e] /\ q \in Fragments(d, m, n)
      BY <1>2, <1>5, <2>2, <2>3, <2>5, <3>3
    <3>4. CASE q \in transmitted[e] /\ p \in Fragments(d, m, n)
      BY <1>2, <1>5, <2>2, <2>3, <2>5, <3>4
    <3> QED
      BY <2>1, <3>1, <3>2, <3>3, <3>4
  <2> QED
    BY <2>4, <2>5
<1> QED
  BY <1>4, <1>5

(* Lemma: every step keeps package ids unique.                               *)
LEMMA UniqueStep == TypeOK /\ PackagesUnique /\ [Next]_vars => PackagesUnique'
<1> SUFFICES ASSUME TypeOK, PackagesUnique, [Next]_vars PROVE PackagesUnique'
  OBVIOUS
<1>1. nextPackageId \in [Device -> 1..(MaxPackageId + 1)]
  BY DEF TypeOK
<1>2. nextPackageId' \in [Device -> Nat]
  <2>1. nextPackageId' \in [Device -> 1..(MaxPackageId + 1)]
    BY TypeStep DEF TypeOK
  <2> QED
    BY <2>1
<1>3. ASSUME NEW d \in Device, ProcessMessage(d) PROVE PackagesUnique'
  <2>1. PICK m \in Message :
            DropOversized(d, m) \/ SendFragments(d, m) \/ ExhaustPackageIds(d, m)
    BY <1>3 DEF ProcessMessage
  <2>2. CASE DropOversized(d, m)
    BY <2>2 DEF DropOversized, PackagesUnique, ackVars, history
  <2>3. CASE SendFragments(d, m)
    <3> DEFINE total == TotalFragments(m.size)
    <3>1. total \in Nat
      BY TotalFragmentsType DEF Message
    <3>2. /\ transmitted' = [transmitted EXCEPT ![d] = @ \cup Fragments(d, m, total)]
          /\ nextPackageId' = [nextPackageId EXCEPT ![d] = @ + total]
      BY <2>3 DEF SendFragments
    <3> HIDE DEF total
    <3>3. /\ nextPackageId'[d] >= nextPackageId[d] + total
          /\ \A e \in Device \ {d} : nextPackageId'[e] = nextPackageId[e]
      BY <1>1, <3>1, <3>2
    <3> QED
      BY <1>2, <3>1, <3>2, <3>3, UniqueNew
  <2>4. CASE ExhaustPackageIds(d, m)
    <3>1. PICK n \in 0..(MaxPackageId + 1 - nextPackageId[d]) :
              transmitted' = [transmitted EXCEPT ![d] = @ \cup Fragments(d, m, n)]
      BY <2>4 DEF ExhaustPackageIds
    <3>2. nextPackageId' = [nextPackageId EXCEPT ![d] = MaxPackageId + 1]
      BY <2>4 DEF ExhaustPackageIds
    <3>3. /\ n \in Nat /\ nextPackageId'[d] >= nextPackageId[d] + n
          /\ \A e \in Device \ {d} : nextPackageId'[e] = nextPackageId[e]
      BY <1>1, <3>1, <3>2
    <3> QED
      BY <1>2, <3>1, <3>3, UniqueNew
  <2> QED
    BY <2>1, <2>2, <2>3, <2>4
<1>4. ASSUME NEW d \in Device, NEW dg \in net, ReceiveFragment(d, dg) PROVE PackagesUnique'
  <2>1. UNCHANGED transmitted
    BY <1>4 DEF ReceiveFragment
  <2>2. \A e \in Device : nextPackageId'[e] >= nextPackageId[e]
    <3>1. \/ nextPackageId' = nextPackageId
          \/ nextPackageId' = [nextPackageId EXCEPT ![d] = @ + 1]
      BY <1>4 DEF ReceiveFragment, SendAck
    <3> QED
      BY <1>1, <3>1
  <2>3. \A e \in Device : \A p \in transmitted[e] : p.packageId \in Nat
    <3>1. transmitted \in [Device -> SUBSET DataPackage]
      BY DEF TypeOK
    <3> QED
      BY <3>1 DEF DataPackage
  <2> QED
    BY <1>1, <1>2, <2>1, <2>2, <2>3 DEF PackagesUnique
<1>5. CASE UNCHANGED <<transmitted, nextPackageId>>
  BY <1>5 DEF PackagesUnique
<1>6. ASSUME NEW d \in Device, Worker(d) PROVE PackagesUnique'
  BY <1>3, <1>5, <1>6 DEF Worker, BeginPass, Retransmit, RunCallback, ackVars, history
<1>7. ASSUME NEW d \in Device, Application(d) PROVE PackagesUnique'
  BY <1>5, <1>7 DEF Application, Send, SetRetransmissionConfig, ackVars, history
<1>8. CASE Network
  BY <1>4, <1>5, <1>8 DEF Network, HandleAck, IgnoreAck, ackVars, history
<1>9. CASE UNCHANGED vars
  BY <1>5, <1>9 DEF vars, ackVars, history
<1> QED
  BY <1>6, <1>7, <1>8, <1>9 DEF Next

-----------------------------------------------------------------------------
(* PackagesGenuine *)

(* Lemma: what was transmitted or heard stays so.                            *)
LEMMA HistoryGrows ==
    ASSUME TypeOK, [Next]_vars, NEW e \in Device
    PROVE  transmitted[e] \subseteq transmitted'[e] /\ heard[e] \subseteq heard'[e]
<1>1. /\ transmitted \in [Device -> SUBSET DataPackage]
      /\ heard \in [Device -> SUBSET DataPackage]
  BY DEF TypeOK
<1>2. ASSUME NEW d \in Device, Worker(d)
      PROVE  transmitted[e] \subseteq transmitted'[e] /\ heard[e] \subseteq heard'[e]
  <2>1. heard' = heard
    BY <1>2 DEF Worker, BeginPass, ProcessMessage, DropOversized, SendFragments,
                ExhaustPackageIds, Retransmit, RunCallback, history
  <2>2. \/ transmitted' = transmitted
        \/ \E S : transmitted' = [transmitted EXCEPT ![d] = @ \cup S]
    BY <1>2 DEF Worker, BeginPass, ProcessMessage, DropOversized, SendFragments,
                ExhaustPackageIds, Retransmit, RunCallback, history
  <2> QED
    BY <1>1, <2>1, <2>2
<1>3. ASSUME NEW d \in Device, Application(d)
      PROVE  transmitted[e] \subseteq transmitted'[e] /\ heard[e] \subseteq heard'[e]
  BY <1>3 DEF Application, Send, SetRetransmissionConfig, history
<1>4. CASE Network
  <2> PICK dg \in net, d \in Device :
          ReceiveFragment(d, dg) \/ HandleAck(d, dg) \/ IgnoreAck(d, dg)
    BY <1>4 DEF Network
  <2>1. transmitted' = transmitted
    BY DEF ReceiveFragment, HandleAck, IgnoreAck, history
  <2>2. heard' = heard \/ heard' = [heard EXCEPT ![d] = @ \cup {dg.package}]
    BY DEF ReceiveFragment, HandleAck, IgnoreAck, history
  <2> QED
    BY <1>1, <2>1, <2>2
<1>5. CASE UNCHANGED vars
  BY <1>5 DEF vars, history
<1> QED
  BY <1>2, <1>3, <1>4, <1>5 DEF Next

(* Lemma: only receivePackage makes something heard.                         *)
LEMMA HeardFrame ==
    ASSUME [Next]_vars, \A dg \in net, d \in Device : ~ReceiveFragment(d, dg)
    PROVE  UNCHANGED heard
<1>1. ASSUME NEW d \in Device, Worker(d) PROVE UNCHANGED heard
  BY <1>1 DEF Worker, BeginPass, ProcessMessage, DropOversized, SendFragments,
              ExhaustPackageIds, Retransmit, RunCallback, history
<1>2. ASSUME NEW d \in Device, Application(d) PROVE UNCHANGED heard
  BY <1>2 DEF Application, Send, SetRetransmissionConfig, history
<1>3. CASE Network
  BY <1>3 DEF Network, HandleAck, IgnoreAck, history
<1>4. CASE UNCHANGED vars
  BY <1>4 DEF vars, history
<1> QED
  BY <1>1, <1>2, <1>3, <1>4 DEF Next

(* A datagram that carries a package its sender has cut. *)
CarriesFragment(dg) ==
    /\ dg.from \in Device /\ dg.to \in Listeners[dg.from]
    /\ dg.package.format = "DATA" /\ dg.package \in transmitted'[dg.from]

(* A datagram that answers one its sender has just received. *)
CarriesAck(dg) ==
    /\ dg.from \in Device /\ dg.to \in Listeners[dg.from]
    /\ dg.package.format = "CONFIRMATION"
    /\ \E got \in net : /\ got.to = dg.from /\ got.package.format = "DATA"
                        /\ got.package \in heard'[dg.from]
                        /\ dg.package.ackPackageId = got.package.packageId

(* Lemma: where the datagrams of the next state come from.                   *)
LEMMA NetOrigin ==
    ASSUME TypeOK, PackagesGenuine, [Next]_vars, NEW dg \in net'
    PROVE  dg \in net \/ CarriesFragment(dg) \/ CarriesAck(dg)
<1>1. ASSUME NEW d \in Device, ProcessMessage(d)
      PROVE  dg \in net \/ CarriesFragment(dg)
  <2>1. PICK m \in Message :
            DropOversized(d, m) \/ SendFragments(d, m) \/ ExhaustPackageIds(d, m)
    BY <1>1 DEF ProcessMessage
  <2>2. CASE DropOversized(d, m)
    BY <2>2 DEF DropOversized
  <2>3. CASE ~DropOversized(d, m)
    <3>1. PICK n \in Nat : /\ net' = net \cup Datagrams(d, Fragments(d, m, n), 1)
                           /\ transmitted' = [transmitted EXCEPT ![d] = @ \cup Fragments(d, m, n)]
      <4>1. TotalFragments(m.size) \in Nat
        BY TotalFragmentsType DEF Message
      <4>2. \A n \in 0..(MaxPackageId + 1 - nextPackageId[d]) : n \in Nat
        OBVIOUS
      <4> QED
        BY <2>1, <2>3, <4>1, <4>2 DEF SendFragments, ExhaustPackageIds
    <3>2. transmitted'[d] = transmitted[d] \cup Fragments(d, m, n)
      BY <3>1 DEF TypeOK
    <3>3. CASE dg \in Datagrams(d, Fragments(d, m, n), 1)
      <4>1. PICK e \in Listeners[d], p \in Fragments(d, m, n) :
                dg = [from |-> d, to |-> e, package |-> p, try |-> 1]
        BY <3>3 DEF Datagrams
      <4>2. p.format = "DATA"
        BY FragmentsAre
      <4> QED
        BY <3>2, <4>1, <4>2 DEF CarriesFragment
    <3> QED
      BY <3>1, <3>3
  <2> QED
    BY <2>2, <2>3
<1>2. ASSUME NEW d \in Device, Retransmit(d)
      PROVE  dg \in net \/ CarriesFragment(dg)
  <2>1. CASE dg \notin net
    <3>1. PICK info \in Resent(d) : dg \in Datagrams(d, {info.package}, info.attempts + 1)
      BY <1>2, <2>1 DEF Retransmit
    <3>2. PICK id \in MessageId : info \in Kept(d, id)
      BY <3>1 DEF Resent
    <3>3. /\ dg.from = d /\ dg.to \in Listeners[d]
          /\ dg.package = info.package /\ transmitted' = transmitted
      BY <1>2, <3>1 DEF Datagrams, Retransmit
    <3>4. info.package \in transmitted[d] /\ info.package \in DataPackage
      BY <3>2, RetryType DEF Kept, PackagesGenuine, PendingPackageInfo
    <3> QED
      BY <3>3, <3>4 DEF CarriesFragment, DataPackage
  <2> QED
    BY <2>1
<1>3. ASSUME NEW d \in Device, NEW got \in net, ReceiveFragment(d, got)
      PROVE  dg \in net \/ CarriesAck(dg)
  <2> DEFINE pkg == got.package
  <2>1. /\ dg \in net \/ dg \in Datagrams(d, Acks(d, pkg), 1)
        /\ got.to = d /\ pkg.format = "DATA"
        /\ heard' = [heard EXCEPT ![d] = @ \cup {pkg}]
    BY <1>3 DEF ReceiveFragment, Consume
  <2>2. pkg \in heard'[d]
    BY <2>1 DEF TypeOK
  <2>3. CASE dg \in Datagrams(d, Acks(d, pkg), 1)
    <3>1. /\ dg.from = d /\ dg.to \in Listeners[d]
          /\ dg.package = Acknowledgement(d, pkg)
      BY <2>3 DEF Datagrams, Acks
    <3> QED
      BY <2>1, <2>2, <3>1 DEF CarriesAck, Acknowledgement
  <2> QED
    BY <2>1, <2>3
<1>4. CASE net' \subseteq net
  BY <1>4
<1>5. ASSUME NEW d \in Device, Worker(d) PROVE dg \in net \/ CarriesFragment(dg)
  BY <1>1, <1>2, <1>4, <1>5 DEF Worker, BeginPass, RunCallback
<1>6. ASSUME NEW d \in Device, Application(d) PROVE dg \in net
  BY <1>6 DEF Application, Send, SetRetransmissionConfig
<1>7. CASE Network
  <2>1. PICK got \in net, d \in Device :
            ReceiveFragment(d, got) \/ HandleAck(d, got) \/ IgnoreAck(d, got)
    BY <1>7 DEF Network
  <2>2. CASE HandleAck(d, got) \/ IgnoreAck(d, got)
    <3>1. net' \subseteq net
      BY <2>2 DEF HandleAck, IgnoreAck, Consume
    <3> QED
      BY <1>4, <3>1
  <2> QED
    BY <1>3, <2>1, <2>2
<1>8. CASE UNCHANGED vars
  BY <1>8 DEF vars
<1> QED
  BY <1>5, <1>6, <1>7, <1>8 DEF Next

(* Lemma: where the pending packages of the next state come from.            *)
LEMMA PendingOrigin ==
    ASSUME TypeOK, [Next]_vars, NEW e \in Device, NEW id \in MessageId,
           NEW i \in pendingMessages'[e][id]
    PROVE  \/ \E k \in pendingMessages[e][id] : k.package = i.package
           \/ \E m \in Message : /\ SendFragments(e, m) /\ id = m.id
                                  /\ i.package \in Fragments(e, m, TotalFragments(m.size))
<1>1. \A k \in pendingMessages[e][id] : k \in PendingPackageInfo
  <2>1. PendingType
    BY DEF TypeOK, PendingType
  <2> QED
    BY <2>1 DEF PendingType
<1>2. ASSUME NEW d \in Device, NEW elapsed \in 1..MaxInterval, BeginPass(d, elapsed)
      PROVE  \E k \in pendingMessages[e][id] : k.package = i.package
  BY <1>1, <1>2, PendingBeginPass, RetryAlike
<1>3. ASSUME NEW d \in Device, NEW m \in Message, SendFragments(d, m)
      PROVE  \/ i \in pendingMessages[e][id]
             \/ /\ e = d /\ id = m.id
                /\ i.package \in Fragments(d, m, TotalFragments(m.size))
  BY <1>3, PendingSend
<1>4. ASSUME NEW d \in Device, Retransmit(d)
      PROVE  \E k \in pendingMessages[e][id] : k.package = i.package
  <2>1. CASE e = d
    <3>1. PICK k \in Kept(d, id) : i = Retry(d, k)
      BY <1>4, <2>1, PendingRetransmit
    <3> QED
      BY <1>1, <2>1, <3>1, RetryAlike DEF Kept
  <2>2. CASE e # d
    BY <1>4, <2>2, PendingRetransmit
  <2> QED
    BY <2>1, <2>2
<1>5. ASSUME NEW d \in Device, NEW dg \in net, HandleAck(d, dg)
      PROVE  i \in pendingMessages[e][id]
  <2> DEFINE ackId == dg.package.ackPackageId
  <2>1. Remaining(d, id, ackId) \subseteq pendingMessages[d][id]
    BY DEF Remaining
  <2>2. pendingMessages'[e][id] = pendingMessages[e][id]
        \/ (e = d /\ pendingMessages'[e][id] = Remaining(d, id, ackId))
    BY <1>5, PendingAck
  <2> QED
    BY <2>1, <2>2
<1> QED
  BY <1>2, <1>3, <1>4, <1>5, PendingFrame

(* Lemma: every step keeps packages and acknowledgements genuine.            *)
LEMMA GenuineStep ==
    TypeOK /\ PackagesUnique /\ PackagesGenuine /\ [Next]_vars => PackagesGenuine'
<1> SUFFICES ASSUME TypeOK, PackagesUnique, PackagesGenuine, [Next]_vars
             PROVE  PackagesGenuine'
  OBVIOUS
<1>1. ASSUME NEW d \in Device, NEW id \in MessageId, NEW i \in pendingMessages'[d][id]
      PROVE  i.package \in transmitted'[d] /\ i.package.messageId = id
  <2>1. CASE \E k \in pendingMessages[d][id] : k.package = i.package
    BY <2>1, HistoryGrows DEF PackagesGenuine
  <2>2. ASSUME NEW m \in Message, SendFragments(d, m), id = m.id,
               i.package \in Fragments(d, m, TotalFragments(m.size))
        PROVE  i.package \in transmitted'[d] /\ i.package.messageId = id
    <3>1. TotalFragments(m.size) \in Nat
      BY TotalFragmentsType DEF Message
    <3>2. i.package.messageId = id
      BY <2>2, <3>1, FragmentsAre
    <3>3. Fragments(d, m, TotalFragments(m.size)) \subseteq transmitted'[d]
      BY <2>2 DEF SendFragments, TypeOK
    <3> QED
      BY <2>2, <3>2, <3>3
  <2> QED
    BY <1>1, <2>1, <2>2, PendingOrigin
<1>2. ASSUME NEW dg \in net'
      PROVE  /\ dg.to \in Listeners[dg.from]
             /\ dg.package.format = "DATA" => dg.package \in transmitted'[dg.from]
  <2>1. CASE dg \in net
    <3>1. dg.from \in Device
      BY <2>1 DEF TypeOK, Datagram
    <3> QED
      BY <2>1, <3>1, HistoryGrows DEF PackagesGenuine
  <2>2. CASE CarriesFragment(dg)
    BY <2>2 DEF CarriesFragment
  <2>3. CASE CarriesAck(dg)
    BY <2>3 DEF CarriesAck
  <2> QED
    BY <2>1, <2>2, <2>3, NetOrigin
<1>3. ASSUME NEW e \in Device, NEW p \in heard'[e]
      PROVE  p \in transmitted'[p.payload] /\ e \in Listeners[p.payload]
  <2>1. /\ heard \in [Device -> SUBSET DataPackage]
        /\ net \subseteq Datagram
    BY DEF TypeOK
  <2>2. CASE p \in heard[e]
    <3>1. p.payload \in Device
      BY <2>1, <2>2 DEF DataPackage
    <3> QED
      BY <2>2, <3>1, HistoryGrows DEF PackagesGenuine
  <2>3. CASE p \notin heard[e]
    <3>1. PICK dg \in net, d \in Device : ReceiveFragment(d, dg)
      BY <1>3, <2>3, HeardFrame
    <3>2. heard' = [heard EXCEPT ![d] = @ \cup {dg.package}]
      BY <3>1 DEF ReceiveFragment
    <3>3. e = d /\ p = dg.package
      BY <1>3, <2>1, <2>3, <3>2
    <3>4. dg.to = e /\ p.format = "DATA" /\ dg.from \in Device
      BY <2>1, <3>1, <3>3 DEF ReceiveFragment, Datagram
    <3>5. p \in transmitted[dg.from] /\ p.payload = dg.from
      BY <3>3, <3>4 DEF PackagesGenuine, PackagesUnique
    <3> QED
      BY <3>3, <3>4, <3>5, HistoryGrows DEF PackagesGenuine
  <2> QED
    BY <2>2, <2>3
<1> QED
  BY <1>1, <1>2, <1>3 DEF PackagesGenuine

(* Lemma: who talks to one other only hears that one only.                   *)
LEMMA TwoOnly ==
    ASSUME PointToPoint, NEW d \in Device, NEW e \in Listeners[d]
    PROVE  e \in Device /\ Listeners[d] = {e} /\ Listeners[e] = {d}
<1>1. PICK f \in Device \ {d} : Listeners[d] = {f} /\ Listeners[f] = {d}
  BY DEF PointToPoint
<1> QED
  BY <1>1

(* Lemma: an acknowledgement follows a fragment back to who sent it, if      *)
(* everybody talks to one other only.                                        *)
LEMMA AcksStep ==
    ASSUME PointToPoint
    PROVE  /\ TypeOK /\ PackagesUnique /\ PackagesGenuine /\ AcksGenuine
           /\ [Next]_vars
           => AcksGenuine'
<1> SUFFICES ASSUME TypeOK, PackagesUnique, PackagesGenuine, AcksGenuine, [Next]_vars,
                    NEW dg \in net', dg.package.format = "CONFIRMATION"
             PROVE  \E p \in heard'[dg.from] :
                        p.packageId = dg.package.ackPackageId /\ p.payload = dg.to
  BY DEF AcksGenuine
<1>1. CASE dg \in net
  <2>1. dg.from \in Device
    BY <1>1 DEF TypeOK, Datagram
  <2> QED
    BY <1>1, <2>1, HistoryGrows DEF AcksGenuine
<1>2. CASE CarriesAck(dg)
  <2>1. PICK got \in net : /\ got.to = dg.from /\ got.package.format = "DATA"
                           /\ got.package \in heard'[dg.from]
                           /\ dg.package.ackPackageId = got.package.packageId
    BY <1>2 DEF CarriesAck
  <2>2. /\ got.from \in Device /\ dg.from \in Device
        /\ dg.to \in Listeners[dg.from] /\ got.to \in Listeners[got.from]
    BY <1>2, <2>1 DEF CarriesAck, PackagesGenuine, TypeOK, Datagram
  <2>3. got.package.payload = got.from
    BY <2>1, <2>2 DEF PackagesGenuine, PackagesUnique
  <2>4. dg.to = got.from
    BY <2>1, <2>2, TwoOnly
  <2> QED
    BY <2>1, <2>3, <2>4
<1>3. CASE CarriesFragment(dg)
  BY <1>3 DEF CarriesFragment
<1> QED
  BY <1>1, <1>2, <1>3, NetOrigin

-----------------------------------------------------------------------------
(* NothingGivenUp and NotifiedMeansArrived *)

(* Lemma: a pass gives up all packages of a message or none.                 *)
LEMMA KeptAllOrNone ==
    ASSUME TypeOK, Lockstep, NEW d \in Device, NEW id \in MessageId, Kept(d, id) # {}
    PROVE  Kept(d, id) = pendingMessages[d][id]
<1>1. PICK k \in pendingMessages[d][id] : ~Exhausted(d, k)
  BY DEF Kept
<1>2. \A i \in pendingMessages[d][id] :
          i \in PendingPackageInfo /\ i.attempts = k.attempts /\ i.age = k.age
  <2>1. PendingType
    BY DEF TypeOK, PendingType
  <2> QED
    BY <1>1, <2>1 DEF PendingType, Lockstep
<1>3. \A i \in pendingMessages[d][id] : ~Exhausted(d, i)
  BY <1>1, <1>2, RetryAlike
<1> QED
  BY <1>3 DEF Kept

(* Lemma: a message that is new is numbered with an id nobody knows.         *)
LEMMA AcceptedOrigin ==
    ASSUME TypeOK, [Next]_vars, NEW d \in Device, NEW m \in accepted'[d], m \notin accepted[d]
    PROVE  m.id = nextMessageId[d] /\ UNCHANGED <<pendingMessages, notified>>
<1>1. accepted \in [Device -> SUBSET Message]
  BY DEF TypeOK
<1>2. ASSUME NEW e \in Device, NEW size \in Sizes, NEW requireAck \in BOOLEAN,
             Send(e, size, requireAck)
      PROVE  m.id = nextMessageId[d] /\ UNCHANGED <<pendingMessages, notified>>
  <2> DEFINE new == [id |-> nextMessageId[e], size |-> size, requireAck |-> requireAck]
  <2>1. accepted' = [accepted EXCEPT ![e] = @ \cup {new}] /\ new.id = nextMessageId[e]
    BY <1>2 DEF Send
  <2> HIDE DEF new
  <2>2. d = e /\ m = new
    BY <1>1, <2>1
  <2> QED
    BY <1>2, <2>1, <2>2 DEF Send
<1>3. CASE accepted' = accepted
  BY <1>3
<1>4. ASSUME NEW e \in Device, Worker(e) PROVE accepted' = accepted
  BY <1>4 DEF Worker, BeginPass, ProcessMessage, DropOversized, SendFragments,
              ExhaustPackageIds, Retransmit, RunCallback, history
<1>5. ASSUME NEW e \in Device, Application(e)
      PROVE  m.id = nextMessageId[d] /\ UNCHANGED <<pendingMessages, notified>>
  BY <1>2, <1>3, <1>5 DEF Application, SetRetransmissionConfig, history
<1>6. CASE Network
  <2>1. PICK dg \in net, e \in Device :
            ReceiveFragment(e, dg) \/ HandleAck(e, dg) \/ IgnoreAck(e, dg)
    BY <1>6 DEF Network
  <2> QED
    BY <1>3, <2>1 DEF ReceiveFragment, HandleAck, IgnoreAck, history
<1>7. CASE UNCHANGED vars
  BY <1>3, <1>7 DEF vars, history
<1> QED
  BY <1>3, <1>4, <1>5, <1>6, <1>7 DEF Next

(* Lemma: an acknowledged package has been heard by the one that listens.    *)
LEMMA AckedWasHeard ==
    ASSUME PointToPoint, TypeOK, PackagesUnique, PackagesGenuine, AcksGenuine,
           NEW d \in Device, NEW dg \in net, HandleAck(d, dg), NEW id \in MessageId,
           NEW info \in pendingMessages[d][id],
           info.package.packageId = dg.package.ackPackageId
    PROVE  /\ dg.from \in Device /\ Listeners[d] = {dg.from}
           /\ info.package \in heard[dg.from]
           /\ info.package.payload = d /\ info.package.messageId = id
<1>1. dg.to = d /\ dg.package.format = "CONFIRMATION"
  BY DEF HandleAck
<1>2. dg.from \in Device /\ d \in Listeners[dg.from]
  BY <1>1 DEF TypeOK, Datagram, PackagesGenuine
<1>3. PICK p \in heard[dg.from] : p.packageId = dg.package.ackPackageId /\ p.payload = d
  BY <1>1 DEF AcksGenuine
<1>4. p \in transmitted[d]
  BY <1>2, <1>3 DEF PackagesGenuine
<1>5. info.package \in transmitted[d] /\ info.package.messageId = id
  BY DEF PackagesGenuine
<1>6. info.package = p
  BY <1>3, <1>4, <1>5 DEF PackagesUnique
<1> QED
  BY <1>2, <1>3, <1>5, <1>6, TwoOnly

(* Lemma: no step gives up a fragment of a message that stays pending.       *)
LEMMA NothingGivenUpStep ==
    ASSUME PointToPoint, TypeOK, MessagesKnown, PackagesUnique, PackagesGenuine, AcksGenuine,
           Lockstep, NothingGivenUp, [Next]_vars
    PROVE  NothingGivenUp'
<1> SUFFICES ASSUME NEW d \in Device, NEW m \in Tracked(d)', pendingMessages'[d][m.id] # {},
                    NEW e \in Listeners[d], NEW i \in 0..(TotalFragments(m.size) - 1)
             PROVE  FragmentPending(d, m, i)' \/ FragmentHeard(d, m, i, e)'
  BY DEF NothingGivenUp
<1>1. /\ m \in accepted'[d] /\ IsTracked(m)
      /\ m \in Message /\ m.id \in MessageId /\ e \in Device
  <2>1. m \in accepted'[d] /\ IsTracked(m)
    BY DEF Tracked
  <2>2. accepted' \in [Device -> SUBSET Message]
    BY TypeStep DEF TypeOK
  <2> QED
    BY <2>1, <2>2 DEF Message
<1>2. m \in accepted[d]
  <2> SUFFICES ASSUME m \notin accepted[d] PROVE FALSE
    OBVIOUS
  <2>1. m.id = nextMessageId[d] /\ pendingMessages[d][m.id] # {}
    BY <1>1, AcceptedOrigin
  <2>2. KnownId(d, m.id) /\ \A n \in accepted[d] : n.id < nextMessageId[d]
    BY <1>1, <2>1 DEF MessagesKnown, MessagesKnownAt
  <2>3. nextMessageId[d] \in Nat
    <3>1. nextMessageId \in [Device -> 1..(MaxMessageId + 1)]
      BY DEF TypeOK
    <3> QED
      BY <3>1
  <2> QED
    BY <2>1, <2>2, <2>3 DEF KnownId
<1>3. FragmentHeard(d, m, i, e) => FragmentHeard(d, m, i, e)'
  BY <1>1, HistoryGrows DEF FragmentHeard
<1>4. pendingMessages[d][m.id] # {} => FragmentPending(d, m, i) \/ FragmentHeard(d, m, i, e)
  BY <1>1, <1>2 DEF NothingGivenUp, Tracked
<1>5. \A k \in pendingMessages[d][m.id] : k \in PendingPackageInfo
  <2>1. PendingType
    BY DEF TypeOK, PendingType
  <2> QED
    BY <1>1, <2>1 DEF PendingType
<1>6. CASE pendingMessages'[d][m.id] = pendingMessages[d][m.id]
  BY <1>3, <1>4, <1>6 DEF FragmentPending
<1>7. ASSUME NEW f \in Device, NEW elapsed \in 1..MaxInterval, BeginPass(f, elapsed)
      PROVE  FragmentPending(d, m, i)' \/ FragmentHeard(d, m, i, e)'
  <2>1. CASE f = d
    <3>1. pendingMessages[d][m.id] # {}
      BY <1>1, <1>7, <2>1, PendingBeginPass
    <3>2. ASSUME NEW k \in pendingMessages[d][m.id], k.package.fragmentId = i
          PROVE  FragmentPending(d, m, i)'
      <4>1. Older(k, elapsed) \in pendingMessages'[d][m.id]
        BY <1>1, <1>7, <2>1, PendingBeginPass
      <4>2. Older(k, elapsed).package = k.package
        BY <1>5, RetryAlike
      <4> QED
        BY <3>2, <4>1, <4>2 DEF FragmentPending
    <3> QED
      BY <1>3, <1>4, <3>1, <3>2 DEF FragmentPending
  <2>2. CASE f # d
    BY <1>1, <1>6, <1>7, <2>2, PendingBeginPass
  <2> QED
    BY <2>1, <2>2
<1>8. ASSUME NEW f \in Device, NEW n \in Message, SendFragments(f, n)
      PROVE  FragmentPending(d, m, i)' \/ FragmentHeard(d, m, i, e)'
  <2>1. CASE f = d /\ m.id = n.id /\ n.requireAck
    <3>1. n \in accepted[d]
      <4>1. sdkQueue[d] \in Seq(accepted[d]) /\ sdkQueue[d] # <<>> /\ n = Head(sdkQueue[d])
        BY <1>8, <2>1 DEF SendFragments, NextInQueue, MessagesKnown, MessagesKnownAt
      <4> QED
        BY <4>1, HeadTail
    <3>2. n = m
      BY <1>2, <2>1, <3>1 DEF MessagesKnown, MessagesKnownAt
    <3> DEFINE p == Fragment(d, m, i, nextPackageId[d] + i)
    <3>3. p \in Fragments(d, n, TotalFragments(n.size)) /\ p.fragmentId = i
      BY <3>2 DEF Fragments, Fragment
    <3> HIDE DEF p
    <3>4. [package |-> p, attempts |-> 1, age |-> 0] \in pendingMessages'[d][m.id]
      BY <1>1, <1>8, <2>1, <3>3, PendingSend
    <3> QED
      BY <3>3, <3>4 DEF FragmentPending
  <2>2. CASE ~(f = d /\ m.id = n.id /\ n.requireAck)
    BY <1>1, <1>6, <1>8, <2>2, PendingSend
  <2> QED
    BY <2>1, <2>2
<1>9. ASSUME NEW f \in Device, Retransmit(f)
      PROVE  FragmentPending(d, m, i)' \/ FragmentHeard(d, m, i, e)'
  <2>1. CASE f = d
    <3>1. Kept(d, m.id) # {}
      BY <1>1, <1>9, <2>1, PendingRetransmit
    <3>2. Kept(d, m.id) = pendingMessages[d][m.id]
      BY <1>1, <3>1, KeptAllOrNone
    <3>3. ASSUME NEW k \in pendingMessages[d][m.id], k.package.fragmentId = i
          PROVE  FragmentPending(d, m, i)'
      BY <1>1, <1>5, <1>9, <2>1, <3>2, <3>3, PendingRetransmit, RetryAlike DEF FragmentPending
    <3> QED
      BY <1>3, <1>4, <3>1, <3>2, <3>3 DEF FragmentPending
  <2>2. CASE f # d
    BY <1>1, <1>6, <1>9, <2>2, PendingRetransmit
  <2> QED
    BY <2>1, <2>2
<1>10. ASSUME NEW f \in Device, NEW dg \in net, HandleAck(f, dg)
       PROVE  FragmentPending(d, m, i)' \/ FragmentHeard(d, m, i, e)'
  <2> DEFINE ackId == dg.package.ackPackageId
             msgId == packageToMessage[f][ackId]
  <2>1. CASE f = d /\ m.id = msgId
    <3>1. pendingMessages'[d][m.id] = Remaining(d, m.id, ackId)
      BY <1>1, <1>10, <2>1, PendingAck
    <3>2. pendingMessages[d][m.id] # {}
      BY <3>1 DEF Remaining
    <3>3. ASSUME NEW k \in pendingMessages[d][m.id], k.package.fragmentId = i
          PROVE  FragmentPending(d, m, i)' \/ FragmentHeard(d, m, i, e)'
      <4>1. CASE k.package.packageId = ackId
        <5>1. /\ Listeners[d] = {dg.from} /\ k.package \in heard[dg.from]
              /\ k.package.payload = d /\ k.package.messageId = m.id
          BY <1>1, <1>10, <2>1, <4>1, AckedWasHeard
        <5>2. FragmentHeard(d, m, i, e)
          BY <3>3, <5>1 DEF FragmentHeard
        <5> QED
          BY <1>3, <5>2
      <4>2. CASE k.package.packageId # ackId
        BY <3>1, <3>3, <4>2 DEF Remaining, FragmentPending
      <4> QED
        BY <4>1, <4>2
    <3> QED
      BY <1>3, <1>4, <3>2, <3>3 DEF FragmentPending
  <2>2. CASE ~(f = d /\ m.id = msgId)
    BY <1>1, <1>6, <1>10, <2>2, PendingAck
  <2> QED
    BY <2>1, <2>2
<1> QED
  BY <1>6, <1>7, <1>8, <1>9, <1>10, PendingFrame

(* Lemma: every step that runs onDelivered of a tracked message finds all of it*)
(* arrived.                                                                  *)
LEMMA NotifiedStep ==
    ASSUME PointToPoint, TypeOK, MessagesKnown, PackagesUnique, PackagesGenuine, AcksGenuine,
           NothingGivenUp, NotifiedMeansArrived, [Next]_vars
    PROVE  NotifiedMeansArrived'
<1> SUFFICES ASSUME NEW d \in Device, NEW m \in Tracked(d)', notified'[d][m.id] > 0
             PROVE  Arrived(d, m)'
  BY DEF NotifiedMeansArrived
<1>1. /\ m \in accepted'[d] /\ IsTracked(m)
      /\ m \in Message /\ m.id \in MessageId
  <2>1. m \in accepted'[d] /\ IsTracked(m)
    BY DEF Tracked
  <2>2. accepted' \in [Device -> SUBSET Message]
    BY TypeStep DEF TypeOK
  <2> QED
    BY <2>1, <2>2 DEF Message
<1>2. m \in accepted[d]
  <2> SUFFICES ASSUME m \notin accepted[d] PROVE FALSE
    OBVIOUS
  <2>1. m.id = nextMessageId[d] /\ notified[d][m.id] > 0
    BY <1>1, AcceptedOrigin
  <2>2. KnownId(d, m.id) /\ \A n \in accepted[d] : n.id < nextMessageId[d]
    BY <1>1, <2>1 DEF MessagesKnown, MessagesKnownAt
  <2>3. nextMessageId[d] \in Nat
    <3>1. nextMessageId \in [Device -> 1..(MaxMessageId + 1)]
      BY DEF TypeOK
    <3> QED
      BY <3>1
  <2> QED
    BY <2>1, <2>2, <2>3 DEF KnownId
<1>3. Arrived(d, m) => Arrived(d, m)'
  <2>1. \A e \in Listeners[d] : e \in Device
    OBVIOUS
  <2>2. ASSUME NEW e \in Listeners[d], NEW i \in 0..(TotalFragments(m.size) - 1),
               FragmentHeard(d, m, i, e)
        PROVE  FragmentHeard(d, m, i, e)'
    BY <2>1, <2>2, HistoryGrows DEF FragmentHeard
  <2> QED
    BY <2>2 DEF Arrived
<1>4. notified \in [Device -> [MessageId -> Nat]]
  BY DEF TypeOK
<1>5. CASE notified[d][m.id] > 0
  BY <1>2, <1>3, <1>1, <1>5 DEF NotifiedMeansArrived, Tracked
<1>6. CASE UNCHANGED notified
  BY <1>5, <1>6
<1>7. ASSUME NEW f \in Device, RunCallback(f)
      PROVE  Arrived(d, m)'
  <2> SUFFICES ASSUME ~(notified[d][m.id] > 0) PROVE FALSE
    BY <1>5
  <2> DEFINE called == Head(callbacks[f])
  <2>1. called \in UntrackedIds(f)
    <3>1. callbacks[f] \in Seq(UntrackedIds(f)) /\ callbacks[f] # <<>>
      BY <1>7 DEF RunCallback, MessagesKnown, MessagesKnownAt
    <3> QED
      BY <3>1, HeadTail
  <2>2. notified' = [notified EXCEPT ![f][called] = @ + 1]
    BY <1>7 DEF RunCallback
  <2>3. called \in MessageId
    BY <2>1 DEF UntrackedIds
  <2> HIDE DEF called
  <2>4. f = d /\ called = m.id
    BY <1>1, <1>4, <2>2, <2>3
  <2>5. PICK n \in accepted[d] : ~IsTracked(n) /\ n.id = m.id
    BY <2>1, <2>4 DEF UntrackedIds
  <2>6. n = m
    BY <1>2, <2>5 DEF MessagesKnown, MessagesKnownAt
  <2> QED
    BY <1>1, <2>5, <2>6
<1>8. ASSUME NEW f \in Device, NEW dg \in net, HandleAck(f, dg)
      PROVE  Arrived(d, m)'
  <2> SUFFICES ASSUME ~(notified[d][m.id] > 0) PROVE Arrived(d, m)
    BY <1>3, <1>5
  <2> DEFINE ackId == dg.package.ackPackageId
             msgId == packageToMessage[f][ackId]
  <2>1. msgId \in MessageId
    BY <1>1, <1>8, PendingAck
  <2>2. /\ notified' = [notified EXCEPT ![f][msgId] = @ + 1]
        /\ pendingMessages[f][msgId] # {} /\ Remaining(f, msgId, ackId) = {}
    BY <1>6, <1>8 DEF HandleAck
  <2> HIDE DEF msgId, ackId
  <2>3. f = d /\ msgId = m.id
    BY <1>1, <1>4, <2>1, <2>2
  <2>4. \A k \in pendingMessages[d][m.id] : k.package.packageId = ackId
    BY <2>2, <2>3 DEF Remaining
  <2>5. /\ dg.from \in Device /\ Listeners[d] = {dg.from}
        /\ \A k \in pendingMessages[d][m.id] :
              /\ k.package \in heard[dg.from]
              /\ k.package.payload = d /\ k.package.messageId = m.id
    BY <1>1, <1>8, <2>2, <2>3, <2>4, AckedWasHeard DEF ackId
  <2>6. ASSUME NEW i \in 0..(TotalFragments(m.size) - 1)
        PROVE  FragmentHeard(d, m, i, dg.from)
    <3>1. FragmentPending(d, m, i) \/ FragmentHeard(d, m, i, dg.from)
      BY <1>1, <1>2, <2>2, <2>3, <2>5 DEF NothingGivenUp, Tracked
    <3> QED
      BY <2>5, <3>1 DEF FragmentPending, FragmentHeard
  <2> QED
    BY <2>5, <2>6 DEF Arrived
<1>9. ASSUME NEW f \in Device, Worker(f) PROVE Arrived(d, m)'
  BY <1>6, <1>7, <1>9 DEF Worker, BeginPass, ProcessMessage, DropOversized, SendFragments,
                          ExhaustPackageIds, Retransmit, history
<1>10. ASSUME NEW f \in Device, Application(f) PROVE Arrived(d, m)'
  BY <1>6, <1>10 DEF Application, Send, SetRetransmissionConfig, history
<1>11. CASE Network
  <2>1. PICK dg \in net, f \in Device :
            ReceiveFragment(f, dg) \/ HandleAck(f, dg) \/ IgnoreAck(f, dg)
    BY <1>11 DEF Network
  <2>2. CASE ReceiveFragment(f, dg) \/ IgnoreAck(f, dg)
    <3>1. UNCHANGED notified
      BY <2>2 DEF ReceiveFragment, IgnoreAck, history
    <3> QED
      BY <1>6, <3>1
  <2> QED
    BY <1>8, <2>1, <2>2
<1>12. CASE UNCHANGED vars
  BY <1>6, <1>12 DEF vars, history
<1> QED
  BY <1>9, <1>10, <1>11, <1>12 DEF Next

-----------------------------------------------------------------------------
(* The invariant and what it implies *)

LEMMA SessionInit == Init => SessionInv
<1> SUFFICES ASSUME Init PROVE SessionInv
  OBVIOUS
<1>1. TypeOK
  BY TypeInit
<1>2. MessagesKnown
  <2>1. ASSUME NEW d \in Device
        PROVE  /\ accepted[d] = {} /\ sdkQueue[d] = <<>> /\ callbacks[d] = <<>>
               /\ \A id \in MessageId : pendingMessages[d][id] = {} /\ notified[d][id] = 0
    BY DEF Init
  <2> SUFFICES ASSUME NEW d \in Device PROVE MessagesKnownAt(d)
    BY DEF MessagesKnown
  <2>2. <<>> \in Seq(accepted[d]) /\ <<>> \in Seq(UntrackedIds(d))
    OBVIOUS
  <2>3. sdkQueue[d] \in Seq(accepted[d]) /\ callbacks[d] \in Seq(UntrackedIds(d))
    <3>1. sdkQueue[d] = <<>> /\ callbacks[d] = <<>>
      BY <2>1
    <3> QED
      BY <2>2, <3>1
  <2>4. \A id \in MessageId : pendingMessages[d][id] = {} /\ ~(notified[d][id] > 0)
    BY <2>1
  <2>5. accepted[d] = {}
    BY <2>1
  <2> QED
    BY <2>3, <2>4, <2>5 DEF MessagesKnownAt
<1>3. PackagesUnique /\ PackagesGenuine /\ AcksGenuine
  BY DEF Init, PackagesUnique, PackagesGenuine, AcksGenuine
<1>4. Lockstep /\ NothingGivenUp /\ NotifiedMeansArrived
  BY DEF Init, Lockstep, NothingGivenUp, NotifiedMeansArrived, Tracked
<1> QED
  BY <1>1, <1>2, <1>3, <1>4 DEF SessionInv

(* Theorem: between devices that talk to one other only, SessionInv is an    *)
(* invariant: ids name one message and one package, acknowledgements are     *)
(* genuine, and no package of a pending message has been given up.           *)
THEOREM SessionSafe ==
    ASSUME PointToPoint
    PROVE  Spec => []SessionInv
<1>1. SessionInv /\ [Next]_vars => SessionInv'
  BY TypeStep, KnownStep, UniqueStep, GenuineStep, AcksStep, LockstepStep,
     NothingGivenUpStep, NotifiedStep DEF SessionInv
<1> QED
  BY <1>1, SessionInit, PTL DEF Spec

(* Theorem: onDelivered of a message that wants an acknowledgement means     *)
(* that every one of its fragments has reached the peer -- whatever the      *)
(* network loses, duplicates and reorders, however often the retransmission  *)
(* is reconfigured, and wherever the attempts of a message run out.          *)
THEOREM NotifiedMeansArrivedAlways ==
    ASSUME PointToPoint
    PROVE  Spec => []NotifiedMeansArrived
<1>1. SessionInv => NotifiedMeansArrived
  BY DEF SessionInv
<1> QED
  BY <1>1, SessionSafe, PTL

=============================================================================
