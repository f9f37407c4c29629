------------------------ MODULE SessionOutcomeProofs ------------------------
(***************************************************************************)
(* Proofs that a message has one outcome, that the two tables of pending   *)
(* packages agree, that what is handed up is one whole message, and that   *)
(* the session manager implements ReliableDelivery.                        *)
(***************************************************************************)
EXTENDS SessionSafetyProofs

USE SessionAssumption DEF MessageId, PackageId

-----------------------------------------------------------------------------
(* One stage *)

(* Lemma: the worker only takes messages that were accepted.                 *)
LEMMA NextIsAccepted ==
    ASSUME MessagesKnown, NEW d \in Device, NEW m, NextInQueue(d, m)
    PROVE  /\ m \in accepted[d]
           /\ sdkQueue[d] \in Seq(accepted[d]) /\ sdkQueue[d] # <<>> /\ m = Head(sdkQueue[d])
<1>1. sdkQueue[d] \in Seq(accepted[d]) /\ sdkQueue[d] # <<>> /\ m = Head(sdkQueue[d])
  BY DEF NextInQueue, MessagesKnown, MessagesKnownAt
<1> QED
  BY <1>1, HeadTail

(* Lemma: no stage of a message is reached before it is accepted.            *)
LEMMA StageKnown ==
    ASSUME MessagesKnown, OneStage, NEW d \in Device, NEW id \in MessageId,
           \/ Waiting(d, id) \/ Reporting(d, id) \/ Pending(d, id)
           \/ Confirmed(d, id) \/ Abandoned(d, id)
    PROVE  KnownId(d, id)
<1>1. MessagesKnownAt(d) /\ OneStageFor(d, id)
  BY DEF MessagesKnown, OneStage, OneStageAt
<1>2. CASE Waiting(d, id)
  BY <1>1, <1>2, ElementsIn DEF MessagesKnownAt, Waiting, KnownId
<1>3. CASE Reporting(d, id)
  <2>1. Range(callbacks[d]) \subseteq UntrackedIds(d)
    BY <1>1, ElementsIn DEF MessagesKnownAt
  <2> QED
    BY <1>3, <2>1 DEF Reporting, UntrackedIds, KnownId
<1>4. CASE Pending(d, id) \/ Confirmed(d, id)
  BY <1>1, <1>4 DEF MessagesKnownAt, Pending, Confirmed
<1>5. CASE Abandoned(d, id)
  BY <1>1, <1>5 DEF OneStageFor
<1> QED
  BY <1>2, <1>3, <1>4, <1>5

(* Lemma: a message that is accepted later is at no stage yet.               *)
LEMMA FreshIsNowhere ==
    ASSUME TypeOK, MessagesKnown, OneStage, NEW d \in Device, nextMessageId[d] <= MaxMessageId
    PROVE  /\ nextMessageId[d] \in MessageId
           /\ ~KnownId(d, nextMessageId[d])
           /\ ~Waiting(d, nextMessageId[d]) /\ ~Reporting(d, nextMessageId[d])
           /\ ~Pending(d, nextMessageId[d]) /\ ~Confirmed(d, nextMessageId[d])
           /\ ~Abandoned(d, nextMessageId[d])
<1>1. nextMessageId[d] \in 1..(MaxMessageId + 1)
  BY DEF TypeOK
<1>2. nextMessageId[d] \in MessageId
  BY <1>1
<1>3. ~KnownId(d, nextMessageId[d])
  BY <1>1 DEF MessagesKnown, MessagesKnownAt, KnownId
<1> QED
  BY <1>2, <1>3, StageKnown

(* Lemma: what a step keeps of the ids that are known.                       *)
LEMMA KnownStays ==
    ASSUME TypeOK, [Next]_vars, NEW e \in Device
    PROVE  /\ accepted[e] \subseteq accepted'[e]
           /\ \A id : KnownId(e, id) => KnownId(e, id)'
<1>1. accepted \in [Device -> SUBSET Message]
  BY DEF TypeOK
<1>2. accepted' = accepted \/ \E d \in Device : \E m : accepted' = [accepted EXCEPT ![d] = @ \cup {m}]
  <2>1. ASSUME NEW d \in Device, Worker(d) PROVE accepted' = accepted
    BY <2>1 DEF Worker, BeginPass, ProcessMessage, DropOversized, SendFragments,
                ExhaustPackageIds, Retransmit, RunCallback, history
  <2>2. ASSUME NEW d \in Device, Application(d)
        PROVE  accepted' = accepted \/ \E m : accepted' = [accepted EXCEPT ![d] = @ \cup {m}]
    BY <2>2 DEF Application, Send, SetRetransmissionConfig, history
  <2>3. CASE Network
    <3>1. PICK dg \in net, d \in Device :
              ReceiveFragment(d, dg) \/ HandleAck(d, dg) \/ IgnoreAck(d, dg)
      BY <2>3 DEF Network
    <3> QED
      BY <3>1 DEF ReceiveFragment, HandleAck, IgnoreAck, history
  <2>4. UNCHANGED vars => accepted' = accepted
    BY DEF vars, history
  <2> QED
    BY <2>1, <2>2, <2>3, <2>4 DEF Next
<1>3. accepted[e] \subseteq accepted'[e]
  BY <1>1, <1>2
<1> QED
  BY <1>3 DEF KnownId

(* Lemma: the application adds a message at the first stage.                 *)
LEMMA StageSend ==
    ASSUME TypeOK, MessagesKnown, OneStage, NEW d \in Device, NEW size \in Sizes,
           NEW requireAck \in BOOLEAN, Send(d, size, requireAck), [Next]_vars
    PROVE  OneStage'
<1> SUFFICES ASSUME NEW e \in Device PROVE OneStageAt(e)'
  BY DEF OneStage
<1> DEFINE new == [id |-> nextMessageId[d], size |-> size, requireAck |-> requireAck]
<1>1. /\ new \in Message /\ new.id = nextMessageId[d] /\ nextMessageId[d] <= MaxMessageId
      /\ sdkQueue' = [sdkQueue EXCEPT ![d] = Append(@, new)]
      /\ UNCHANGED <<callbacks, pendingMessages, notified, abandoned>>
  BY DEF Send, Message, TypeOK, workerVars
<1> HIDE DEF new
<1>2. OneStageAt(e)
  BY DEF OneStage
<1>3. sdkQueue \in [Device -> Seq(Message)]
  BY DEF TypeOK
<1>4. CASE e # d
  <2>1. sdkQueue'[e] = sdkQueue[e]
    BY <1>1, <1>3, <1>4
  <2> QED
    BY <1>1, <1>2, <2>1, KnownStays
    DEF OneStageAt, OneStageFor, Waiting, Reporting, Pending, Confirmed, Abandoned
<1>5. CASE e = d
  <2>1. sdkQueue'[e] = Append(sdkQueue[e], new) /\ sdkQueue[e] \in Seq(Message)
    BY <1>1, <1>3, <1>5
  <2>2. ~Waiting(e, new.id)
    BY <1>1, <1>5, FreshIsNowhere
  <2>3. /\ Range(sdkQueue'[e]) = Range(sdkQueue[e]) \cup {new}
        /\ IsInjective(sdkQueue'[e])
    BY <1>1, <1>2, <2>1, <2>2, ElementsAppend DEF Waiting, OneStageAt
  <2>4. ASSUME NEW id \in MessageId
        PROVE  OneStageFor(e, id)'
    <3>1. /\ Waiting(e, id)' => Waiting(e, id) \/ id = new.id
          /\ Reporting(e, id)' <=> Reporting(e, id)
          /\ Pending(e, id)' <=> Pending(e, id)
          /\ Confirmed(e, id)' <=> Confirmed(e, id)
          /\ Abandoned(e, id)' <=> Abandoned(e, id)
      BY <1>1, <2>3 DEF Waiting, Reporting, Pending, Confirmed, Abandoned
    <3>2. id = new.id => ~(Reporting(e, id) \/ Pending(e, id) \/ Confirmed(e, id) \/ Abandoned(e, id))
      BY <1>1, <1>5, FreshIsNowhere
    <3> QED
      BY <1>1, <1>2, <3>1, <3>2, KnownStays DEF OneStageAt, OneStageFor
  <2> QED
    BY <1>1, <1>2, <2>3, <2>4 DEF OneStageAt
<1> QED
  BY <1>4, <1>5

(* Lemma: the worker moves the message it takes from the queue on to its one *)
(* next stage.                                                               *)
LEMMA StageProcess ==
    ASSUME TypeOK, MessagesKnown, OneStage, NEW d \in Device, ProcessMessage(d), [Next]_vars
    PROVE  OneStage'
<1> SUFFICES ASSUME NEW e \in Device PROVE OneStageAt(e)'
  BY DEF OneStage
<1>1. PICK m \in Message :
          DropOversized(d, m) \/ SendFragments(d, m) \/ ExhaustPackageIds(d, m)
  BY DEF ProcessMessage
<1>2. OneStageAt(e) /\ OneStageAt(d)
  BY DEF OneStage
<1>3. UNCHANGED <<notified, abandoned>>
  BY <1>1 DEF DropOversized, SendFragments, ExhaustPackageIds, history
<1>4. sdkQueue \in [Device -> Seq(Message)] /\ callbacks \in [Device -> Seq(MessageId)]
  BY DEF TypeOK
<1>5. CASE ExhaustPackageIds(d, m) \/ e # d
  <2>1. sdkQueue'[e] = sdkQueue[e] /\ callbacks'[e] = callbacks[e]
    BY <1>1, <1>4, <1>5 DEF DropOversized, SendFragments, ExhaustPackageIds
  <2>2. \A id \in MessageId : pendingMessages'[e][id] = pendingMessages[e][id]
    BY <1>1, <1>5, PendingSend DEF DropOversized, ExhaustPackageIds
  <2> QED
    BY <1>2, <1>3, <2>1, <2>2, KnownStays
    DEF OneStageAt, OneStageFor, Waiting, Reporting, Pending, Confirmed, Abandoned
<1>6. CASE e = d /\ ~ExhaustPackageIds(d, m)
  <2>1. /\ m \in Range(sdkQueue[e]) /\ IsInjective(sdkQueue'[e])
        /\ Range(sdkQueue'[e]) = Range(sdkQueue[e]) \ {m}
    <3>1. NextInQueue(d, m) /\ sdkQueue' = [sdkQueue EXCEPT ![d] = Tail(@)]
      BY <1>1, <1>6 DEF DropOversized, SendFragments
    <3>2. /\ sdkQueue'[e] = Tail(sdkQueue[e]) /\ sdkQueue[e] # <<>> /\ m = Head(sdkQueue[e])
          /\ sdkQueue[e] \in Seq(Message)
      BY <1>4, <1>6, <3>1 DEF NextInQueue
    <3> QED
      BY <1>2, <3>2, ElementsTail DEF OneStageAt
  <2>2. ASSUME NEW n \in Range(sdkQueue[e]), n.id = m.id
        PROVE  n = m
    <3>1. sdkQueue[e] \in Seq(accepted[e])
      BY DEF MessagesKnown, MessagesKnownAt
    <3>2. n \in accepted[e] /\ m \in accepted[e]
      BY <2>1, <3>1, ElementsIn
    <3> QED
      BY <2>2, <3>2 DEF MessagesKnown, MessagesKnownAt
  <2>3. m.id \in MessageId /\ Waiting(e, m.id)
    BY <2>1 DEF Waiting, Message
  <2>4. \A id \in MessageId : Waiting(e, id)' => Waiting(e, id) /\ id # m.id
    BY <2>1, <2>2 DEF Waiting
  <2>5. /\ IsInjective(callbacks'[e])
        /\ \/ \A id \in MessageId : Reporting(e, id)' <=> Reporting(e, id)
           \/ /\ DropOversized(d, m) \/ ~m.requireAck
              /\ \A id \in MessageId : Reporting(e, id)' => Reporting(e, id) \/ id = m.id
    <3>1. CASE callbacks' = callbacks
      BY <1>2, <3>1 DEF Reporting, OneStageAt
    <3>2. CASE callbacks' = [callbacks EXCEPT ![d] = Append(@, m.id)]
               /\ (DropOversized(d, m) \/ ~m.requireAck)
      <4>1. callbacks'[e] = Append(callbacks[e], m.id) /\ callbacks[e] \in Seq(MessageId)
        BY <1>4, <1>6, <3>2
      <4>2. m.id \notin Range(callbacks[e])
        BY <1>2, <2>3 DEF OneStageAt, OneStageFor, Reporting
      <4>3. IsInjective(callbacks'[e]) /\ Range(callbacks'[e]) = Range(callbacks[e]) \cup {m.id}
        BY <1>2, <2>3, <4>1, <4>2, ElementsAppend DEF OneStageAt
      <4> QED
        BY <3>2, <4>3 DEF Reporting
    <3> QED
      BY <1>1, <1>6, <3>1, <3>2 DEF DropOversized, SendFragments, ReportedAtOnce
  <2>6. ASSUME NEW id \in MessageId
        PROVE  Pending(e, id)' => \/ Pending(e, id)
                                  \/ id = m.id /\ m.requireAck /\ SendFragments(d, m)
    BY <1>1, <1>6, PendingSend DEF DropOversized, Pending
  <2>7. ~(DropOversized(d, m) /\ SendFragments(d, m))
    BY DEF DropOversized, SendFragments
  <2>8. ASSUME NEW id \in MessageId
        PROVE  OneStageFor(e, id)'
    <3>1. Confirmed(e, id)' <=> Confirmed(e, id)
      BY <1>3 DEF Confirmed
    <3>2. Abandoned(e, id)' <=> Abandoned(e, id)
      BY <1>3 DEF Abandoned
    <3>3. OneStageFor(e, id) /\ OneStageFor(e, m.id)
      BY <1>2, <2>3 DEF OneStageAt
    <3> QED
      BY <1>3, <2>3, <2>4, <2>5, <2>6, <2>7, <3>1, <3>2, <3>3, KnownStays DEF OneStageFor
  <2> QED
    BY <2>1, <2>5, <2>8 DEF OneStageAt
<1> QED
  BY <1>5, <1>6

(* Lemma: a step that leaves the stages of a device alone.                   *)
LEMMA StageFrame ==
    ASSUME TypeOK, OneStage, [Next]_vars, NEW e \in Device,
           sdkQueue'[e] = sdkQueue[e], notified'[e] = notified[e], abandoned'[e] = abandoned[e],
           callbacks'[e] = callbacks[e] \/ callbacks'[e] = <<>>,
           \A id \in MessageId : Pending(e, id)' <=> Pending(e, id)
    PROVE  OneStageAt(e)'
<1>1. OneStageAt(e)
  BY DEF OneStage
<1>2. IsInjective(callbacks'[e]) /\ \A id \in MessageId : Reporting(e, id)' => Reporting(e, id)
  <2>1. CASE callbacks'[e] = callbacks[e]
    BY <1>1, <2>1 DEF OneStageAt, Reporting
  <2>2. CASE callbacks'[e] = <<>>
    BY <2>2 DEF IsInjective, Reporting, Range
  <2> QED
    BY <2>1, <2>2
<1> QED
  BY <1>1, <1>2, KnownStays DEF OneStageAt, OneStageFor, Waiting, Confirmed, Abandoned

(* Lemma: a pass that begins, the first thing it does, moves no message.     *)
LEMMA StageBeginPass ==
    ASSUME TypeOK, OneStage, NEW d \in Device, NEW elapsed \in 1..MaxInterval,
           BeginPass(d, elapsed), [Next]_vars
    PROVE  OneStage'
<1> SUFFICES ASSUME NEW e \in Device PROVE OneStageAt(e)'
  BY DEF OneStage
<1>1. \A id \in MessageId : Pending(e, id)' <=> Pending(e, id)
  BY PendingBeginPass DEF Pending
<1>2. callbacks'[e] = callbacks[e] \/ callbacks'[e] = <<>>
  <2>1. callbacks \in [Device -> Seq(MessageId)]
    BY DEF TypeOK
  <2> QED
    BY <2>1 DEF BeginPass
<1> QED
  BY <1>1, <1>2, StageFrame DEF BeginPass, history

(* Lemma: a retransmission pass abandons the messages of which nothing is    *)
(* kept.                                                                     *)
LEMMA StageRetransmit ==
    ASSUME TypeOK, MessagesKnown, OneStage, NEW d \in Device, Retransmit(d), [Next]_vars
    PROVE  OneStage'
<1> SUFFICES ASSUME NEW e \in Device PROVE OneStageAt(e)'
  BY DEF OneStage
<1>1. OneStageAt(e)
  BY DEF OneStage
<1>2. UNCHANGED <<sdkQueue, callbacks, notified, accepted>>
  BY DEF Retransmit
<1>3. abandoned' = [abandoned EXCEPT ![d] = @ \cup
                       {m \in MessageId : pendingMessages[d][m] # {} /\ Kept(d, m) = {}}]
  BY DEF Retransmit
<1>4. abandoned \in [Device -> SUBSET MessageId]
  BY DEF TypeOK
<1>5. ASSUME NEW id \in MessageId
      PROVE  OneStageFor(e, id)'
  <2>1. /\ Pending(e, id)' => Pending(e, id)
        /\ e = d => (Pending(e, id)' <=> Kept(d, id) # {})
    BY PendingRetransmit DEF Pending, Kept
  <2>2. Abandoned(e, id)' <=> \/ Abandoned(e, id)
                              \/ e = d /\ Pending(e, id) /\ Kept(d, id) = {}
    BY <1>3, <1>4 DEF Abandoned, Pending
  <2>3. /\ Waiting(e, id)' <=> Waiting(e, id)
        /\ Reporting(e, id)' <=> Reporting(e, id)
        /\ Confirmed(e, id)' <=> Confirmed(e, id)
        /\ KnownId(e, id)' <=> KnownId(e, id)
    BY <1>2 DEF Waiting, Reporting, Confirmed, KnownId
  <2>4. OneStageFor(e, id)
    BY <1>1 DEF OneStageAt
  <2>5. Pending(e, id) => KnownId(e, id)
    BY StageKnown
  <2> QED
    BY <1>2, <2>1, <2>2, <2>3, <2>4, <2>5 DEF OneStageFor
<1> QED
  BY <1>1, <1>2, <1>5 DEF OneStageAt

(* Lemma: a callback of a pass reports its message, once.                    *)
LEMMA StageCallback ==
    ASSUME TypeOK, MessagesKnown, OneStage, NEW d \in Device, RunCallback(d), [Next]_vars
    PROVE  OneStage'
<1> SUFFICES ASSUME NEW e \in Device PROVE OneStageAt(e)'
  BY DEF OneStage
<1> DEFINE called == Head(callbacks[d])
<1>1. OneStageAt(e) /\ OneStageAt(d)
  BY DEF OneStage
<1>2. UNCHANGED <<sdkQueue, pendingMessages, abandoned, accepted>>
  BY DEF RunCallback
<1>3. /\ callbacks \in [Device -> Seq(MessageId)] /\ callbacks[d] # <<>>
      /\ callbacks' = [callbacks EXCEPT ![d] = Tail(callbacks[d])]
      /\ notified \in [Device -> [MessageId -> Nat]]
      /\ notified' = [notified EXCEPT ![d][called] = @ + 1]
  BY DEF RunCallback, TypeOK
<1>4. called \in MessageId
  BY <1>3, HeadTail
<1>5. CASE e # d
  <2>1. callbacks'[e] = callbacks[e] /\ notified'[e] = notified[e]
    BY <1>3, <1>5
  <2> QED
    BY <1>2, <2>1, StageFrame DEF Pending
<1>6. CASE e = d
  <2>1. /\ Range(callbacks'[e]) = Range(callbacks[e]) \ {called}
        /\ called \in Range(callbacks[e]) /\ IsInjective(callbacks'[e])
    <3>1. callbacks'[e] = Tail(callbacks[e]) /\ callbacks[e] \in Seq(MessageId)
      BY <1>3, <1>6
    <3> QED
      BY <1>1, <1>3, <1>6, <3>1, ElementsTail DEF OneStageAt
  <2>2. ASSUME NEW id \in MessageId
        PROVE  notified'[e][id] = IF id = called THEN notified[e][id] + 1 ELSE notified[e][id]
    <3> HIDE DEF called
    <3> QED
      BY <1>3, <1>4, <1>6
  <2> HIDE DEF called
  <2>3. ASSUME NEW id \in MessageId
        PROVE  OneStageFor(e, id)'
    <3>1. OneStageFor(e, id) /\ notified[e][id] \in Nat
      <4>1. notified \in [Device -> [MessageId -> Nat]]
        BY <1>3
      <4> QED
        BY <1>1, <4>1 DEF OneStageAt
    <3>2. /\ Waiting(e, id)' <=> Waiting(e, id)
          /\ Pending(e, id)' <=> Pending(e, id)
          /\ Abandoned(e, id)' <=> Abandoned(e, id)
          /\ KnownId(e, id)' <=> KnownId(e, id)
      BY <1>2 DEF Waiting, Pending, Abandoned, KnownId
    <3>3. Reporting(e, id)' <=> Reporting(e, id) /\ id # called
      BY <2>1 DEF Reporting
    <3>4. CASE id = called
      <4>1. Reporting(e, id)
        BY <2>1, <3>4 DEF Reporting
      <4>2. notified[e][id] = 0 /\ notified'[e][id] = 1
        BY <2>2, <3>1, <3>4, <4>1 DEF OneStageFor, Confirmed
      <4> QED
        BY <3>1, <3>2, <3>3, <3>4, <4>1, <4>2 DEF OneStageFor
    <3>5. CASE id # called
      <4>1. notified'[e][id] = notified[e][id]
        BY <2>2, <3>5
      <4> QED
        BY <3>1, <3>2, <3>3, <3>5, <4>1 DEF OneStageFor, Confirmed
    <3> QED
      BY <3>4, <3>5
  <2> QED
    BY <1>1, <1>2, <2>1, <2>3 DEF OneStageAt
<1> QED
  BY <1>5, <1>6

(* Lemma: an acknowledgement, if it was the last one, confirms a message     *)
(* that was pending.                                                         *)
LEMMA StageAck ==
    ASSUME TypeOK, OneStage, NEW d \in Device, NEW dg \in net, HandleAck(d, dg), [Next]_vars
    PROVE  OneStage'
<1> SUFFICES ASSUME NEW e \in Device PROVE OneStageAt(e)'
  BY DEF OneStage
<1> DEFINE ackId == dg.package.ackPackageId
           msgId == packageToMessage[d][ackId]
           rest  == Remaining(d, msgId, ackId)
<1>1. OneStageAt(e)
  BY DEF OneStage
<1>2. UNCHANGED <<sdkQueue, callbacks, abandoned, accepted>>
  BY DEF HandleAck, workerVars
<1>3. /\ msgId \in MessageId
      /\ notified \in [Device -> [MessageId -> Nat]]
      /\ \/ notified' = notified
         \/ /\ notified' = [notified EXCEPT ![d][msgId] = @ + 1]
            /\ rest = {} /\ pendingMessages[d][msgId] # {}
  <2>1. msgId \in MessageId
    BY PendingAck
  <2>2. notified \in [Device -> [MessageId -> Nat]]
    BY DEF TypeOK
  <2>3. \/ notified' = notified
        \/ /\ notified' = [notified EXCEPT ![d][msgId] = @ + 1]
           /\ rest = {} /\ pendingMessages[d][msgId] # {}
    BY DEF HandleAck
  <2> QED
    BY <2>1, <2>2, <2>3
<1>4. ASSUME NEW id \in MessageId
      PROVE  OneStageFor(e, id)'
  <2>1. pendingMessages'[e][id] =
            IF e = d /\ id = msgId THEN Remaining(d, id, ackId) ELSE pendingMessages[e][id]
    BY PendingAck
  <2>2. Pending(e, id)' => Pending(e, id)
    BY <2>1 DEF Pending, Remaining
  <2>3. /\ Waiting(e, id)' <=> Waiting(e, id)
        /\ Reporting(e, id)' <=> Reporting(e, id)
        /\ Abandoned(e, id)' <=> Abandoned(e, id)
        /\ KnownId(e, id)' <=> KnownId(e, id)
    BY <1>2 DEF Waiting, Reporting, Abandoned, KnownId
  <2>4. OneStageFor(e, id) /\ notified[e][id] \in Nat
    BY <1>1, <1>3 DEF OneStageAt
  <2>5. \/ notified'[e][id] = notified[e][id]
        \/ Pending(e, id) /\ ~Pending(e, id)' /\ notified'[e][id] = notified[e][id] + 1
    <3>1. CASE e = d /\ id = msgId
      <4>1. pendingMessages'[e][id] = rest /\ (Pending(e, id) <=> pendingMessages[d][msgId] # {})
        BY <2>1, <3>1 DEF Pending
      <4> HIDE DEF msgId, ackId, rest
      <4> QED
        BY <1>3, <3>1, <4>1 DEF Pending
    <3>2. CASE ~(e = d /\ id = msgId)
      <4> HIDE DEF msgId, ackId, rest
      <4> QED
        BY <1>3, <3>2
    <3> QED
      BY <3>1, <3>2
  <2> HIDE DEF msgId, ackId, rest
  <2>6. CASE notified'[e][id] = notified[e][id]
    BY <2>2, <2>3, <2>4, <2>6 DEF OneStageFor, Confirmed
  <2>7. CASE Pending(e, id) /\ ~Pending(e, id)' /\ notified'[e][id] = notified[e][id] + 1
    <3>1. notified[e][id] = 0 /\ notified'[e][id] = 1
      BY <2>4, <2>7 DEF OneStageFor, Confirmed
    <3> QED
      BY <2>3, <2>4, <2>7, <3>1 DEF OneStageFor
  <2> QED
    BY <2>5, <2>6, <2>7
<1> QED
  BY <1>1, <1>2, <1>4 DEF OneStageAt

(* Lemma: every step keeps every message at one stage.                       *)
LEMMA StageStep == TypeOK /\ MessagesKnown /\ OneStage /\ [Next]_vars => OneStage'
<1> SUFFICES ASSUME TypeOK, MessagesKnown, OneStage, [Next]_vars PROVE OneStage'
  OBVIOUS
<1>1. CASE UNCHANGED <<sdkQueue, callbacks, pendingMessages, notified, abandoned>>
  <2> SUFFICES ASSUME NEW e \in Device PROVE OneStageAt(e)'
    BY DEF OneStage
  <2> QED
    BY <1>1, StageFrame DEF Pending
<1>2. ASSUME NEW d \in Device, Worker(d) PROVE OneStage'
  BY <1>2, StageBeginPass, StageProcess, StageRetransmit, StageCallback DEF Worker
<1>3. ASSUME NEW d \in Device, Application(d) PROVE OneStage'
  BY <1>1, <1>3, StageSend DEF Application, SetRetransmissionConfig, workerVars, history
<1>4. CASE Network
  <2>1. PICK dg \in net, d \in Device :
            ReceiveFragment(d, dg) \/ HandleAck(d, dg) \/ IgnoreAck(d, dg)
    BY <1>4 DEF Network
  <2>2. CASE ReceiveFragment(d, dg) \/ IgnoreAck(d, dg)
    BY <1>1, <2>2 DEF ReceiveFragment, IgnoreAck, workerVars, history
  <2> QED
    BY <2>1, <2>2, StageAck
<1>5. CASE UNCHANGED vars
  BY <1>1, <1>5 DEF vars, workerVars, history
<1> QED
  BY <1>2, <1>3, <1>4, <1>5 DEF Next

-----------------------------------------------------------------------------
(* The index of the pending packages *)

IndexType == packageToMessage \in [Device -> [PackageId -> MessageId \cup {0}]]

HasPackage(d, id, p) == \E info \in pendingMessages[d][id] : info.package.packageId = p

(* Lemma: package ids are taken in order and never given back.               *)
LEMMA NumbersGrow ==
    ASSUME TypeOK, [Next]_vars, NEW e \in Device
    PROVE  /\ nextPackageId[e] \in Nat /\ nextPackageId'[e] \in Nat
           /\ nextPackageId[e] <= nextPackageId'[e]
<1>1. nextPackageId \in [Device -> 1..(MaxPackageId + 1)]
  BY DEF TypeOK
<1>2. nextPackageId' \in [Device -> 1..(MaxPackageId + 1)]
  BY TypeStep DEF TypeOK
<1>3. \/ nextPackageId' = nextPackageId
      \/ \E d \in Device, n \in Nat : nextPackageId' = [nextPackageId EXCEPT ![d] = @ + n]
      \/ \E d \in Device : nextPackageId' = [nextPackageId EXCEPT ![d] = MaxPackageId + 1]
  <2>1. ASSUME NEW d \in Device, Worker(d)
        PROVE  \/ nextPackageId' = nextPackageId
               \/ \E n \in Nat : nextPackageId' = [nextPackageId EXCEPT ![d] = @ + n]
               \/ nextPackageId' = [nextPackageId EXCEPT ![d] = MaxPackageId + 1]
    <3>1. ASSUME NEW m \in Message, SendFragments(d, m)
          PROVE  \E n \in Nat : nextPackageId' = [nextPackageId EXCEPT ![d] = @ + n]
      <4>1. TotalFragments(m.size) \in Nat
        BY TotalFragmentsType DEF Message
      <4> QED
        BY <3>1, <4>1 DEF SendFragments
    <3> QED
      BY <2>1, <3>1 DEF Worker, BeginPass, ProcessMessage, DropOversized, ExhaustPackageIds,
                        Retransmit, RunCallback, ackVars
  <2>2. ASSUME NEW d \in Device, Application(d) PROVE nextPackageId' = nextPackageId
    BY <2>2 DEF Application, Send, SetRetransmissionConfig, ackVars
  <2>3. CASE Network
    <3>1. PICK dg \in net, d \in Device :
              ReceiveFragment(d, dg) \/ HandleAck(d, dg) \/ IgnoreAck(d, dg)
      BY <2>3 DEF Network
    <3>2. \/ nextPackageId' = nextPackageId
          \/ nextPackageId' = [nextPackageId EXCEPT ![d] = @ + 1]
      BY <3>1 DEF ReceiveFragment, SendAck, HandleAck, IgnoreAck, ackVars
    <3> QED
      BY <3>2
  <2>4. UNCHANGED vars => nextPackageId' = nextPackageId
    BY DEF vars, ackVars
  <2> QED
    BY <2>1, <2>2, <2>3, <2>4 DEF Next
<1> QED
  BY <1>1, <1>2, <1>3

(* Lemma: a step other than these three leaves the index alone.              *)
LEMMA IndexFrame ==
    ASSUME [Next]_vars,
           \A d \in Device : /\ \A m \in Message : ~SendFragments(d, m)
                             /\ ~Retransmit(d)
                             /\ \A dg \in net : ~HandleAck(d, dg)
    PROVE  UNCHANGED packageToMessage
<1>1. ASSUME NEW d \in Device, Worker(d) PROVE UNCHANGED packageToMessage
  BY <1>1 DEF Worker, BeginPass, ProcessMessage, DropOversized, ExhaustPackageIds, RunCallback
<1>2. ASSUME NEW d \in Device, Application(d) PROVE UNCHANGED packageToMessage
  BY <1>2 DEF Application, Send, SetRetransmissionConfig
<1>3. CASE Network
  BY <1>3 DEF Network, ReceiveFragment, IgnoreAck
<1>4. CASE UNCHANGED vars
  BY <1>4 DEF vars
<1> QED
  BY <1>1, <1>2, <1>3, <1>4 DEF Next

(* Lemma: what the steps make of an entry of the index.                      *)
LEMMA IndexSend ==
    ASSUME TypeOK, NEW d \in Device, NEW m \in Message, SendFragments(d, m),
           NEW e \in Device, NEW p \in PackageId
    PROVE  packageToMessage'[e][p] =
               IF /\ e = d /\ m.requireAck
                  /\ \E q \in Fragments(d, m, TotalFragments(m.size)) : q.packageId = p
               THEN m.id ELSE packageToMessage[e][p]
<1>1. IndexType
  BY DEF TypeOK, IndexType
<1> DEFINE sent  == Fragments(d, m, TotalFragments(m.size))
           index == [r \in PackageId |->
                        IF \E q \in sent : q.packageId = r THEN m.id ELSE packageToMessage[d][r]]
<1>2. CASE m.requireAck
  <2>1. packageToMessage' = [packageToMessage EXCEPT ![d] = index]
    BY <1>2 DEF SendFragments
  <2>2. index[p] = IF \E q \in sent : q.packageId = p THEN m.id ELSE packageToMessage[d][p]
    OBVIOUS
  <2> HIDE DEF index, sent
  <2>3. packageToMessage'[e] = IF e = d THEN index ELSE packageToMessage[e]
    BY <1>1, <2>1 DEF IndexType
  <2> QED
    BY <1>2, <2>2, <2>3 DEF sent
<1>3. CASE ~m.requireAck
  BY <1>3 DEF SendFragments
<1> QED
  BY <1>2, <1>3

LEMMA IndexRetransmit ==
    ASSUME TypeOK, NEW d \in Device, Retransmit(d), NEW e \in Device, NEW p \in PackageId
    PROVE  packageToMessage'[e][p] =
               IF e = d /\ p \in GivenUp(d) THEN 0 ELSE packageToMessage[e][p]
<1>1. IndexType
  BY DEF TypeOK, IndexType
<1> QED
  BY <1>1 DEF Retransmit, IndexType

LEMMA IndexAck ==
    ASSUME TypeOK, NEW d \in Device, NEW dg \in net, HandleAck(d, dg),
           NEW e \in Device, NEW p \in PackageId
    PROVE  /\ dg.package.ackPackageId \in PackageId
           /\ packageToMessage'[e][p] =
                  IF e = d /\ p = dg.package.ackPackageId THEN 0 ELSE packageToMessage[e][p]
<1>1. IndexType
  BY DEF TypeOK, IndexType
<1> DEFINE ackId == dg.package.ackPackageId
<1>2. ackId \in PackageId
  BY DEF HandleAck, TypeOK, Datagram, DataPackage, AckPackage
<1>3. packageToMessage' = [packageToMessage EXCEPT ![d][ackId] = 0]
  BY DEF HandleAck
<1> HIDE DEF ackId
<1>4. packageToMessage'[e][p] = IF e = d /\ p = ackId THEN 0 ELSE packageToMessage[e][p]
  BY <1>1, <1>2, <1>3 DEF IndexType
<1> QED
  BY <1>2, <1>4 DEF ackId

(* Lemma: the fragments of a message are numbered from nextPackageId on.     *)
LEMMA SentNumbers ==
    ASSUME TypeOK, NEW d \in Device, NEW m \in Message, SendFragments(d, m),
           NEW q \in Fragments(d, m, TotalFragments(m.size))
    PROVE  /\ q.packageId \in Nat /\ nextPackageId[d] <= q.packageId
           /\ q.packageId < nextPackageId'[d]
<1> DEFINE total == TotalFragments(m.size)
<1>1. total \in Nat
  BY TotalFragmentsType DEF Message
<1>2. PICK i \in 0..(total - 1) : q.packageId = nextPackageId[d] + i
  BY <1>1, FragmentsAre
<1>3. nextPackageId \in [Device -> 1..(MaxPackageId + 1)]
  BY DEF TypeOK
<1>4. nextPackageId' = [nextPackageId EXCEPT ![d] = @ + total]
  BY DEF SendFragments
<1> HIDE DEF total
<1> QED
  BY <1>1, <1>2, <1>3, <1>4

LEMMA IndexFreshStep == TypeOK /\ IndexFresh /\ [Next]_vars => IndexFresh'
<1> SUFFICES ASSUME TypeOK, IndexFresh, [Next]_vars, NEW e \in Device, NEW p \in PackageId,
                    packageToMessage'[e][p] # 0
             PROVE  p < nextPackageId'[e]
  BY DEF IndexFresh
<1>1. packageToMessage[e][p] # 0 => p < nextPackageId'[e]
  BY NumbersGrow DEF IndexFresh
<1>2. ASSUME NEW d \in Device, NEW m \in Message, SendFragments(d, m)
      PROVE  p < nextPackageId'[e]
  BY <1>1, <1>2, IndexSend, SentNumbers
<1>3. ASSUME NEW d \in Device, Retransmit(d)
      PROVE  p < nextPackageId'[e]
  BY <1>1, <1>3, IndexRetransmit
<1>4. ASSUME NEW d \in Device, NEW dg \in net, HandleAck(d, dg)
      PROVE  p < nextPackageId'[e]
  BY <1>1, <1>4, IndexAck
<1>5. CASE UNCHANGED packageToMessage
  BY <1>1, <1>5
<1> QED
  BY <1>2, <1>3, <1>4, <1>5, IndexFrame

(* Lemma: the index and the pending packages change together.                *)
LEMMA IndexStep ==
    TypeOK /\ MessagesKnown /\ Lockstep /\ OneStage /\ IndexFresh /\ IndexMatchesPending
    /\ [Next]_vars => IndexMatchesPending'
<1> SUFFICES ASSUME TypeOK, MessagesKnown, Lockstep, OneStage, IndexFresh, IndexMatchesPending,
                    [Next]_vars,
                    NEW e \in Device, NEW p \in PackageId, NEW id \in MessageId
             PROVE  packageToMessage'[e][p] = id <=> HasPackage(e, id, p)'
  BY DEF IndexMatchesPending, HasPackage
<1>1. \A k \in MessageId, q \in PackageId : packageToMessage[e][q] = k <=> HasPackage(e, k, q)
  BY DEF IndexMatchesPending, HasPackage
<1>2. \A k \in MessageId : \A info \in pendingMessages[e][k] :
          info \in PendingPackageInfo /\ info.package.packageId \in PackageId
  <2>1. PendingType
    BY DEF TypeOK, PendingType
  <2> QED
    BY <2>1 DEF PendingType, PendingPackageInfo, DataPackage
<1>3. ASSUME NEW d \in Device, NEW elapsed \in 1..MaxInterval, BeginPass(d, elapsed)
      PROVE  packageToMessage'[e][p] = id <=> HasPackage(e, id, p)'
  <2>1. packageToMessage' = packageToMessage
    BY <1>3 DEF BeginPass
  <2>2. CASE e = d
    <3>1. HasPackage(e, id, p)' => HasPackage(e, id, p)
      <4> SUFFICES ASSUME NEW i \in pendingMessages'[e][id], i.package.packageId = p
                   PROVE  HasPackage(e, id, p)
        BY DEF HasPackage
      <4>1. PICK k \in pendingMessages[e][id] : i = Older(k, elapsed)
        BY <1>3, <2>2, PendingBeginPass
      <4>2. i.package = k.package
        BY <1>2, <4>1, RetryAlike
      <4> QED
        BY <4>2 DEF HasPackage
    <3>2. HasPackage(e, id, p) => HasPackage(e, id, p)'
      <4> SUFFICES ASSUME NEW k \in pendingMessages[e][id], k.package.packageId = p
                   PROVE  HasPackage(e, id, p)'
        BY DEF HasPackage
      <4>1. Older(k, elapsed) \in pendingMessages'[e][id]
        BY <1>3, <2>2, PendingBeginPass
      <4>2. Older(k, elapsed).package = k.package
        BY <1>2, RetryAlike
      <4> QED
        BY <4>1, <4>2 DEF HasPackage
    <3> QED
      BY <1>1, <2>1, <3>1, <3>2
  <2>3. CASE e # d
    BY <1>1, <1>3, <2>1, <2>3, PendingBeginPass DEF HasPackage
  <2> QED
    BY <2>2, <2>3
<1>4. ASSUME NEW d \in Device, NEW m \in Message, SendFragments(d, m)
      PROVE  packageToMessage'[e][p] = id <=> HasPackage(e, id, p)'
  <2> DEFINE sent == Fragments(d, m, TotalFragments(m.size))
             InSent == \E q \in sent : q.packageId = p
  <2>1. CASE e = d /\ m.requireAck
    <3>1. packageToMessage'[e][p] = IF InSent THEN m.id ELSE packageToMessage[e][p]
      BY <1>4, <2>1, IndexSend
    <3>2. InSent => packageToMessage[e][p] = 0
      <4>1. InSent => nextPackageId[e] <= p
        BY <1>4, <2>1, SentNumbers
      <4>2. nextPackageId[e] \in Nat
        BY NumbersGrow
      <4> QED
        BY <4>1, <4>2 DEF IndexFresh
    <3>3. m.id \in MessageId /\ ~Pending(e, m.id)
      <4>1. m \in Range(sdkQueue[e])
        <5>1. NextInQueue(e, m)
          BY <1>4, <2>1 DEF SendFragments
        <5>2. sdkQueue[e] \in Seq(accepted[e]) /\ sdkQueue[e] # <<>> /\ m = Head(sdkQueue[e])
          BY <5>1, NextIsAccepted
        <5>3. m = sdkQueue[e][1] /\ 1 \in DOMAIN sdkQueue[e]
          BY <5>2, HeadTail
        <5> QED
          BY <5>3 DEF Range
      <4>2. Waiting(e, m.id) /\ m.id \in MessageId
        BY <4>1 DEF Waiting, Message
      <4> QED
        BY <4>2 DEF OneStage, OneStageAt, OneStageFor
    <3>4. CASE id = m.id
      <4>1. HasPackage(e, id, p)' <=> InSent
        <5>1. /\ \A i \in pendingMessages'[e][id] :
                    \E q \in sent : i = [package |-> q, attempts |-> 1, age |-> 0]
              /\ \A q \in sent :
                    [package |-> q, attempts |-> 1, age |-> 0] \in pendingMessages'[e][id]
          BY <1>4, <2>1, <3>4, PendingSend
        <5>2. ASSUME NEW q \in sent
              PROVE  [package |-> q, attempts |-> 1, age |-> 0].package = q
          OBVIOUS
        <5> HIDE DEF sent
        <5> QED
          BY <5>1, <5>2 DEF HasPackage
      <4>2. packageToMessage[e][p] # id
        BY <1>1, <3>3, <3>4 DEF HasPackage, Pending
      <4> QED
        BY <3>1, <3>4, <4>1, <4>2
    <3>5. CASE id # m.id
      <4>1. HasPackage(e, id, p)' <=> HasPackage(e, id, p)
        BY <1>4, <3>5, PendingSend DEF HasPackage
      <4>2. id # 0
        OBVIOUS
      <4> QED
        BY <1>1, <3>1, <3>2, <3>5, <4>1, <4>2
    <3> QED
      BY <3>4, <3>5
  <2>2. CASE ~(e = d /\ m.requireAck)
    <3>1. HasPackage(e, id, p)' <=> HasPackage(e, id, p)
      BY <1>4, <2>2, PendingSend DEF HasPackage
    <3>2. packageToMessage'[e][p] = packageToMessage[e][p]
      BY <1>4, <2>2, IndexSend
    <3> QED
      BY <1>1, <3>1, <3>2
  <2> QED
    BY <2>1, <2>2
<1>5. ASSUME NEW d \in Device, Retransmit(d)
      PROVE  packageToMessage'[e][p] = id <=> HasPackage(e, id, p)'
  <2>1. CASE e = d
    <3>1. packageToMessage'[e][p] = IF p \in GivenUp(d) THEN 0 ELSE packageToMessage[e][p]
      BY <1>5, <2>1, IndexRetransmit
    <3>2. ASSUME NEW k \in Kept(d, id), k.package.packageId = p, p \in GivenUp(d)
          PROVE  FALSE
      <4>0. PICK lost \in UNION {pendingMessages[d][n] \ Kept(d, n) : n \in MessageId} :
                lost.package.packageId = p
        BY <3>2 DEF GivenUp
      <4>1. PICK n \in MessageId : lost \in pendingMessages[e][n] \ Kept(d, n)
        BY <2>1, <4>0
      <4>2. k \in pendingMessages[e][id]
        BY <2>1 DEF Kept
      <4>3. n = id
        BY <1>1, <3>2, <4>0, <4>1, <4>2 DEF HasPackage
      <4>4. Kept(d, id) = pendingMessages[d][id]
        BY KeptAllOrNone
      <4> QED
        BY <2>1, <4>1, <4>3, <4>4
    <3>3. HasPackage(e, id, p)' <=> \E k \in Kept(d, id) : k.package.packageId = p
      <4>1. \A k \in Kept(d, id) : k \in PendingPackageInfo /\ Retry(d, k).package = k.package
        BY <1>2, <2>1, RetryAlike DEF Kept
      <4>2. /\ \A i \in pendingMessages'[e][id] : \E k \in Kept(d, id) : i = Retry(d, k)
            /\ \A k \in Kept(d, id) : Retry(d, k) \in pendingMessages'[e][id]
        BY <1>5, <2>1, PendingRetransmit
      <4> QED
        BY <4>1, <4>2 DEF HasPackage
    <3>4. ASSUME HasPackage(e, id, p), p \notin GivenUp(d)
          PROVE  \E k \in Kept(d, id) : k.package.packageId = p
      BY <2>1, <3>4 DEF HasPackage, GivenUp
    <3>5. (\E k \in Kept(d, id) : k.package.packageId = p) => HasPackage(e, id, p)
      BY <2>1 DEF HasPackage, Kept
    <3>6. id # 0
      OBVIOUS
    <3> QED
      BY <1>1, <3>1, <3>2, <3>3, <3>4, <3>5, <3>6
  <2>2. CASE e # d
    <3>1. HasPackage(e, id, p)' <=> HasPackage(e, id, p)
      BY <1>5, <2>2, PendingRetransmit DEF HasPackage
    <3>2. packageToMessage'[e][p] = packageToMessage[e][p]
      BY <1>5, <2>2, IndexRetransmit
    <3> QED
      BY <1>1, <3>1, <3>2
  <2> QED
    BY <2>1, <2>2
<1>6. ASSUME NEW d \in Device, NEW dg \in net, HandleAck(d, dg)
      PROVE  packageToMessage'[e][p] = id <=> HasPackage(e, id, p)'
  <2> DEFINE ackId == dg.package.ackPackageId
             msgId == packageToMessage[d][ackId]
  <2>1. /\ ackId \in PackageId
        /\ packageToMessage'[e][p] = IF e = d /\ p = ackId THEN 0 ELSE packageToMessage[e][p]
        /\ pendingMessages'[e][id] =
               IF e = d /\ id = msgId THEN Remaining(d, id, ackId) ELSE pendingMessages[e][id]
    BY <1>6, PendingAck, IndexAck
  <2>2. e = d => (\A q \in PackageId : q = ackId => packageToMessage[e][q] = msgId)
    OBVIOUS
  <2> HIDE DEF ackId, msgId
  <2>3. id # 0
    OBVIOUS
  <2>4. CASE e = d /\ p = ackId
    <3>1. ~HasPackage(e, id, p)'
      <4>1. CASE id = msgId
        BY <2>1, <2>4, <4>1 DEF HasPackage, Remaining
      <4>2. CASE id # msgId
        BY <1>1, <2>1, <2>2, <2>4, <4>2 DEF HasPackage
      <4> QED
        BY <4>1, <4>2
    <3> QED
      BY <2>1, <2>3, <2>4, <3>1
  <2>5. CASE ~(e = d /\ p = ackId)
    <3>1. HasPackage(e, id, p)' <=> HasPackage(e, id, p)
      <4>1. CASE e = d /\ id = msgId
        BY <2>1, <2>5, <4>1 DEF HasPackage, Remaining
      <4>2. CASE ~(e = d /\ id = msgId)
        BY <2>1, <4>2 DEF HasPackage
      <4> QED
        BY <4>1, <4>2
    <3> QED
      BY <1>1, <2>1, <2>5, <3>1
  <2> QED
    BY <2>4, <2>5
<1>7. CASE UNCHANGED <<packageToMessage, pendingMessages>>
  BY <1>1, <1>7 DEF HasPackage
<1> QED
  BY <1>3, <1>4, <1>5, <1>6, <1>7, PendingFrame, IndexFrame

LEMMA OutcomeInit == Init => OutcomeInv
<1> SUFFICES ASSUME Init PROVE OutcomeInv
  OBVIOUS
<1>1. TypeOK /\ MessagesKnown /\ Lockstep
  BY SessionInit DEF SessionInv
<1>2. IndexFresh /\ IndexMatchesPending
  BY DEF Init, IndexFresh, IndexMatchesPending
<1>3. OneStage
  <2> SUFFICES ASSUME NEW d \in Device PROVE OneStageAt(d)
    BY DEF OneStage
  <2>1. /\ sdkQueue[d] = <<>> /\ callbacks[d] = <<>> /\ abandoned[d] = {}
        /\ \A id \in MessageId : pendingMessages[d][id] = {} /\ notified[d][id] = 0
    BY DEF Init
  <2>2. IsInjective(sdkQueue[d]) /\ IsInjective(callbacks[d])
    BY <2>1 DEF IsInjective
  <2>3. Range(sdkQueue[d]) = {} /\ Range(callbacks[d]) = {}
    BY <2>1 DEF Range
  <2> QED
    BY <2>1, <2>2, <2>3
    DEF OneStageAt, OneStageFor, Waiting, Reporting, Pending, Confirmed, Abandoned
<1> QED
  BY <1>1, <1>2, <1>3 DEF OutcomeInv

LEMMA OutcomeStep == OutcomeInv /\ [Next]_vars => OutcomeInv'
BY TypeStep, KnownStep, LockstepStep, StageStep, IndexFreshStep, IndexStep DEF OutcomeInv

(* Theorem: a message is at one stage of its way at a time, and the index    *)
(* of the pending packages is exact -- on any medium, with any listeners.    *)
THEOREM OutcomeSafe == Spec => []OutcomeInv
<1> QED
  BY OutcomeInit, OutcomeStep, PTL DEF Spec

(* Theorem: packageToMessage_ and pendingMessages_ always hold the same      *)
(* packages, so the branch of handleAckPackage for an entry without a        *)
(* message is never taken.                                                   *)
THEOREM IndexMatchesPendingAlways == Spec => []IndexMatchesPending
<1>1. OutcomeInv => IndexMatchesPending
  BY DEF OutcomeInv
<1> QED
  BY <1>1, OutcomeSafe, PTL

(* Theorem: onDelivered runs at most once for a message, and never for one   *)
(* that was given up -- although acknowledgements are repeated, come late,   *)
(* and race with the pass that gives the message up.                         *)
THEOREM OneOutcomeAlways == Spec => []OneOutcome
<1>1. OutcomeInv => OneOutcome
  <2> SUFFICES ASSUME OutcomeInv, NEW d \in Device, NEW id \in MessageId
               PROVE  notified[d][id] + (IF id \in abandoned[d] THEN 1 ELSE 0) <= 1
    BY DEF OneOutcome
  <2>1. OneStageFor(d, id)
    BY DEF OutcomeInv, OneStage, OneStageAt
  <2>2. notified[d][id] \in Nat
    <3>1. notified \in [Device -> [MessageId -> Nat]]
      BY DEF OutcomeInv, TypeOK
    <3> QED
      BY <3>1
  <2> QED
    BY <2>1, <2>2 DEF OneStageFor, Confirmed, Abandoned
<1> QED
  BY <1>1, OutcomeSafe, PTL

-----------------------------------------------------------------------------
(* What is put together *)

(* Lemma: the first fragments of a message are put on the wire, and unless   *)
(* package ids run out all of them.                                          *)
LEMMA TransmittedOrigin ==
    ASSUME TypeOK, [Next]_vars, NEW e \in Device, NEW p \in transmitted'[e],
           p \notin transmitted[e]
    PROVE  \E m \in Message : \E n \in 0..TotalFragments(m.size) :
               /\ NextInQueue(e, m)
               /\ p \in Fragments(e, m, n)
               /\ n < TotalFragments(m.size) \/ SendFragments(e, m)
<1>1. transmitted \in [Device -> SUBSET DataPackage]
  BY DEF TypeOK
<1>2. PICK d \in Device, m \in Message : SendFragments(d, m) \/ ExhaustPackageIds(d, m)
  <2> SUFFICES ASSUME \A d \in Device, m \in Message :
                          ~SendFragments(d, m) /\ ~ExhaustPackageIds(d, m)
               PROVE  transmitted' = transmitted
    OBVIOUS
  <2>1. ASSUME NEW d \in Device, Worker(d) PROVE UNCHANGED transmitted
    BY <2>1 DEF Worker, BeginPass, ProcessMessage, DropOversized, Retransmit, RunCallback, history
  <2>2. ASSUME NEW d \in Device, Application(d) PROVE UNCHANGED transmitted
    BY <2>2 DEF Application, Send, SetRetransmissionConfig, history
  <2>3. CASE Network
    <3>1. PICK dg \in net, d \in Device :
              ReceiveFragment(d, dg) \/ HandleAck(d, dg) \/ IgnoreAck(d, dg)
      BY <2>3 DEF Network
    <3> QED
      BY <3>1 DEF ReceiveFragment, HandleAck, IgnoreAck, history
  <2>4. CASE UNCHANGED vars
    BY <2>4 DEF vars, history
  <2> QED
    BY <2>1, <2>2, <2>3, <2>4 DEF Next
<1>3. NextInQueue(d, m) /\ TotalFragments(m.size) \in Nat
  BY <1>2, TotalFragmentsType DEF SendFragments, ExhaustPackageIds, Message
<1>4. PICK n \in 0..TotalFragments(m.size) :
          /\ transmitted' = [transmitted EXCEPT ![d] = @ \cup Fragments(d, m, n)]
          /\ n < TotalFragments(m.size) \/ SendFragments(d, m)
  <2> DEFINE total == TotalFragments(m.size)
  <2>1. CASE SendFragments(d, m)
    <3>1. transmitted' = [transmitted EXCEPT ![d] = @ \cup Fragments(d, m, total)]
      BY <2>1 DEF SendFragments
    <3>2. total \in 0..total
      BY <1>3
    <3> QED
      BY <2>1, <3>1, <3>2
  <2>2. CASE ExhaustPackageIds(d, m)
    <3>1. nextPackageId[d] + total - 1 > MaxPackageId
      BY <2>2 DEF ExhaustPackageIds
    <3>2. PICK n \in 0..(MaxPackageId + 1 - nextPackageId[d]) :
              transmitted' = [transmitted EXCEPT ![d] = @ \cup Fragments(d, m, n)]
      BY <2>2 DEF ExhaustPackageIds
    <3>3. nextPackageId[d] \in Nat
      BY NumbersGrow
    <3>4. n \in 0..total /\ n < total
      <4> HIDE DEF total
      <4> QED
        BY <1>3, <3>1, <3>3 DEF total
    <3> QED
      BY <3>2, <3>4
  <2> QED
    BY <1>2, <2>1, <2>2
<1>5. e = d /\ p \in Fragments(d, m, n)
  BY <1>1, <1>4
<1> QED
  BY <1>3, <1>4, <1>5

(* Lemma: every package that is put on the wire is cut from an accepted      *)
(* message.                                                                  *)
LEMMA CutStep ==
    TypeOK /\ MessagesKnown /\ CutFromAccepted /\ [Next]_vars => CutFromAccepted'
<1> SUFFICES ASSUME TypeOK, MessagesKnown, CutFromAccepted, [Next]_vars,
                    NEW e \in Device, NEW p \in transmitted'[e]
             PROVE  \E m \in accepted'[e] : CutFrom(e, m, p)
  BY DEF CutFromAccepted, CutFrom
<1>1. CASE p \in transmitted[e]
  BY <1>1, KnownStays DEF CutFromAccepted
<1>2. CASE p \notin transmitted[e]
  <2>1. PICK m \in Message : \E n \in 0..TotalFragments(m.size) :
            NextInQueue(e, m) /\ p \in Fragments(e, m, n)
    BY <1>2, TransmittedOrigin
  <2>2. PICK n \in 0..TotalFragments(m.size) : NextInQueue(e, m) /\ p \in Fragments(e, m, n)
    BY <2>1
  <2>3. m \in accepted'[e]
    BY <2>2, NextIsAccepted, KnownStays
  <2>4. TotalFragments(m.size) \in Nat /\ n \in Nat
    <3>1. TotalFragments(m.size) \in Nat
      BY TotalFragmentsType DEF Message
    <3> QED
      BY <3>1
  <2>5. PICK i \in 0..(n - 1) : p = Fragment(e, m, i, nextPackageId[e] + i)
    BY <2>2, <2>4, FragmentsAre
  <2>6. CutFrom(e, m, p)
    BY <2>4, <2>5 DEF CutFrom, Fragment
  <2> QED
    BY <2>3, <2>6
<1> QED
  BY <1>1, <1>2

(* Lemma: where what is filed comes from, when a fragment is received.       *)
LEMMA FragmentFiled ==
    ASSUME TypeOK, FiledAsHeard, NEW d \in Device, NEW dg \in net, ReceiveFragment(d, dg),
           [Next]_vars
    PROVE  /\ dg.package \in DataPackage /\ dg.package \in heard'[d]
           /\ Append(receivedPackages[d][dg.package.messageId], dg.package)
                 \in Seq(HeardOf(d, dg.package.messageId)')
<1> DEFINE pkg == dg.package
<1>1. pkg \in DataPackage /\ pkg.messageId \in MessageId
  BY DEF ReceiveFragment, TypeOK, Datagram, DataPackage, AckPackage
<1>2. pkg \in heard'[d]
  BY DEF ReceiveFragment, TypeOK
<1> HIDE DEF pkg
<1>3. receivedPackages[d][pkg.messageId] \in Seq(HeardOf(d, pkg.messageId))
  BY <1>1 DEF FiledAsHeard
<1>4. HeardOf(d, pkg.messageId) \subseteq HeardOf(d, pkg.messageId)'
  BY HistoryGrows DEF HeardOf
<1>5. pkg \in HeardOf(d, pkg.messageId)'
  BY <1>2 DEF HeardOf
<1>6. Append(receivedPackages[d][pkg.messageId], pkg) \in Seq(HeardOf(d, pkg.messageId)')
  BY <1>3, <1>4, <1>5, SeqGrows
<1> QED
  BY <1>1, <1>2, <1>6 DEF pkg

(* Lemma: fragments are filed under the message they name.                   *)
LEMMA FiledStep == TypeOK /\ FiledAsHeard /\ [Next]_vars => FiledAsHeard'
<1> SUFFICES ASSUME TypeOK, FiledAsHeard, [Next]_vars, NEW e \in Device, NEW id \in MessageId
             PROVE  receivedPackages'[e][id] \in Seq(HeardOf(e, id)')
  BY DEF FiledAsHeard, HeardOf
<1>1. receivedPackages[e][id] \in Seq(HeardOf(e, id)')
  <2>1. HeardOf(e, id) \subseteq HeardOf(e, id)'
    BY HistoryGrows DEF HeardOf
  <2> QED
    BY <2>1, SeqGrows DEF FiledAsHeard
<1>2. receivedPackages \in [Device -> [MessageId -> Seq(DataPackage)]]
  BY DEF TypeOK
<1>3. ASSUME NEW d \in Device, NEW dg \in net, ReceiveFragment(d, dg)
      PROVE  receivedPackages'[e][id] \in Seq(HeardOf(e, id)')
  <2> DEFINE pkg == dg.package
             vec == Append(receivedPackages[d][pkg.messageId], pkg)
  <2>1. vec \in Seq(HeardOf(d, pkg.messageId)') /\ pkg.messageId \in MessageId
    BY <1>3, FragmentFiled DEF DataPackage
  <2>2. PICK new \in {vec, <<>>} :
            receivedPackages' = [receivedPackages EXCEPT ![d][pkg.messageId] = new]
    BY <1>3 DEF ReceiveFragment
  <2>3. new \in Seq(HeardOf(d, pkg.messageId)')
    <3>1. <<>> \in Seq(HeardOf(d, pkg.messageId)')
      OBVIOUS
    <3> HIDE DEF vec, pkg
    <3> QED
      BY <2>1, <2>2, <3>1
  <2> HIDE DEF vec, pkg
  <2>4. receivedPackages'[e][id] =
            IF e = d /\ id = pkg.messageId THEN new ELSE receivedPackages[e][id]
    BY <1>2, <2>1, <2>2
  <2> QED
    BY <1>1, <2>3, <2>4
<1>4. CASE UNCHANGED receivedPackages
  BY <1>1, <1>4
<1>5. ASSUME NEW d \in Device, Worker(d) PROVE UNCHANGED receivedPackages
  BY <1>5 DEF Worker, BeginPass, ProcessMessage, DropOversized, SendFragments,
              ExhaustPackageIds, Retransmit, RunCallback
<1>6. ASSUME NEW d \in Device, Application(d) PROVE UNCHANGED receivedPackages
  BY <1>6 DEF Application, Send, SetRetransmissionConfig
<1>7. CASE Network
  BY <1>3, <1>4, <1>7 DEF Network, HandleAck, IgnoreAck
<1>8. CASE UNCHANGED vars
  BY <1>4, <1>8 DEF vars
<1> QED
  BY <1>4, <1>5, <1>6, <1>7, <1>8 DEF Next

(* What DeliveredIntact says of one message that was handed up at e. *)
Genuine(e, message) ==
    \E d \in Device : \E m \in accepted[d] :
        /\ e \in Listeners[d]
        /\ message =
             [id |-> m.id, parts |-> [i \in 0..(TotalFragments(m.size) - 1) |-> <<d, i>>]]

(* Lemma: fragments of one id that come from one device, in order, are a     *)
(* message of that device.                                                   *)
LEMMA AssembledIsGenuine ==
    ASSUME OneSource, TypeOK', PackagesGenuine', CutFromAccepted',
           NEW e \in Device, NEW pkg \in heard'[e], NEW vec \in Seq(HeardOf(e, pkg.messageId)'),
           InOrder(vec, pkg.fragmentsCount),
           NEW parts \in FullPayloads(vec, pkg.fragmentsCount)
    PROVE  Genuine(e, [id |-> pkg.messageId, parts |-> parts])'
<1> DEFINE d == pkg.payload
           count == pkg.fragmentsCount
<1>1. \A p \in heard'[e] : /\ p \in DataPackage /\ p.payload \in Device
                            /\ p \in transmitted'[p.payload] /\ e \in Listeners[p.payload]
  <2> SUFFICES ASSUME NEW p \in heard'[e]
               PROVE  /\ p \in DataPackage /\ p.payload \in Device
                      /\ p \in transmitted'[p.payload] /\ e \in Listeners[p.payload]
    OBVIOUS
  <2>1. heard' \in [Device -> SUBSET DataPackage]
    BY DEF TypeOK
  <2>2. p \in DataPackage
    BY <2>1
  <2>3. p.payload \in Device
    BY <2>2 DEF DataPackage
  <2>4. p \in transmitted'[p.payload] /\ e \in Listeners[p.payload]
    BY DEF PackagesGenuine
  <2> QED
    BY <2>2, <2>3, <2>4
<1>2. PICK m \in accepted'[d] : CutFrom(d, m, pkg)
  BY <1>1 DEF CutFromAccepted, CutFrom
<1>3. count = TotalFragments(m.size) /\ pkg.messageId = m.id
  BY <1>2 DEF CutFrom
<1>4. ASSUME NEW i \in 0..(count - 1)
      PROVE  parts[i] = <<d, i>>
  <2>1. PICK k \in AtPosition(vec, i) : parts[i] = BytesOf(vec[k])
    BY DEF FullPayloads
  <2>2. vec[k].fragmentId = i
    BY <2>1 DEF InOrder
  <2>3. vec[k] \in heard'[e]
    <3>1. k \in DOMAIN vec
      BY <2>1 DEF AtPosition
    <3>2. vec[k] \in HeardOf(e, pkg.messageId)'
      BY <3>1, SeqIs
    <3> QED
      BY <3>2 DEF HeardOf
  <2>4. vec[k].payload = d
    BY <1>1, <2>3 DEF OneSource
  <2> QED
    BY <2>1, <2>2, <2>4 DEF BytesOf
<1>5. parts = [i \in 0..(count - 1) |-> <<d, i>>]
  <2>1. parts \in [0..(count - 1) -> Bytes]
    BY DEF FullPayloads
  <2> HIDE DEF count, d
  <2> QED
    BY <1>4, <2>1
<1>6. d \in Device /\ e \in Listeners[d]
  BY <1>1
<1>7. [id |-> pkg.messageId, parts |-> parts] =
          [id |-> m.id, parts |-> [i \in 0..(TotalFragments(m.size) - 1) |-> <<d, i>>]]
  BY <1>3, <1>5
<1> QED
  BY <1>2, <1>6, <1>7 DEF Genuine

(* Lemma: every step hands up only messages of one device, whole.            *)
LEMMA IntactStep ==
    ASSUME OneSource
    PROVE  /\ TypeOK /\ TypeOK' /\ PackagesGenuine' /\ CutFromAccepted'
           /\ FiledAsHeard /\ DeliveredIntact /\ [Next]_vars
           => DeliveredIntact'
<1> SUFFICES ASSUME TypeOK, TypeOK', PackagesGenuine', CutFromAccepted', FiledAsHeard,
                    DeliveredIntact, [Next]_vars, NEW e \in Device, NEW k \in DOMAIN delivered'[e]
             PROVE  Genuine(e, delivered[e][k])'
  BY DEF DeliveredIntact, Genuine
<1>1. ASSUME k \in DOMAIN delivered[e], delivered'[e][k] = delivered[e][k]
      PROVE  Genuine(e, delivered[e][k])'
  <2>1. Genuine(e, delivered[e][k])
    BY <1>1 DEF DeliveredIntact, Genuine
  <2> QED
    BY <1>1, <2>1, KnownStays DEF Genuine
<1> DEFINE Delivered == [id : MessageId, parts :
           UNION {[0..(n - 1) -> Bytes] : n \in 1..MaxFragmentsCount}]
<1>2. delivered \in [Device -> Seq(Delivered)] /\ delivered' \in [Device -> Seq(Delivered)]
  BY DEF TypeOK
<1> HIDE DEF Delivered
<1>3. ASSUME NEW d \in Device, NEW dg \in net, ReceiveFragment(d, dg), delivered' # delivered
      PROVE  Genuine(e, delivered[e][k])'
  <2> DEFINE pkg == dg.package
             vec == Append(receivedPackages[d][pkg.messageId], pkg)
  <2>1. /\ InOrder(vec, pkg.fragmentsCount)
        /\ \E parts \in FullPayloads(vec, pkg.fragmentsCount) :
               delivered' = [delivered EXCEPT ![d] =
                   Append(@, [id |-> pkg.messageId, parts |-> parts])]
    BY <1>3 DEF ReceiveFragment
  <2>2. PICK parts \in FullPayloads(vec, pkg.fragmentsCount) :
            delivered' = [delivered EXCEPT ![d] =
                Append(@, [id |-> pkg.messageId, parts |-> parts])]
    BY <2>1
  <2>3. pkg \in heard'[d] /\ vec \in Seq(HeardOf(d, pkg.messageId)')
    BY <1>3, FragmentFiled
  <2> DEFINE message == [id |-> pkg.messageId, parts |-> parts]
  <2>4. Genuine(d, message)'
    <3> HIDE DEF vec, pkg
    <3> QED
      BY <2>1, <2>2, <2>3, AssembledIsGenuine
  <2>5. delivered' = [delivered EXCEPT ![d] = Append(@, message)]
    BY <2>2
  <2> HIDE DEF message
  <2>6. delivered'[e] = IF e = d THEN Append(delivered[e], message) ELSE delivered[e]
    BY <1>2, <2>5
  <2>7. CASE e = d /\ k = Len(delivered[e]) + 1
    <3>1. delivered'[e][k] = message
      <4>1. message \in Delivered
        <5>1. Append(delivered[e], message) \in Seq(Delivered)
          BY <1>2, <2>6, <2>7
        <5> QED
          BY <1>2, <5>1
      <4> QED
        BY <1>2, <2>6, <2>7, <4>1, Appended
    <3> QED
      BY <2>4, <2>7, <3>1
  <2>8. CASE ~(e = d /\ k = Len(delivered[e]) + 1)
    <3>1. k \in DOMAIN delivered[e] /\ delivered'[e][k] = delivered[e][k]
      BY <1>2, <2>6, <2>8
    <3> QED
      BY <1>1, <3>1
  <2> QED
    BY <2>7, <2>8
<1>4. CASE UNCHANGED delivered
  BY <1>1, <1>4
<1>5. ASSUME NEW d \in Device, Worker(d) PROVE UNCHANGED delivered
  BY <1>5 DEF Worker, BeginPass, ProcessMessage, DropOversized, SendFragments,
              ExhaustPackageIds, Retransmit, RunCallback, history
<1>6. ASSUME NEW d \in Device, Application(d) PROVE UNCHANGED delivered
  BY <1>6 DEF Application, Send, SetRetransmissionConfig, history
<1>7. CASE Network
  BY <1>3, <1>4, <1>7 DEF Network, HandleAck, IgnoreAck, history
<1>8. CASE UNCHANGED vars
  BY <1>4, <1>8 DEF vars, history
<1> QED
  BY <1>4, <1>5, <1>6, <1>7, <1>8 DEF Next

LEMMA ContentInit == Init => ContentInv
<1> SUFFICES ASSUME Init PROVE ContentInv
  OBVIOUS
<1>1. TypeOK /\ MessagesKnown /\ PackagesUnique /\ PackagesGenuine
  BY SessionInit DEF SessionInv
<1>2. CutFromAccepted /\ DeliveredIntact
  BY DEF Init, CutFromAccepted, DeliveredIntact
<1>3. FiledAsHeard
  <2> SUFFICES ASSUME NEW e \in Device, NEW id \in MessageId
               PROVE  receivedPackages[e][id] \in Seq(HeardOf(e, id))
    BY DEF FiledAsHeard
  <2>1. receivedPackages[e][id] = <<>>
    BY DEF Init
  <2>2. <<>> \in Seq(HeardOf(e, id))
    OBVIOUS
  <2> QED
    BY <2>1, <2>2
<1> QED
  BY <1>1, <1>2, <1>3 DEF ContentInv

LEMMA ContentStep ==
    ASSUME OneSource
    PROVE  ContentInv /\ [Next]_vars => ContentInv'
<1> SUFFICES ASSUME ContentInv, [Next]_vars PROVE ContentInv'
  OBVIOUS
<1>1. TypeOK' /\ MessagesKnown' /\ PackagesUnique' /\ PackagesGenuine'
  BY TypeStep, KnownStep, UniqueStep, GenuineStep DEF ContentInv
<1>2. CutFromAccepted' /\ FiledAsHeard'
  BY CutStep, FiledStep DEF ContentInv
<1>3. DeliveredIntact'
  BY <1>1, <1>2, IntactStep DEF ContentInv
<1> QED
  BY <1>1, <1>2, <1>3 DEF ContentInv

(* Theorem: where nobody hears two devices, what is filed and put together   *)
(* comes from one message.                                                   *)
THEOREM ContentSafe ==
    ASSUME OneSource
    PROVE  Spec => []ContentInv
<1> QED
  BY ContentInit, ContentStep, PTL DEF Spec

(* Theorem: what is handed up to the SDK is one message that a device sent,  *)
(* every fragment of it and in order -- however fragments are lost,          *)
(* repeated and reordered on the way.                                        *)
THEOREM DeliveredIntactAlways ==
    ASSUME OneSource
    PROVE  Spec => []DeliveredIntact
<1>1. ContentInv => DeliveredIntact
  BY DEF ContentInv
<1> QED
  BY <1>1, ContentSafe, PTL

-----------------------------------------------------------------------------
(* What was sent whole is tracked *)

OutStage(d, id) == Pending(d, id) \/ Confirmed(d, id) \/ Abandoned(d, id)

(* Lemma: how the outcome of a message can change: an acknowledgement, the   *)
(* retransmission pass and the sending of its fragments do it.               *)
LEMMA OutStays ==
    ASSUME TypeOK, [Next]_vars, NEW e \in Device, NEW id \in MessageId, OutStage(e, id)
    PROVE  OutStage(e, id)'
<1>1. /\ notified \in [Device -> [MessageId -> Nat]] /\ notified' \in [Device -> [MessageId -> Nat]]
      /\ abandoned \in [Device -> SUBSET MessageId]
  BY TypeStep DEF TypeOK
<1>2. Confirmed(e, id) => Confirmed(e, id)'
  <2> SUFFICES ASSUME notified' # notified, notified[e][id] > 0 PROVE notified'[e][id] > 0
    BY DEF Confirmed
  <2>1. PICK d \in Device : \E called : notified' = [notified EXCEPT ![d][called] = @ + 1]
    <3>1. ASSUME NEW d \in Device, Worker(d)
          PROVE  \E called : notified' = [notified EXCEPT ![d][called] = @ + 1]
      BY <3>1 DEF Worker, BeginPass, ProcessMessage, DropOversized, SendFragments,
                  ExhaustPackageIds, Retransmit, RunCallback, history
    <3>2. ASSUME NEW d \in Device, Application(d) PROVE FALSE
      BY <3>2 DEF Application, Send, SetRetransmissionConfig, history
    <3>3. CASE Network
      <4>1. PICK dg \in net, d \in Device :
                ReceiveFragment(d, dg) \/ HandleAck(d, dg) \/ IgnoreAck(d, dg)
        BY <3>3 DEF Network
      <4> QED
        BY <4>1 DEF ReceiveFragment, HandleAck, IgnoreAck, history
    <3>4. CASE UNCHANGED vars
      BY <3>4 DEF vars, history
    <3> QED
      BY <3>1, <3>2, <3>3, <3>4 DEF Next
  <2>2. PICK called : notified' = [notified EXCEPT ![d][called] = @ + 1]
    BY <2>1
  <2> QED
    BY <1>1, <2>2
<1>3. Abandoned(e, id) => Abandoned(e, id)'
  <2> SUFFICES ASSUME abandoned' # abandoned, id \in abandoned[e] PROVE id \in abandoned'[e]
    BY DEF Abandoned
  <2>1. PICK d \in Device : Retransmit(d)
    <3>1. ASSUME NEW d \in Device, Worker(d) PROVE Retransmit(d)
      BY <3>1 DEF Worker, BeginPass, ProcessMessage, DropOversized, SendFragments,
                  ExhaustPackageIds, RunCallback, history
    <3>2. ASSUME NEW d \in Device, Application(d) PROVE FALSE
      BY <3>2 DEF Application, Send, SetRetransmissionConfig, history
    <3>3. CASE Network
      <4>1. PICK dg \in net, d \in Device :
                ReceiveFragment(d, dg) \/ HandleAck(d, dg) \/ IgnoreAck(d, dg)
        BY <3>3 DEF Network
      <4> QED
        BY <4>1 DEF ReceiveFragment, HandleAck, IgnoreAck, history
    <3>4. CASE UNCHANGED vars
      BY <3>4 DEF vars, history
    <3> QED
      BY <3>1, <3>2, <3>3, <3>4 DEF Next
  <2>2. PICK given : abandoned' = [abandoned EXCEPT ![d] = @ \cup given]
    BY <2>1 DEF Retransmit
  <2> QED
    BY <1>1, <2>2
<1>4. ASSUME Pending(e, id) PROVE OutStage(e, id)'
  <2>1. ASSUME NEW d \in Device, NEW elapsed \in 1..MaxInterval, BeginPass(d, elapsed)
        PROVE  Pending(e, id)'
    BY <1>4, <2>1, PendingBeginPass DEF Pending
  <2>2. ASSUME NEW d \in Device, NEW m \in Message, SendFragments(d, m)
        PROVE  Pending(e, id)'
    <3>1. CASE e = d /\ id = m.id /\ m.requireAck
      <4>1. TotalFragments(m.size) \in Nat \ {0}
        BY TotalFragmentsType DEF Message
      <4>2. Fragment(d, m, 0, nextPackageId[d] + 0) \in Fragments(d, m, TotalFragments(m.size))
        BY <4>1 DEF Fragments
      <4>3. \A p \in Fragments(d, m, TotalFragments(m.size)) :
                [package |-> p, attempts |-> 1, age |-> 0] \in pendingMessages'[e][id]
        BY <2>2, <3>1, PendingSend
      <4>4. PICK p \in Fragments(d, m, TotalFragments(m.size)) : TRUE
        BY <4>2
      <4> QED
        BY <4>3, <4>4 DEF Pending
    <3>2. CASE ~(e = d /\ id = m.id /\ m.requireAck)
      BY <1>4, <2>2, <3>2, PendingSend DEF Pending
    <3> QED
      BY <3>1, <3>2
  <2>3. ASSUME NEW d \in Device, Retransmit(d)
        PROVE  Pending(e, id)' \/ Abandoned(e, id)'
    <3>1. CASE e = d /\ Kept(d, id) = {}
      <4>1. abandoned' = [abandoned EXCEPT ![d] = @ \cup
                {m \in MessageId : pendingMessages[d][m] # {} /\ Kept(d, m) = {}}]
        BY <2>3 DEF Retransmit
      <4> QED
        BY <1>1, <1>4, <3>1, <4>1 DEF Pending, Abandoned
    <3>2. CASE e = d /\ Kept(d, id) # {}
      BY <2>3, <3>2, PendingRetransmit DEF Pending
    <3>3. CASE e # d
      BY <1>4, <2>3, <3>3, PendingRetransmit DEF Pending
    <3> QED
      BY <3>1, <3>2, <3>3
  <2>4. ASSUME NEW d \in Device, NEW dg \in net, HandleAck(d, dg)
        PROVE  Pending(e, id)' \/ Confirmed(e, id)'
    <3> DEFINE ackId == dg.package.ackPackageId
               msgId == packageToMessage[d][ackId]
               rest  == Remaining(d, msgId, ackId)
    <3>1. /\ msgId \in MessageId
          /\ pendingMessages'[e][id] =
                 IF e = d /\ id = msgId THEN Remaining(d, id, ackId) ELSE pendingMessages[e][id]
      BY <2>4, PendingAck
    <3>2. pendingMessages[d][msgId] # {} /\ rest = {} =>
              notified' = [notified EXCEPT ![d][msgId] = @ + 1]
      BY <2>4 DEF HandleAck
    <3>3. CASE e = d /\ id = msgId /\ rest = {}
      <4>1. notified' = [notified EXCEPT ![d][msgId] = @ + 1]
        BY <1>4, <3>2, <3>3 DEF Pending
      <4> HIDE DEF ackId, msgId, rest
      <4> QED
        BY <1>1, <3>1, <3>3, <4>1 DEF Confirmed
    <3>4. CASE ~(e = d /\ id = msgId /\ rest = {})
      BY <1>4, <3>1, <3>4 DEF Pending
    <3> QED
      BY <3>3, <3>4
  <2>5. CASE UNCHANGED pendingMessages
    BY <1>4, <2>5 DEF Pending, OutStage
  <2> QED
    BY <2>1, <2>2, <2>3, <2>4, <2>5, PendingFrame DEF OutStage
<1> QED
  BY <1>2, <1>3, <1>4 DEF OutStage

(* Lemma: an accepted message of the next state is not new once one of its   *)
(* packages is out.                                                          *)
LEMMA SentWasAccepted ==
    ASSUME TypeOK, MessagesKnown, CutFromAccepted, [Next]_vars, NEW d \in Device,
           NEW m \in accepted'[d], NEW p \in transmitted[d], p.messageId = m.id
    PROVE  m \in accepted[d]
<1> SUFFICES ASSUME m \notin accepted[d] PROVE FALSE
  OBVIOUS
<1>1. m.id = nextMessageId[d]
  BY AcceptedOrigin
<1>2. PICK k \in accepted[d] : k.id = m.id
  BY DEF CutFromAccepted, CutFrom
<1>3. k.id < nextMessageId[d]
  BY DEF MessagesKnown, MessagesKnownAt
<1>4. nextMessageId[d] \in Nat
  <2>1. nextMessageId \in [Device -> 1..(MaxMessageId + 1)]
    BY DEF TypeOK
  <2> QED
    BY <2>1
<1> QED
  BY <1>1, <1>2, <1>3, <1>4

(* Lemma: no step sends the last fragment of a message that wants an         *)
(* acknowledgement without waiting for it.                                   *)
LEMMA SentStep ==
    TypeOK /\ MessagesKnown /\ CutFromAccepted /\ SentIsTracked /\ [Next]_vars
    => SentIsTracked'
<1> SUFFICES ASSUME TypeOK, MessagesKnown, CutFromAccepted, SentIsTracked, [Next]_vars,
                    NEW d \in Device, NEW m \in Tracked(d)',
                    NEW p \in transmitted'[d],
                    p.messageId = m.id, p.fragmentId = TotalFragments(m.size) - 1
             PROVE  OutStage(d, m.id)'
  BY DEF SentIsTracked, LastFragmentSent, OutStage
<1>1. /\ m \in accepted'[d] /\ IsTracked(m)
      /\ m \in Message /\ m.id \in MessageId
  <2>1. m \in accepted'[d] /\ IsTracked(m)
    BY DEF Tracked
  <2>2. accepted' \in [Device -> SUBSET Message]
    BY TypeStep DEF TypeOK
  <2> QED
    BY <2>1, <2>2 DEF Message
<1>2. CASE p \in transmitted[d]
  <2>1. m \in accepted[d]
    BY <1>1, <1>2, SentWasAccepted
  <2>2. OutStage(d, m.id)
    BY <1>1, <1>2, <2>1 DEF SentIsTracked, Tracked, LastFragmentSent, OutStage
  <2> QED
    BY <1>1, <2>2, OutStays
<1>3. CASE p \notin transmitted[d]
  <2>1. PICK k \in Message : \E n \in 0..TotalFragments(k.size) :
            /\ NextInQueue(d, k) /\ p \in Fragments(d, k, n)
            /\ n < TotalFragments(k.size) \/ SendFragments(d, k)
    BY <1>3, TransmittedOrigin
  <2>2. PICK n \in 0..TotalFragments(k.size) :
            /\ NextInQueue(d, k) /\ p \in Fragments(d, k, n)
            /\ n < TotalFragments(k.size) \/ SendFragments(d, k)
    BY <2>1
  <2>3. TotalFragments(k.size) \in Nat
    BY TotalFragmentsType DEF Message
  <2>4. PICK i \in 0..(n - 1) : p.fragmentId = i /\ p.messageId = k.id
    <3>1. n \in Nat
      BY <2>3
    <3> QED
      BY <2>2, <3>1, FragmentsAre
  <2>5. k = m
    <3>1. k \in accepted'[d]
      BY <2>2, NextIsAccepted, KnownStays
    <3>2. MessagesKnownAt(d)'
      BY KnownStep DEF MessagesKnown
    <3> QED
      BY <1>1, <2>4, <3>1, <3>2 DEF MessagesKnownAt
  <2>6. n = TotalFragments(k.size) /\ SendFragments(d, k)
    BY <2>2, <2>3, <2>4, <2>5
  <2>7. Pending(d, m.id)'
    BY <1>1, <2>2, <2>5, <2>6, PendingSend DEF Pending, IsTracked
  <2> QED
    BY <2>7 DEF OutStage
<1> QED
  BY <1>2, <1>3

-----------------------------------------------------------------------------
(* The session manager implements ReliableDelivery *)

Outcomes == [d \in Device |-> [m \in MessageId |-> OutcomeOf(d, m)]]
HasArrived(d, id) == \E msg \in Tracked(d) : msg.id = id /\ Arrived(d, msg)
Arrivals == [d \in Device |-> {m \in MessageId : HasArrived(d, m)}]

(* Lemma: an outcome is read off the stage.                                  *)
LEMMA OutcomeIs ==
    ASSUME NEW d, NEW id
    PROVE  OutcomeOf(d, id) = IF ~TrackedId(d, id)  THEN "unsent"
                              ELSE IF Confirmed(d, id) THEN "confirmed"
                              ELSE IF Abandoned(d, id) THEN "abandoned"
                              ELSE IF Pending(d, id)   THEN "inFlight" ELSE "unsent"
BY DEF OutcomeOf, Confirmed, Abandoned, Pending

(* Lemma: a step that changes no stage changes no outcome.                   *)
LEMMA OutcomeFrame ==
    ASSUME NEW d, NEW id,
           TrackedId(d, id)' <=> TrackedId(d, id),
           TrackedId(d, id) => /\ Confirmed(d, id)' <=> Confirmed(d, id)
                               /\ Abandoned(d, id)' <=> Abandoned(d, id)
                               /\ Pending(d, id)' <=> Pending(d, id)
    PROVE  OutcomeOf(d, id)' = OutcomeOf(d, id)
<1>1. OutcomeOf(d, id)' =
          IF ~TrackedId(d, id)'  THEN "unsent"
          ELSE IF Confirmed(d, id)' THEN "confirmed"
          ELSE IF Abandoned(d, id)' THEN "abandoned"
          ELSE IF Pending(d, id)'   THEN "inFlight" ELSE "unsent"
  BY DEF OutcomeOf, Confirmed, Abandoned, Pending
<1> QED
  BY <1>1, OutcomeIs

(* Lemma: what arrived depends on what was accepted and heard only.          *)
LEMMA ArrivedFrame ==
    ASSUME UNCHANGED <<accepted, heard>>
    PROVE  /\ UNCHANGED Arrivals
           /\ \A d \in Device, id \in MessageId : TrackedId(d, id)' <=> TrackedId(d, id)
<1>1. \A d \in Device : Tracked(d)' = Tracked(d)
  BY DEF Tracked
<1>2. \A d \in Device : \A m : Arrived(d, m)' <=> Arrived(d, m)
  BY DEF Arrived, FragmentHeard
<1> QED
  BY <1>1, <1>2 DEF Arrivals, HasArrived, TrackedId

(* Lemma: to compare the outcomes, compare them one by one.                  *)
LEMMA OutcomesChange ==
    ASSUME NEW d \in Device, NEW new,
           \A e \in Device, id \in MessageId :
               OutcomeOf(e, id)' = IF e = d THEN new[id] ELSE OutcomeOf(e, id)
    PROVE  Outcomes' = [Outcomes EXCEPT ![d] = [id \in MessageId |-> new[id]]]
BY DEF Outcomes

(* Lemma: only a message that a step resolves, or sends, changes its         *)
(* outcome.                                                                  *)
LEMMA OutcomesStay ==
    ASSUME \A e \in Device, id \in MessageId : OutcomeOf(e, id)' = OutcomeOf(e, id)
    PROVE  UNCHANGED Outcomes
BY DEF Outcomes

(* Lemma: for the sender a message that is handed over is not sent yet.      *)
LEMMA PromiseSend ==
    ASSUME PromiseInv, [Next]_vars, NEW d \in Device, NEW size \in Sizes,
           NEW requireAck \in BOOLEAN, Send(d, size, requireAck)
    PROVE  UNCHANGED <<Outcomes, Arrivals>>
<1> USE DEF PromiseInv, OutcomeInv, ContentInv
<1> DEFINE new == [id |-> nextMessageId[d], size |-> size, requireAck |-> requireAck]
<1>1. /\ accepted' = [accepted EXCEPT ![d] = @ \cup {new}] /\ new.id = nextMessageId[d]
      /\ new \in Message /\ nextMessageId[d] <= MaxMessageId
      /\ UNCHANGED <<pendingMessages, notified, abandoned, heard>>
  BY DEF Send, Message, TypeOK
<1> HIDE DEF new
<1>2. accepted \in [Device -> SUBSET Message]
  BY DEF TypeOK
<1>3. \A e \in Device : accepted'[e] = IF e = d THEN accepted[e] \cup {new} ELSE accepted[e]
  BY <1>1, <1>2
<1>4. ASSUME NEW e \in Device, NEW m
      PROVE  m \in Tracked(e)' <=> m \in Tracked(e) \/ (e = d /\ m = new /\ IsTracked(new))
  <2>1. m \in Tracked(e)' <=> m \in accepted'[e] /\ IsTracked(m)
    BY DEF Tracked
  <2>2. m \in accepted'[e] <=> m \in accepted[e] \/ (e = d /\ m = new)
    BY <1>3
  <2>3. m \in Tracked(e) <=> m \in accepted[e] /\ IsTracked(m)
    BY DEF Tracked
  <2> QED
    BY <2>1, <2>2, <2>3
<1>5. \A e \in Device, id \in MessageId : OutcomeOf(e, id)' = OutcomeOf(e, id)
  <2> SUFFICES ASSUME NEW e \in Device, NEW id \in MessageId
               PROVE  OutcomeOf(e, id)' = OutcomeOf(e, id)
    OBVIOUS
  <2>1. /\ Confirmed(e, id)' <=> Confirmed(e, id)
        /\ Abandoned(e, id)' <=> Abandoned(e, id)
        /\ Pending(e, id)' <=> Pending(e, id)
    BY <1>1 DEF Confirmed, Abandoned, Pending
  <2>2. CASE e = d /\ id = new.id
    <3>1. ~Confirmed(e, id) /\ ~Abandoned(e, id) /\ ~Pending(e, id)
      BY <1>1, <2>2, FreshIsNowhere
    <3>2. OutcomeOf(e, id) = "unsent"
      BY <3>1, OutcomeIs
    <3>3. OutcomeOf(e, id)' = "unsent"
      BY <2>1, <3>1 DEF OutcomeOf, Confirmed, Abandoned, Pending
    <3> QED
      BY <3>2, <3>3
  <2>3. CASE ~(e = d /\ id = new.id)
    <3>1. TrackedId(e, id)' <=> TrackedId(e, id)
      BY <1>4, <2>3 DEF TrackedId
    <3> QED
      BY <2>1, <3>1, OutcomeFrame
  <2> QED
    BY <2>2, <2>3
<1>6. ~Arrived(d, new)
  <2> SUFFICES ASSUME NEW e \in Listeners[d],
                      \A i \in 0..(TotalFragments(new.size) - 1) : FragmentHeard(d, new, i, e)
               PROVE  FALSE
    BY DEF Arrived
  <2>1. 0 \in 0..(TotalFragments(new.size) - 1)
    <3>1. TotalFragments(new.size) \in Nat \ {0}
      BY <1>1, TotalFragmentsType DEF Message
    <3> QED
      BY <3>1
  <2>2. PICK p \in heard[e] : p.payload = d /\ p.messageId = new.id
    BY <2>1 DEF FragmentHeard
  <2>3. p \in transmitted[d]
    BY <2>2 DEF PackagesGenuine
  <2>4. KnownId(d, new.id)
    BY <2>2, <2>3 DEF CutFromAccepted, CutFrom, KnownId
  <2> QED
    BY <1>1, <2>4, FreshIsNowhere
<1>7. \A e \in Device : \A m : Arrived(e, m)' <=> Arrived(e, m)
  BY <1>1 DEF Arrived, FragmentHeard
<1>8. UNCHANGED Arrivals
  <2>1. \A e \in Device, id \in MessageId : HasArrived(e, id)' <=> HasArrived(e, id)
    BY <1>4, <1>6, <1>7 DEF HasArrived
  <2> QED
    BY <2>1 DEF Arrivals
<1> QED
  BY <1>5, <1>8, OutcomesStay

(* Lemma: sending the fragments of a tracked message is taking it over.      *)
LEMMA PromiseSubmit ==
    ASSUME PromiseInv, [Next]_vars, NEW d \in Device, NEW m \in Message, SendFragments(d, m)
    PROVE  UNCHANGED <<Outcomes, Arrivals>> \/ Promise!Submit(d, m.id)
<1> USE DEF PromiseInv, OutcomeInv
<1>1. UNCHANGED <<accepted, heard, notified, abandoned>> /\ NextInQueue(d, m)
  BY DEF SendFragments
<1>2. /\ UNCHANGED Arrivals
      /\ \A e \in Device, id \in MessageId : TrackedId(e, id)' <=> TrackedId(e, id)
  BY <1>1, ArrivedFrame
<1>3. m \in accepted[d] /\ m.id \in MessageId
  BY <1>1, NextIsAccepted DEF Message
<1>4. ASSUME NEW e \in Device, NEW id \in MessageId, ~(e = d /\ id = m.id /\ m.requireAck)
      PROVE  OutcomeOf(e, id)' = OutcomeOf(e, id)
  <2>1. /\ Confirmed(e, id)' <=> Confirmed(e, id)
        /\ Abandoned(e, id)' <=> Abandoned(e, id)
        /\ Pending(e, id)' <=> Pending(e, id)
    BY <1>1, <1>4, PendingSend DEF Confirmed, Abandoned, Pending
  <2> QED
    BY <1>2, <2>1, OutcomeFrame
<1>5. CASE ~m.requireAck
  BY <1>2, <1>4, <1>5, OutcomesStay
<1>6. CASE m.requireAck
  <2>1. TrackedId(d, m.id)
    BY <1>3, <1>6 DEF SendFragments, TrackedId, Tracked, IsTracked
  <2>2. Waiting(d, m.id)
    <3>1. /\ sdkQueue[d] \in Seq(accepted[d]) /\ sdkQueue[d] # <<>> /\ m = Head(sdkQueue[d])
      BY <1>1, NextIsAccepted
    <3>2. m = sdkQueue[d][1] /\ 1 \in DOMAIN sdkQueue[d]
      BY <3>1, HeadTail
    <3> QED
      BY <3>2 DEF Waiting, Range
  <2>3. ~Confirmed(d, m.id) /\ ~Abandoned(d, m.id) /\ ~Pending(d, m.id)
    BY <1>3, <2>2 DEF OneStage, OneStageAt, OneStageFor
  <2>4. OutcomeOf(d, m.id) = "unsent"
    BY <2>3, OutcomeIs
  <2>5. Pending(d, m.id)'
    <3>1. TotalFragments(m.size) \in Nat \ {0}
      BY TotalFragmentsType DEF Message
    <3>2. Fragment(d, m, 0, nextPackageId[d] + 0) \in Fragments(d, m, TotalFragments(m.size))
      BY <3>1 DEF Fragments
    <3> QED
      BY <1>3, <1>6, <3>2, PendingSend DEF Pending
  <2>6. OutcomeOf(d, m.id)' = "inFlight"
    <3>1. TrackedId(d, m.id)' /\ ~Confirmed(d, m.id)' /\ ~Abandoned(d, m.id)'
      BY <1>1, <1>2, <1>3, <2>1, <2>3 DEF Confirmed, Abandoned
    <3> QED
      BY <2>5, <3>1 DEF OutcomeOf, Confirmed, Abandoned, Pending
  <2>7. Outcomes' = [Outcomes EXCEPT ![d][m.id] = "inFlight"]
    BY <1>3, <1>4, <2>6 DEF Outcomes
  <2>8. Outcomes[d][m.id] = "unsent"
    BY <1>3, <2>4 DEF Outcomes
  <2> QED
    BY <1>2, <2>7, <2>8 DEF Promise!Submit, Outcomes, Arrivals, HasArrived
<1> QED
  BY <1>5, <1>6

(* Lemma: a retransmission pass abandons messages that were in flight.       *)
LEMMA PromiseRetransmit ==
    ASSUME PromiseInv, [Next]_vars, NEW d \in Device, Retransmit(d)
    PROVE  \E given \in SUBSET MessageId : Promise!Abandon(d, given)
<1> USE DEF PromiseInv, OutcomeInv
<1>1. UNCHANGED <<accepted, heard, notified>>
  BY DEF Retransmit
<1>2. /\ UNCHANGED Arrivals
      /\ \A e \in Device, id \in MessageId : TrackedId(e, id)' <=> TrackedId(e, id)
  BY <1>1, ArrivedFrame
<1> DEFINE given == {id \in MessageId : TrackedId(d, id) /\ Pending(d, id) /\ Kept(d, id) = {}}
<1>3. abandoned \in [Device -> SUBSET MessageId]
  BY DEF TypeOK
<1>4. abandoned' = [abandoned EXCEPT ![d] = @ \cup
          {m \in MessageId : pendingMessages[d][m] # {} /\ Kept(d, m) = {}}]
  BY DEF Retransmit
<1>5. ASSUME NEW e \in Device, NEW id \in MessageId
      PROVE  /\ Confirmed(e, id)' <=> Confirmed(e, id)
             /\ Abandoned(e, id)' <=> \/ Abandoned(e, id)
                                      \/ e = d /\ Pending(e, id) /\ Kept(d, id) = {}
             /\ Pending(e, id)' <=> Pending(e, id) /\ ~(e = d /\ Kept(d, id) = {})
  <2>1. Confirmed(e, id)' <=> Confirmed(e, id)
    BY <1>1 DEF Confirmed
  <2>2. Abandoned(e, id)' <=> \/ Abandoned(e, id)
                              \/ e = d /\ Pending(e, id) /\ Kept(d, id) = {}
    BY <1>3, <1>4 DEF Abandoned, Pending
  <2>3. Pending(e, id)' <=> Pending(e, id) /\ ~(e = d /\ Kept(d, id) = {})
    BY PendingRetransmit DEF Pending, Kept
  <2> QED
    BY <2>1, <2>2, <2>3
<1>6. ASSUME NEW id \in given
      PROVE  OutcomeOf(d, id) = "inFlight" /\ OutcomeOf(d, id)' = "abandoned"
  <2>1. OneStageFor(d, id)
    BY DEF OneStage, OneStageAt
  <2>2. ~Confirmed(d, id) /\ ~Abandoned(d, id) /\ Pending(d, id) /\ TrackedId(d, id)
    BY <2>1 DEF OneStageFor
  <2>3. OutcomeOf(d, id) = "inFlight"
    BY <2>2, OutcomeIs
  <2>4. ~Confirmed(d, id)' /\ Abandoned(d, id)' /\ TrackedId(d, id)'
    BY <1>2, <1>5, <2>2
  <2> QED
    BY <2>3, <2>4 DEF OutcomeOf, Confirmed, Abandoned
<1>7. ASSUME NEW e \in Device, NEW id \in MessageId, ~(e = d /\ id \in given)
      PROVE  OutcomeOf(e, id)' = OutcomeOf(e, id)
  BY <1>2, <1>5, <1>7, OutcomeFrame
<1>8. Outcomes' = [Outcomes EXCEPT ![d] =
          [m \in MessageId |-> IF m \in given THEN "abandoned" ELSE @[m]]]
  <2> HIDE DEF given
  <2> QED
    BY <1>6, <1>7 DEF Outcomes
<1>9. \A id \in given : Outcomes[d][id] = "inFlight"
  BY <1>6 DEF Outcomes
<1>10. given \in SUBSET MessageId
  OBVIOUS
<1> HIDE DEF given
<1>11. Promise!Abandon(d, given)
  BY <1>2, <1>8, <1>9 DEF Promise!Abandon, Outcomes, Arrivals, HasArrived
<1> QED
  BY <1>10, <1>11

(* Lemma: the callbacks of a pass are none of a tracked message's business.  *)
LEMMA PromiseCallback ==
    ASSUME PromiseInv, [Next]_vars, NEW d \in Device, RunCallback(d)
    PROVE  UNCHANGED <<Outcomes, Arrivals>>
<1> USE DEF PromiseInv, OutcomeInv
<1>1. UNCHANGED <<accepted, heard, pendingMessages, abandoned>>
  BY DEF RunCallback
<1>2. /\ UNCHANGED Arrivals
      /\ \A e \in Device, id \in MessageId : TrackedId(e, id)' <=> TrackedId(e, id)
  BY <1>1, ArrivedFrame
<1> DEFINE called == Head(callbacks[d])
<1>3. called \in UntrackedIds(d)
  <2>1. callbacks[d] \in Seq(UntrackedIds(d)) /\ callbacks[d] # <<>>
    BY DEF RunCallback, MessagesKnown, MessagesKnownAt
  <2> QED
    BY <2>1, HeadTail
<1>4. notified \in [Device -> [MessageId -> Nat]]
  BY DEF TypeOK
<1>5. notified' = [notified EXCEPT ![d][called] = @ + 1]
  BY DEF RunCallback
<1> HIDE DEF called
<1>6. called \in MessageId /\ ~TrackedId(d, called)
  BY <1>3 DEF UntrackedIds, TrackedId, Tracked, MessagesKnown, MessagesKnownAt
<1>7. ASSUME NEW e \in Device, NEW id \in MessageId
      PROVE  OutcomeOf(e, id)' = OutcomeOf(e, id)
  <2>1. TrackedId(e, id) => notified'[e][id] = notified[e][id]
    BY <1>4, <1>5, <1>6
  <2>2. TrackedId(e, id) => /\ Confirmed(e, id)' <=> Confirmed(e, id)
                            /\ Abandoned(e, id)' <=> Abandoned(e, id)
                            /\ Pending(e, id)' <=> Pending(e, id)
    BY <1>1, <2>1 DEF Confirmed, Abandoned, Pending
  <2> QED
    BY <1>2, <2>2, OutcomeFrame
<1> QED
  BY <1>2, <1>7, OutcomesStay

(* Lemma: the acknowledgement of the last package confirms a message that    *)
(* arrived.                                                                  *)
LEMMA PromiseAck ==
    ASSUME PromiseInv, NotifiedMeansArrived', [Next]_vars,
           NEW d \in Device, NEW dg \in net, HandleAck(d, dg)
    PROVE  UNCHANGED <<Outcomes, Arrivals>> \/ \E m \in MessageId : Promise!Confirm(d, m)
<1> USE DEF PromiseInv, OutcomeInv
<1>1. UNCHANGED <<accepted, heard, abandoned>>
  BY DEF HandleAck
<1>2. /\ UNCHANGED Arrivals
      /\ \A e \in Device, id \in MessageId : TrackedId(e, id)' <=> TrackedId(e, id)
  BY <1>1, ArrivedFrame
<1> DEFINE ackId == dg.package.ackPackageId
<1>3. PICK msgId \in MessageId : msgId = packageToMessage[d][ackId]
  BY PendingAck
<1> DEFINE rest == Remaining(d, msgId, ackId)
<1>4. \A e \in Device, id \in MessageId : pendingMessages'[e][id] =
          IF e = d /\ id = msgId THEN Remaining(d, id, ackId) ELSE pendingMessages[e][id]
  BY <1>3, PendingAck
<1>5. /\ notified' = notified \/ notified' = [notified EXCEPT ![d][msgId] = @ + 1]
      /\ (pendingMessages[d][msgId] # {} /\ rest = {}) =>
              notified' = [notified EXCEPT ![d][msgId] = @ + 1]
      /\ ~(pendingMessages[d][msgId] # {} /\ rest = {}) => notified' = notified
  BY <1>3 DEF HandleAck
<1>6. notified \in [Device -> [MessageId -> Nat]]
  BY DEF TypeOK
<1>7. \A id \in MessageId : id = msgId => rest = Remaining(d, id, ackId)
  OBVIOUS
<1> HIDE DEF ackId, rest
<1>8. ASSUME NEW e \in Device, NEW id \in MessageId, ~(e = d /\ id = msgId)
      PROVE  OutcomeOf(e, id)' = OutcomeOf(e, id)
  <2>1. notified'[e][id] = notified[e][id]
    BY <1>3, <1>5, <1>6, <1>8
  <2>2. pendingMessages'[e][id] = pendingMessages[e][id]
    BY <1>4, <1>8
  <2>3. /\ Confirmed(e, id)' <=> Confirmed(e, id)
        /\ Abandoned(e, id)' <=> Abandoned(e, id)
        /\ Pending(e, id)' <=> Pending(e, id)
    BY <1>1, <2>1, <2>2 DEF Confirmed, Abandoned, Pending
  <2> QED
    BY <1>2, <2>3, OutcomeFrame
<1>9. Pending(d, msgId)' <=> rest # {}
  BY <1>3, <1>4, <1>7 DEF Pending
<1>10. rest # {} => Pending(d, msgId)
  BY DEF rest, Remaining, Pending
<1>11. CASE TrackedId(d, msgId) /\ Pending(d, msgId) /\ rest = {}
  <2>1. notified'[d][msgId] = notified[d][msgId] + 1
    BY <1>3, <1>5, <1>6, <1>11 DEF Pending
  <2>2. notified[d][msgId] \in Nat
    BY <1>3, <1>6
  <2>3. ~Confirmed(d, msgId) /\ ~Abandoned(d, msgId)
    BY <1>3, <1>11 DEF OneStage, OneStageAt, OneStageFor
  <2>4. OutcomeOf(d, msgId) = "inFlight"
    BY <1>11, <2>3, OutcomeIs
  <2>5. Confirmed(d, msgId)' /\ TrackedId(d, msgId)'
    BY <1>2, <1>3, <1>11, <2>1, <2>2 DEF Confirmed
  <2>6. OutcomeOf(d, msgId)' = "confirmed"
    BY <2>5 DEF OutcomeOf, Confirmed
  <2>7. HasArrived(d, msgId)'
    BY <2>5 DEF NotifiedMeansArrived, TrackedId, HasArrived, Confirmed
  <2>8. msgId \in Arrivals[d]
    <3>1. msgId \in Arrivals'[d]
      BY <1>3, <2>7 DEF Arrivals
    <3> QED
      BY <1>2, <3>1
  <2>9. Outcomes' = [Outcomes EXCEPT ![d][msgId] = "confirmed"] /\ Outcomes[d][msgId] = "inFlight"
    BY <1>3, <1>8, <2>4, <2>6 DEF Outcomes
  <2>10. Promise!Confirm(d, msgId)
    BY <1>2, <2>8, <2>9 DEF Promise!Confirm, Outcomes, Arrivals, HasArrived
  <2> QED
    BY <1>3, <2>10
<1>12. CASE ~(TrackedId(d, msgId) /\ Pending(d, msgId) /\ rest = {})
  <2>1. OutcomeOf(d, msgId)' = OutcomeOf(d, msgId)
    <3>1. TrackedId(d, msgId) => notified' = notified
      BY <1>5, <1>12 DEF Pending
    <3>2. TrackedId(d, msgId) => /\ Confirmed(d, msgId)' <=> Confirmed(d, msgId)
                                 /\ Abandoned(d, msgId)' <=> Abandoned(d, msgId)
                                 /\ Pending(d, msgId)' <=> Pending(d, msgId)
      <4> SUFFICES ASSUME TrackedId(d, msgId)
                   PROVE  /\ Confirmed(d, msgId)' <=> Confirmed(d, msgId)
                          /\ Abandoned(d, msgId)' <=> Abandoned(d, msgId)
                          /\ Pending(d, msgId)' <=> Pending(d, msgId)
        OBVIOUS
      <4> QED
        BY <1>1, <1>9, <1>10, <1>12, <3>1 DEF Confirmed, Abandoned
    <3> QED
      BY <1>2, <1>3, <3>2, OutcomeFrame
  <2> QED
    BY <1>2, <1>8, <2>1, OutcomesStay
<1> QED
  BY <1>11, <1>12

(* Lemma: the fragment that completes a message finds it sent.               *)
LEMMA PromiseReceive ==
    ASSUME PromiseInv, PackagesGenuine', [Next]_vars,
           NEW d \in Device, NEW dg \in net, ReceiveFragment(d, dg)
    PROVE  \/ UNCHANGED <<Outcomes, Arrivals>>
           \/ \E f \in Device, m \in MessageId : Promise!Arrive(f, m)
<1> USE DEF PromiseInv, OutcomeInv, ContentInv
<1>1. /\ UNCHANGED <<accepted, transmitted, pendingMessages, notified, abandoned>>
      /\ heard' = [heard EXCEPT ![d] = @ \cup {dg.package}]
  BY DEF ReceiveFragment
<1>2. \A f \in Device, id \in MessageId : TrackedId(f, id)' <=> TrackedId(f, id)
  BY <1>1 DEF TrackedId, Tracked
<1>3. UNCHANGED Outcomes
  <2>1. \A f \in Device, id \in MessageId : OutcomeOf(f, id)' = OutcomeOf(f, id)
    BY <1>1, <1>2, OutcomeFrame DEF Confirmed, Abandoned, Pending
  <2> QED
    BY <2>1, OutcomesStay
<1> DEFINE pkg == dg.package
           src == pkg.payload
           id  == pkg.messageId
<1>4. pkg \in DataPackage /\ src \in Device /\ id \in MessageId
  BY DEF ReceiveFragment, TypeOK, Datagram, DataPackage, AckPackage
<1>5. \A e \in Device : heard'[e] = IF e = d THEN heard[e] \cup {pkg} ELSE heard[e]
  BY <1>1 DEF TypeOK
<1> HIDE DEF pkg
<1>6. ASSUME NEW f \in Device, NEW m, NEW i, NEW e \in Device
      PROVE  /\ FragmentHeard(f, m, i, e) => FragmentHeard(f, m, i, e)'
             /\ ~(f = src /\ m.id = id) => (FragmentHeard(f, m, i, e)' <=> FragmentHeard(f, m, i, e))
  BY <1>5 DEF FragmentHeard
<1>7. \A f \in Device : Tracked(f)' = Tracked(f)
  BY <1>1 DEF Tracked
<1>8. \A f \in Device : Listeners[f] \subseteq Device
  OBVIOUS
<1>9. ASSUME NEW f \in Device, NEW m
      PROVE  /\ Arrived(f, m) => Arrived(f, m)'
             /\ ~(f = src /\ m.id = id) => (Arrived(f, m)' <=> Arrived(f, m))
  <2>1. Arrived(f, m)' <=> \E e \in Listeners[f] : \A i \in 0..(TotalFragments(m.size) - 1) :
                              FragmentHeard(f, m, i, e)'
    BY DEF Arrived
  <2> QED
    BY <1>6, <1>8, <2>1 DEF Arrived
<1>10. ASSUME NEW f \in Device, NEW n \in MessageId
       PROVE  /\ HasArrived(f, n) => HasArrived(f, n)'
              /\ ~(f = src /\ n = id) => (HasArrived(f, n)' <=> HasArrived(f, n))
  BY <1>7, <1>9 DEF HasArrived
<1>11. CASE ~HasArrived(src, id)'
  <2>1. \A f \in Device, n \in MessageId : HasArrived(f, n)' <=> HasArrived(f, n)
    BY <1>4, <1>10, <1>11
  <2>2. UNCHANGED Arrivals
    BY <2>1 DEF Arrivals
  <2> QED
    BY <1>3, <2>2
<1>12. CASE HasArrived(src, id)'
  <2>1. PICK m \in Tracked(src) : m.id = id /\ Arrived(src, m)'
    BY <1>4, <1>7, <1>12 DEF HasArrived
  <2>2. m \in Message
    BY <1>4, <2>1 DEF Tracked, TypeOK
  <2>3. TotalFragments(m.size) \in Nat \ {0}
    BY <2>2, TotalFragmentsType DEF Message
  <2>4. PICK e \in Listeners[src] : FragmentHeard(src, m, TotalFragments(m.size) - 1, e)'
    <3>1. TotalFragments(m.size) - 1 \in 0..(TotalFragments(m.size) - 1)
      BY <2>3
    <3> QED
      BY <2>1, <3>1 DEF Arrived
  <2>5. LastFragmentSent(src, m)
    <3>1. PICK p \in heard'[e] : /\ p.payload = src /\ p.messageId = m.id
                                 /\ p.fragmentId = TotalFragments(m.size) - 1
      BY <2>4 DEF FragmentHeard
    <3>2. e \in Device
      BY <1>4, <1>8
    <3>3. p \in transmitted'[src]
      BY <3>1, <3>2 DEF PackagesGenuine
    <3> QED
      BY <1>1, <3>1, <3>3 DEF LastFragmentSent
  <2>6. OutStage(src, id)
    BY <1>4, <2>1, <2>5 DEF SentIsTracked, OutStage
  <2>7. OutcomeOf(src, id) # "unsent"
    BY <2>1, <2>6, OutcomeIs DEF OutStage, TrackedId
  <2>8. Outcomes[src][id] # "unsent"
    BY <1>4, <2>7 DEF Outcomes
  <2>9. Arrivals' = [Arrivals EXCEPT ![src] = @ \cup {id}]
    <3>1. \A f \in Device : Arrivals'[f] = {n \in MessageId : HasArrived(f, n)'}
      BY DEF Arrivals
    <3>2. \A f \in Device : Arrivals[f] = {n \in MessageId : HasArrived(f, n)}
      BY DEF Arrivals
    <3>3. \A f \in Device :
              Arrivals'[f] = IF f = src THEN Arrivals[f] \cup {id} ELSE Arrivals[f]
      <4> SUFFICES ASSUME NEW f \in Device
                   PROVE  Arrivals'[f] = IF f = src THEN Arrivals[f] \cup {id} ELSE Arrivals[f]
        OBVIOUS
      <4>1. CASE f = src
        <5>1. ASSUME NEW n \in MessageId
              PROVE  HasArrived(f, n)' <=> HasArrived(f, n) \/ n = id
          BY <1>10, <1>12, <4>1
        <5> QED
          BY <1>4, <3>1, <3>2, <4>1, <5>1
      <4>2. CASE f # src
        <5>1. ASSUME NEW n \in MessageId
              PROVE  HasArrived(f, n)' <=> HasArrived(f, n)
          BY <1>10, <4>2
        <5> QED
          BY <3>1, <3>2, <4>2, <5>1
      <4> QED
        BY <4>1, <4>2
    <3>4. /\ Arrivals' = [f \in Device |-> Arrivals'[f]]
          /\ Arrivals = [f \in Device |-> Arrivals[f]]
      BY DEF Arrivals
    <3> QED
      BY <1>4, <3>3, <3>4
  <2>10. Promise!Arrive(src, id)
    BY <1>3, <2>8, <2>9 DEF Promise!Arrive, Outcomes, Arrivals, HasArrived
  <2> QED
    BY <1>4, <2>10
<1> QED
  BY <1>11, <1>12

(* Lemma: each step of the session manager is a step of reliable delivery or *)
(* none.                                                                     *)
LEMMA PromiseStep ==
    ASSUME PromiseInv, PromiseInv', [Next]_vars
    PROVE  [Promise!Next]_(Promise!vars)
<1>1. /\ NotifiedMeansArrived' /\ PackagesGenuine'
      /\ TypeOK /\ MessagesKnown /\ OneStage
  BY DEF PromiseInv, SessionInv, OutcomeInv
<1>2. CASE UNCHANGED <<Outcomes, Arrivals>>
  BY <1>2 DEF Promise!vars, Outcomes, Arrivals, HasArrived
<1>3. CASE /\ UNCHANGED <<accepted, heard, notified, abandoned>>
           /\ \A e \in Device, id \in MessageId : Pending(e, id)' <=> Pending(e, id)
  <2>1. /\ UNCHANGED Arrivals
        /\ \A e \in Device, id \in MessageId : TrackedId(e, id)' <=> TrackedId(e, id)
    BY <1>3, ArrivedFrame
  <2>2. \A e \in Device, id \in MessageId : OutcomeOf(e, id)' = OutcomeOf(e, id)
    BY <1>3, <2>1, OutcomeFrame DEF Confirmed, Abandoned
  <2> QED
    BY <1>2, <2>1, <2>2, OutcomesStay
<1>4. ASSUME NEW d \in Device, Worker(d) PROVE [Promise!Next]_(Promise!vars)
  <2>1. ASSUME NEW elapsed \in 1..MaxInterval, BeginPass(d, elapsed)
        PROVE  [Promise!Next]_(Promise!vars)
    <3>1. UNCHANGED <<accepted, heard, notified, abandoned>>
      BY <2>1 DEF BeginPass, history
    <3>2. \A e \in Device, id \in MessageId : Pending(e, id)' <=> Pending(e, id)
      BY <1>1, <2>1, PendingBeginPass DEF Pending
    <3> QED
      BY <1>3, <3>1, <3>2
  <2>2. ASSUME NEW m \in Message, SendFragments(d, m)
        PROVE  [Promise!Next]_(Promise!vars)
    <3>1. m.id \in MessageId
      BY DEF Message
    <3> QED
      BY <1>2, <2>2, <3>1, PromiseSubmit DEF Promise!Next
  <2>3. ASSUME NEW m \in Message, DropOversized(d, m) \/ ExhaustPackageIds(d, m)
        PROVE  [Promise!Next]_(Promise!vars)
    BY <1>3, <2>3 DEF DropOversized, ExhaustPackageIds, history, Pending
  <2>4. CASE Retransmit(d)
    BY <2>4, PromiseRetransmit DEF Promise!Next
  <2>5. CASE RunCallback(d)
    BY <1>2, <2>5, PromiseCallback
  <2> QED
    BY <1>4, <2>1, <2>2, <2>3, <2>4, <2>5 DEF Worker, ProcessMessage
<1>5. ASSUME NEW d \in Device, Application(d) PROVE [Promise!Next]_(Promise!vars)
  <2>1. ASSUME NEW size \in Sizes, NEW requireAck \in BOOLEAN, Send(d, size, requireAck)
        PROVE  [Promise!Next]_(Promise!vars)
    BY <1>2, <2>1, PromiseSend
  <2>2. ASSUME NEW attempts \in 1..MaxAttempts, NEW interval \in 1..MaxInterval,
               SetRetransmissionConfig(d, attempts, interval)
        PROVE  [Promise!Next]_(Promise!vars)
    BY <1>3, <2>2 DEF SetRetransmissionConfig, history, Pending
  <2> QED
    BY <1>5, <2>1, <2>2 DEF Application
<1>6. CASE Network
  <2>1. PICK dg \in net, d \in Device :
            ReceiveFragment(d, dg) \/ HandleAck(d, dg) \/ IgnoreAck(d, dg)
    BY <1>6 DEF Network
  <2>2. CASE ReceiveFragment(d, dg)
    BY <1>1, <1>2, <2>2, PromiseReceive DEF Promise!Next
  <2>3. CASE HandleAck(d, dg)
    BY <1>1, <1>2, <2>3, PromiseAck DEF Promise!Next
  <2>4. CASE IgnoreAck(d, dg)
    BY <1>3, <2>4 DEF IgnoreAck, history, Pending
  <2> QED
    BY <2>1, <2>2, <2>3, <2>4
<1>7. CASE UNCHANGED vars
  BY <1>3, <1>7 DEF vars, history, Pending
<1> QED
  BY <1>4, <1>5, <1>6, <1>7 DEF Next

LEMMA PromiseInit == Init => Promise!Init
<1> SUFFICES ASSUME Init PROVE Promise!Init
  OBVIOUS
<1>1. \A d \in Device : Tracked(d) = {}
  BY DEF Init, Tracked
<1>2. \A d \in Device, id \in MessageId : OutcomeOf(d, id) = "unsent" /\ ~HasArrived(d, id)
  BY <1>1 DEF OutcomeOf, TrackedId, HasArrived
<1> QED
  BY <1>2 DEF Promise!Init, HasArrived

(* Theorem: between devices that talk to one other only, everything that the *)
(* refinement rests on holds in every state.                                 *)
THEOREM PromiseSafe ==
    ASSUME PointToPoint
    PROVE  Spec => []PromiseInv
<1>1. OneSource
  <2> SUFFICES ASSUME NEW d1 \in Device, NEW d2 \in Device,
                      NEW e \in Listeners[d1] \cap Listeners[d2]
               PROVE  d1 = d2
    BY DEF OneSource
  <2>1. Listeners[e] = {d1} /\ Listeners[e] = {d2}
    BY TwoOnly
  <2> QED
    BY <2>1
<1>2. Spec => []SessionInv /\ []OutcomeInv /\ []ContentInv
  BY <1>1, SessionSafe, OutcomeSafe, ContentSafe
<1>3. Init => SentIsTracked
  BY DEF Init, SentIsTracked, Tracked
<1>4. ContentInv /\ SentIsTracked /\ [Next]_vars => SentIsTracked'
  BY SentStep DEF ContentInv
<1>5. SessionInv /\ OutcomeInv /\ ContentInv /\ SentIsTracked => PromiseInv
  BY DEF PromiseInv
<1> QED
  BY <1>2, <1>3, <1>4, <1>5, PTL DEF Spec

(* Theorem: the session manager implements ReliableDelivery, step by step:   *)
(* a message that wants an acknowledgement is taken over, arrives, and is    *)
(* confirmed or given up once and for all, and it is never confirmed before  *)
(* it has arrived.                                                           *)
THEOREM KeepsPromiseAlways ==
    ASSUME PointToPoint
    PROVE  Spec => KeepsPromise
<1>1. PromiseInv /\ PromiseInv' /\ [Next]_vars => [Promise!Next]_(Promise!vars)
  BY PromiseStep
<1>2. Init => Promise!Init
  BY PromiseInit
<1>3. Spec => []PromiseInv
  BY PromiseSafe
<1> QED
  BY <1>1, <1>2, <1>3, PTL DEF Spec, KeepsPromise, Promise!Spec

=============================================================================
