-------------------------- MODULE SessionInvariant --------------------------
(***************************************************************************)
(* The inductive invariants behind the safety of SessionManager: why an    *)
(* acknowledgement may be believed and the last one of a message speaks    *)
(* for all its packages, why a message has one outcome, and why what is    *)
(* put together is one message.                                            *)
(***************************************************************************)
EXTENDS SessionManager, Functions

(* The ids of accepted messages are fresh and unique, and everything the     *)
(* session manager holds or reports belongs to an accepted message.  A       *)
(* callback of a pass is never that of a tracked message.                    *)
KnownId(d, id)  == \E m \in accepted[d] : m.id = id
UntrackedIds(d) == {id \in MessageId : \E m \in accepted[d] : ~IsTracked(m) /\ m.id = id}

MessagesKnownAt(d) ==
    /\ \A m \in accepted[d] : m.id < nextMessageId[d]
    /\ \A m, n \in accepted[d] : m.id = n.id => m = n
    /\ sdkQueue[d] \in Seq(accepted[d])
    /\ callbacks[d] \in Seq(UntrackedIds(d))
    /\ \A id \in MessageId : pendingMessages[d][id] # {} => KnownId(d, id)
    /\ \A id \in MessageId : notified[d][id] > 0 => KnownId(d, id)

MessagesKnown == \A d \in Device : MessagesKnownAt(d)

(* A package id names one package of its device for ever. *)
PackagesUnique ==
    \A d \in Device :
        /\ \A p \in transmitted[d] : p.payload = d /\ p.packageId < nextPackageId[d]
        /\ \A p, q \in transmitted[d] : p.packageId = q.packageId => p = q

(* What is pending, under way or was heard was put on the wire by the device *)
(* it comes from, and goes to who listens to that device.                    *)
PackagesGenuine ==
    /\ \A d \in Device, id \in MessageId : \A info \in pendingMessages[d][id] :
          info.package \in transmitted[d] /\ info.package.messageId = id
    /\ \A dg \in net : dg.to \in Listeners[dg.from]
    /\ \A dg \in net : dg.package.format = "DATA" => dg.package \in transmitted[dg.from]
    /\ \A e \in Device : \A p \in heard[e] :
          p \in transmitted[p.payload] /\ e \in Listeners[p.payload]

(* An acknowledgement under way to d is for a package of d that its sender   *)
(* has heard.                                                                *)
AcksGenuine ==
    \A dg \in net : dg.package.format = "CONFIRMATION" =>
        \E p \in heard[dg.from] :
            p.packageId = dg.package.ackPackageId /\ p.payload = dg.to

(* While a message is pending, every fragment is pending or has arrived:     *)
(* nothing of it has been given up.                                          *)
FragmentPending(d, m, i) ==
    \E info \in pendingMessages[d][m.id] : info.package.fragmentId = i

NothingGivenUp ==
    \A d \in Device : \A m \in Tracked(d) :
        pendingMessages[d][m.id] # {} =>
            \A e \in Listeners[d] : \A i \in 0..(TotalFragments(m.size) - 1) :
                FragmentPending(d, m, i) \/ FragmentHeard(d, m, i, e)

SessionInv ==
    /\ TypeOK
    /\ MessagesKnown
    /\ PackagesUnique
    /\ PackagesGenuine
    /\ AcksGenuine
    /\ Lockstep
    /\ NothingGivenUp
    /\ NotifiedMeansArrived

-----------------------------------------------------------------------------
(* The way of a message through the session manager: it waits in sdkQueue_,  *)
(* is pending or about to be reported, and then confirmed or abandoned.      *)
Waiting(d, id)   == \E m \in Range(sdkQueue[d]) : m.id = id
Reporting(d, id) == id \in Range(callbacks[d])
Pending(d, id)   == pendingMessages[d][id] # {}
Confirmed(d, id) == notified[d][id] > 0
Abandoned(d, id) == id \in abandoned[d]

(* It is never at two stages at once, and nowhere twice. *)
OneStageFor(d, id) ==
    /\ Waiting(d, id) => ~(Reporting(d, id) \/ Pending(d, id) \/ Confirmed(d, id) \/ Abandoned(d, id))
    /\ Reporting(d, id) => ~(Pending(d, id) \/ Confirmed(d, id) \/ Abandoned(d, id))
    /\ Pending(d, id)   => ~(Confirmed(d, id) \/ Abandoned(d, id))
    /\ Confirmed(d, id) => ~Abandoned(d, id)
    /\ Abandoned(d, id) => KnownId(d, id)
    /\ notified[d][id] <= 1

OneStageAt(d) ==
    /\ IsInjective(sdkQueue[d])
    /\ IsInjective(callbacks[d])
    /\ \A id \in MessageId : OneStageFor(d, id)

OneStage == \A d \in Device : OneStageAt(d)

(* packageToMessage_ knows only packages that were numbered. *)
IndexFresh ==
    \A d \in Device, p \in PackageId :
        packageToMessage[d][p] # 0 => p < nextPackageId[d]

OutcomeInv ==
    /\ TypeOK
    /\ MessagesKnown
    /\ Lockstep
    /\ OneStage
    /\ IndexFresh
    /\ IndexMatchesPending

-----------------------------------------------------------------------------
(* A package says truly of which accepted message it is which fragment. *)
CutFrom(d, m, p) ==
    /\ p.messageId = m.id
    /\ p.fragmentsCount = TotalFragments(m.size)
    /\ p.fragmentId < p.fragmentsCount

CutFromAccepted ==
    \A d \in Device : \A p \in transmitted[d] : \E m \in accepted[d] : CutFrom(d, m, p)

(* receivedPackages_ holds packages that were heard, each under its message. *)
HeardOf(e, id) == {p \in heard[e] : p.messageId = id}

FiledAsHeard ==
    \A e \in Device, id \in MessageId : receivedPackages[e][id] \in Seq(HeardOf(e, id))

(* Nobody hears two devices: their messages have the same ids, and           *)
(* receivedPackages_ would mix them.                                         *)
OneSource ==
    \A d1, d2 \in Device : Listeners[d1] \cap Listeners[d2] # {} => d1 = d2

ContentInv ==
    /\ TypeOK
    /\ MessagesKnown
    /\ PackagesUnique
    /\ PackagesGenuine
    /\ CutFromAccepted
    /\ FiledAsHeard
    /\ DeliveredIntact

-----------------------------------------------------------------------------
(* The last fragment of a tracked message goes out only when all of them do, *)
(* and then the message is pending until it has an outcome.  The fragments   *)
(* before the last may go out without: package ids can run out half way.     *)
LastFragmentSent(d, m) ==
    \E p \in transmitted[d] :
        p.messageId = m.id /\ p.fragmentId = TotalFragments(m.size) - 1

SentIsTracked ==
    \A d \in Device : \A m \in Tracked(d) :
        LastFragmentSent(d, m) =>
            Pending(d, m.id) \/ Confirmed(d, m.id) \/ Abandoned(d, m.id)

PromiseInv ==
    /\ SessionInv
    /\ OutcomeInv
    /\ ContentInv
    /\ SentIsTracked

=============================================================================
