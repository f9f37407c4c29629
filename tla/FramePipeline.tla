--------------------------- MODULE FramePipeline ---------------------------
(***************************************************************************)
(* From the session manager's outgoing packages to the receivePackage of   *)
(* the other devices: the transport layer, the coding module and the       *)
(* in-memory physical layer of every device, and the medium they share.    *)
(*                                                                         *)
(* Every layer has a worker thread and a queue the next one polls.  The    *)
(* worker of the physical layer makes passes: it puts the frames that are  *)
(* ready on the medium, takes the frames of the others from it, and hands  *)
(* them up one by one, on its own thread, as far as the application.  An   *)
(* exception ends it for good.  Devices come and go: an SDK is constructed *)
(* on the medium, destroyed, and constructed again under the same id.      *)
(***************************************************************************)
EXTENDS Integers, Sequences, FiniteSets

CONSTANTS
    Device,           \* the devices
    BitWidth,         \* the field widths of the ValidationConfig
    MaxPayloadBytes,  \* maxPayloadLengthBytes, which is also maxPacketSize_
    PayloadSizes,     \* payload sizes of the packages
    LifeLimit,        \* bound: d is constructed LifeLimit[d] times
    PackageLimit,     \* bound: packages of d in one life
    MaxFailures       \* bound: exceptions of the handlers above

ASSUME PipelineAssumption ==
    /\ IsFiniteSet(Device)
    /\ BitWidth \in [{"packageId", "messageId", "connId", "fragmentId",
                      "fragmentsCount", "priority"} -> 1..32]
    /\ MaxPayloadBytes \in Nat
    /\ PayloadSizes \subseteq 0..MaxPayloadBytes
    /\ LifeLimit \in [Device -> Nat]
    /\ PackageLimit \in [Device -> Nat]
    /\ MaxFailures \in Nat

(* A package; `life' and `number' say which one, in which life of its device. *)
Package == [from : Device, life : Nat, number : Nat, payload : PayloadSizes]

-----------------------------------------------------------------------------
(* Frame layout: the header of the transport layer, the payload, the CRC.   *)

BitsToBytes(bits) == (bits + 7) \div 8

FormatBytes == 1
RequireAckBytes == 1
PayloadLengthBytes == 2
CrcBytes == 4

HeaderBytes ==
    BitsToBytes(BitWidth["packageId"]) + BitsToBytes(BitWidth["messageId"])
    + BitsToBytes(BitWidth["connId"]) + BitsToBytes(BitWidth["fragmentId"])
    + BitsToBytes(BitWidth["fragmentsCount"]) + BitsToBytes(BitWidth["priority"])
    + FormatBytes + RequireAckBytes + PayloadLengthBytes

LimitWithoutHeader == MaxPayloadBytes \* mutant
MaxFrameBytesWithoutCrc == HeaderBytes + MaxPayloadBytes
MaxFrameBytesWithCrc == MaxFrameBytesWithoutCrc + CrcBytes

Serialized(package) == [package |-> package, bytes |-> HeaderBytes + package.payload]
WithCrc(frame)      == [frame EXCEPT !.bytes = @ + CrcBytes]
WithoutCrc(frame)   == [frame EXCEPT !.bytes = @ - CrcBytes]

(* ensureFrameEncodable of the coding module and, in the same words,         *)
(* ensureEncodableFrame of the physical layer.                               *)
EnsureEncodable(frame) == frame.bytes \in HeaderBytes..MaxFrameBytesWithoutCrc
EnsureDecodable(frame) ==
    /\ frame.bytes \in CrcBytes..MaxFrameBytesWithCrc
    /\ EnsureEncodable(WithoutCrc(frame))

(* deserialize reads as many payload bytes as the header announces. *)
EnsureNotTruncated(frame) == frame.package.payload <= frame.bytes - HeaderBytes

(* What receiveFrameWithCrc and receiveFrame let through. *)
Receivable(frame) == EnsureDecodable(frame) /\ EnsureNotTruncated(WithoutCrc(frame))

Frame == [package : Package, bytes : 0..MaxFrameBytesWithCrc]

-----------------------------------------------------------------------------
VARIABLES
    outgoingPackages, \* outgoingPackages_ of the session manager
    outgoingFrames,   \* outgoingFrames_ of the transport layer
    framesWithCrc,    \* outgoingFrames_ of the coding module
    codingWorker,     \* the coding module's worker
    physicalWorker,   \* the physical layer's worker, by phase of its pass
    framesToDeliver,  \* frames it took from the medium in this pass
    participants,     \* participants of the medium
    entries,          \* entries of the medium
    (* What happened, for the properties; of the current life of a device: *)
    life,             \* how often the device was constructed
    pushed,           \* packages pushed by its session manager
    received,         \* packages its session manager was handed
    firstDue,         \* firstDue[d][s]: first package of s that d must get
    handlerFailed     \* in this life a handler has thrown

queues  == <<outgoingPackages, outgoingFrames, framesWithCrc>>
medium  == <<participants, entries>>
history == <<life, pushed, received, firstDue, handlerFailed>>
vars == <<queues, codingWorker, physicalWorker, framesToDeliver, medium, history>>

Entry == [senderId : Device, frame : Frame, deliveredTo : SUBSET Device]

Present(d) == d \in participants
Others(d)  == Device \ {d}

(* The elements of a sequence at the given indices, in their order. *)
At(seq, indices) ==
    [n \in 1..Cardinality(indices) |->
        seq[CHOOSE k \in indices : Cardinality({j \in indices : j <= k}) = n]]

(* The entries a sender has on the medium, and those a device has not taken. *)
EntriesOf(s) == At(entries, {k \in DOMAIN entries : entries[k].senderId = s})
NewFor(d, entry) == entry.senderId # d /\ d \notin entry.deliveredTo

Init ==
    /\ outgoingPackages = [d \in Device |-> <<>>]
    /\ outgoingFrames   = [d \in Device |-> <<>>]
    /\ framesWithCrc    = [d \in Device |-> <<>>]
    /\ codingWorker     = [d \in Device |-> "absent"]
    /\ physicalWorker   = [d \in Device |-> "absent"]
    /\ framesToDeliver  = [d \in Device |-> <<>>]
    /\ participants     = {}
    /\ entries          = <<>>
    /\ life             = [d \in Device |-> 0]
    /\ pushed           = [d \in Device |-> 0]
    /\ received         = [d \in Device |-> <<>>]
    /\ firstDue         = [d \in Device |-> [s \in Device |-> 1]]
    /\ handlerFailed    = [d \in Device |-> FALSE]

(* Packages of s that have not yet been put on the medium. *)
Queued(s) == Len(outgoingPackages[s]) + Len(outgoingFrames[s]) + Len(framesWithCrc[s])

NotStarted == "absent" \* mutant: the worker of the physical layer is not started
Started == "idle"

(* The constructors: a participant under an id that is free, its workers    *)
(* started.  It will find what is still on the medium.                      *)
Join(d) ==
    /\ ~Present(d)
    /\ life[d] < LifeLimit[d]
    /\ life' = [life EXCEPT ![d] = @ + 1]
    /\ participants' = participants \cup {d}
    /\ codingWorker' = [codingWorker EXCEPT ![d] = "running"]
    /\ physicalWorker' = [physicalWorker EXCEPT ![d] = Started]
    /\ pushed' = [pushed EXCEPT ![d] = 0]
    /\ received' = [received EXCEPT ![d] = <<>>]
    /\ handlerFailed' = [handlerFailed EXCEPT ![d] = FALSE]
    /\ firstDue' = [e \in Device |->
           IF e = d THEN [s \in Device |-> pushed[s] - Queued(s) - Len(EntriesOf(s)) + 1]
                    ELSE [firstDue[e] EXCEPT ![d] = 1]]
    /\ UNCHANGED <<queues, framesToDeliver, entries>>

ForgetSent(d, kept) == kept \* mutant: deliveredTo keeps the id of who has left
Forget(d, kept) == [k \in DOMAIN kept |-> [kept[k] EXCEPT !.deliveredTo = @ \ {d}]]

(* The destructors: the worker ends its pass, what is queued is lost, and    *)
(* the medium forgets the participant and its entries.                       *)
Leave(d) ==
    /\ Present(d)
    /\ physicalWorker[d] \in {"idle", "stopped"}
    /\ participants' = participants \ {d}
    /\ entries' = Forget(d, At(entries, {k \in DOMAIN entries : entries[k].senderId # d}))
    /\ outgoingPackages' = [outgoingPackages EXCEPT ![d] = <<>>]
    /\ outgoingFrames'   = [outgoingFrames EXCEPT ![d] = <<>>]
    /\ framesWithCrc'    = [framesWithCrc EXCEPT ![d] = <<>>]
    /\ codingWorker'     = [codingWorker EXCEPT ![d] = "absent"]
    /\ physicalWorker'   = [physicalWorker EXCEPT ![d] = "absent"]
    /\ pushed'           = [pushed EXCEPT ![d] = 0]
    /\ UNCHANGED <<framesToDeliver, life, received, firstDue, handlerFailed>>

-----------------------------------------------------------------------------
(* Outgoing *)

(* sendPackageLocked of the session manager. *)
Push(d, size) ==
    /\ Present(d)
    /\ pushed[d] < PackageLimit[d]
    /\ pushed' = [pushed EXCEPT ![d] = @ + 1]
    /\ outgoingPackages' = [outgoingPackages EXCEPT ![d] = Append(@,
           [from |-> d, life |-> life[d], number |-> pushed[d] + 1, payload |-> size])]
    /\ UNCHANGED <<outgoingFrames, framesWithCrc, codingWorker, physicalWorker,
                   framesToDeliver, medium, life, received, firstDue, handlerFailed>>

(* The transport layer's worker.  What the session manager pushes passes    *)
(* validateSerializedPackage: it was validated, and cut to maxPacketSize_.  *)
Serialize(d) ==
    /\ outgoingPackages[d] # <<>>
    /\ outgoingPackages' = [outgoingPackages EXCEPT ![d] = Tail(@)]
    /\ outgoingFrames' = [outgoingFrames EXCEPT ![d] =
           Append(@, Serialized(Head(outgoingPackages[d])))]
    /\ UNCHANGED <<framesWithCrc, codingWorker, physicalWorker, framesToDeliver,
                   medium, history>>

(* The coding module's worker, which an invalid frame would end. *)
Encode(d) ==
    LET frame == Head(outgoingFrames[d])
        valid == EnsureEncodable(frame) /\ WithCrc(frame).bytes <= MaxFrameBytesWithCrc
    IN  /\ codingWorker[d] = "running"
        /\ outgoingFrames[d] # <<>>
        /\ outgoingFrames' = [outgoingFrames EXCEPT ![d] = Tail(@)]
        /\ framesWithCrc' = IF valid
                            THEN [framesWithCrc EXCEPT ![d] = Append(@, WithCrc(frame))]
                            ELSE framesWithCrc
        /\ codingWorker' = IF valid THEN codingWorker
                           ELSE [codingWorker EXCEPT ![d] = "stopped"]
        /\ UNCHANGED <<outgoingPackages, physicalWorker, framesToDeliver, medium, history>>

-----------------------------------------------------------------------------
(* The worker of the physical layer *)

BeginPass(d) ==
    /\ physicalWorker[d] = "idle"
    /\ physicalWorker' = [physicalWorker EXCEPT ![d] = "sending"]
    /\ UNCHANGED <<queues, codingWorker, framesToDeliver, medium, history>>

(* processOutgoingFrames: an exception ends the worker, the frame is lost. *)
PutOnMedium(d) ==
    LET frame == Head(framesWithCrc[d])
    IN  /\ physicalWorker[d] = "sending"
        /\ framesWithCrc[d] # <<>>
        /\ framesWithCrc' = [framesWithCrc EXCEPT ![d] = Tail(@)]
        /\ entries' = IF EnsureEncodable(frame)
                      THEN Append(entries, [senderId |-> d, frame |-> frame, deliveredTo |-> {}])
                      ELSE entries
        /\ physicalWorker' = IF EnsureEncodable(frame) THEN physicalWorker
                             ELSE [physicalWorker EXCEPT ![d] = "stopped"]
        /\ UNCHANGED <<outgoingPackages, outgoingFrames, codingWorker, framesToDeliver,
                       participants, history>>

OneFewerNeeded(d, entry) == \* mutant: the entry goes when one receiver is missing
    entry.senderId # d /\ Cardinality(entry.deliveredTo \cup {d}) >= Cardinality(participants) - 2
TakenByAll(d, entry) ==
    entry.senderId # d /\ Cardinality(entry.deliveredTo \cup {d}) >= Cardinality(participants) - 1

(* processIncomingFrames: all at once under the mutex of the medium.  The   *)
(* last to take an entry erases it.                                         *)
TakeFromMedium(d) ==
    LET taken == At(entries, {k \in DOMAIN entries : NewFor(d, entries[k])})
        kept  == At(entries, {k \in DOMAIN entries : ~TakenByAll(d, entries[k])})
    IN  /\ physicalWorker[d] = "sending"
        /\ framesWithCrc[d] = <<>>
        /\ framesToDeliver' = [framesToDeliver EXCEPT ![d] =
               [k \in DOMAIN taken |-> taken[k].frame]]
        /\ entries' = [k \in DOMAIN kept |->
               IF NewFor(d, kept[k]) THEN [kept[k] EXCEPT !.deliveredTo = @ \cup {d}] ELSE kept[k]]
        /\ physicalWorker' = [physicalWorker EXCEPT ![d] =
               IF taken = <<>> THEN "idle" ELSE "delivering"]
        /\ UNCHANGED <<queues, codingWorker, participants, history>>

(* ensureDecodableFrame, receiveFrameWithCrc, receiveFrame, receivePackage.  *)
(* The worker sleeps after the last frame.                                   *)
Deliver(d) ==
    LET frame == Head(framesToDeliver[d])
    IN  /\ physicalWorker[d] = "delivering"
        /\ Receivable(frame)
        /\ received' = [received EXCEPT ![d] = Append(@, frame.package)]
        /\ framesToDeliver' = [framesToDeliver EXCEPT ![d] = Tail(@)]
        /\ physicalWorker' = [physicalWorker EXCEPT ![d] =
               IF Len(framesToDeliver[d]) = 1 THEN "idle" ELSE "delivering"]
        /\ UNCHANGED <<queues, codingWorker, medium, life, pushed, firstDue, handlerFailed>>

(* A handler above throws, or the frame is invalid: the worker ends, and the *)
(* frames of this pass that are left are lost.                               *)
Failures == Cardinality({d \in Device : handlerFailed[d]})

DeliverFails(d) ==
    LET frame == Head(framesToDeliver[d])
    IN  /\ physicalWorker[d] = "delivering"
        /\ Receivable(frame) => Failures < MaxFailures
        /\ handlerFailed' = [handlerFailed EXCEPT ![d] = Receivable(frame)]
        /\ received' = IF Receivable(frame)
                       THEN [received EXCEPT ![d] = Append(@, frame.package)] ELSE received
        /\ framesToDeliver' = [framesToDeliver EXCEPT ![d] = <<>>]
        /\ physicalWorker' = [physicalWorker EXCEPT ![d] = "stopped"]
        /\ UNCHANGED <<queues, codingWorker, medium, life, pushed, firstDue>>

-----------------------------------------------------------------------------
PhysicalLayer(d) ==
    BeginPass(d) \/ PutOnMedium(d) \/ TakeFromMedium(d) \/ Deliver(d) \/ DeliverFails(d)

Next ==
    \E d \in Device :
        \/ Join(d) \/ Leave(d)
        \/ \E size \in PayloadSizes : Push(d, size)
        \/ Serialize(d) \/ Encode(d)
        \/ PhysicalLayer(d)

Spec == Init /\ [][Next]_vars

(* The three workers of every device are scheduled. *)
FairSpec ==
    Spec /\ \A d \in Device :
        WF_vars(Serialize(d)) /\ WF_vars(Encode(d)) /\ WF_vars(PhysicalLayer(d))

-----------------------------------------------------------------------------
(* Properties *)

(* The type invariant.  An entry is marked as taken by participants only. *)
TypeOK ==
    /\ outgoingPackages \in [Device -> Seq(Package)]
    /\ outgoingFrames \in [Device -> Seq(Frame)]
    /\ framesWithCrc \in [Device -> Seq(Frame)]
    /\ codingWorker \in [Device -> {"absent", "running", "stopped"}]
    /\ physicalWorker \in
           [Device -> {"absent", "idle", "sending", "delivering", "stopped"}]
    /\ framesToDeliver \in [Device -> Seq(Frame)]
    /\ participants \subseteq Device
    /\ entries \in Seq(Entry)
    /\ \A k \in DOMAIN entries : entries[k].deliveredTo \subseteq participants
    /\ life \in [Device -> Nat]
    /\ pushed \in [Device -> Nat]
    /\ received \in [Device -> Seq(Package)]
    /\ firstDue \in [Device -> [Device -> Nat]]
    /\ handlerFailed \in [Device -> BOOLEAN]

(* The packages of the current life of s on their way to d, d's end first.  *)
Current(s, package) == package.from = s /\ package.life = life[s]
PackagesOf(s, packages) ==
    At(packages, {k \in DOMAIN packages : Current(s, packages[k])})
Carried(frames) == [k \in DOMAIN frames |-> frames[k].package]

OnTheWay(s, d) ==
    LET waiting == At(entries, {k \in DOMAIN entries :
                                   entries[k].senderId = s /\ NewFor(d, entries[k])})
    IN  PackagesOf(s, Carried(framesToDeliver[d]))
        \o [k \in DOMAIN waiting |-> waiting[k].frame.package]
        \o Carried(framesWithCrc[s])
        \o Carried(outgoingFrames[s])
        \o outgoingPackages[s]

Works(d) == Present(d) /\ codingWorker[d] = "running" /\ physicalWorker[d] # "stopped"

(* While two devices live and work, d has received, or will find on the way, *)
(* every package of s that is due to it: each once, in the order of sending, *)
(* whoever else joins, leaves or fails meanwhile.                            *)
Conveyed ==
    \A s, d \in Device : s # d /\ Works(s) /\ Works(d) =>
        LET packages == PackagesOf(s, received[d]) \o OnTheWay(s, d)
        IN  /\ Len(packages) = pushed[s] - firstDue[d][s] + 1
            /\ \A k \in DOMAIN packages : packages[k].number = firstDue[d][s] + k - 1

(* The workers survive everything but an exception of a handler above: no    *)
(* payload that the session manager may cut ends one of them.                *)
WorkersSurvive ==
    \A d \in Device : Present(d) =>
        codingWorker[d] = "running" /\ (physicalWorker[d] = "stopped" => handlerFailed[d])

(* What is on the way arrives, while both ends live and work. *)
Arrives ==
    \A s, d \in Device : s # d =>
        (OnTheWay(s, d) # <<>> ~> OnTheWay(s, d) = <<>> \/ ~Works(s) \/ ~Works(d))

=============================================================================
