-------------------------- MODULE UdpPhysicalLayer --------------------------
(***************************************************************************)
(* The physical layers that use a UDP socket, PhysicalLayerUdp and         *)
(* PhysicalLayerEsp32Wifi, of devices that talk to one another -- a        *)
(* computer and a microcontroller, for instance -- and the network between *)
(* them.                                                                   *)
(*                                                                         *)
(* A pass of the worker sends all frames of the coding module's queue,     *)
(* then handles all datagrams that have come, then sleeps.  The socket may *)
(* refuse a frame: then it is dropped or, if a buffer is full, put back    *)
(* into the queue, behind the frames that came meanwhile.  stopWorker_ is  *)
(* looked at between two passes only, and neither loop of a pass ends      *)
(* while more comes: frames into the queue, or datagrams into the socket.  *)
(***************************************************************************)
EXTENDS Integers, Sequences

CONSTANTS
    Device,        \* the devices
    PhysicalLayer, \* PhysicalLayer[d]: "udp" or "esp32"
    Remote,        \* Remote[d]: the device of remoteAddr_
    FrameLimit,    \* bound: frames of d
    TooLong,       \* TooLong[d]: those that ensureEncodableFrame refuses
    MaxErrors,     \* MAX_CONSECUTIVE_ERRORS
    SocketLimit,   \* datagrams the receiving socket has room for
    MaxDisturbed,  \* bound: datagrams the network duplicates or damages
    Streams        \* Streams[d]: what may be filled without end, besides the
                   \* frames that are numbered: "queue", "socket"

ASSUME UdpAssumption ==
    /\ PhysicalLayer \in [Device -> {"udp", "esp32"}]
    /\ Remote \in [Device -> Device] /\ \A d \in Device : Remote[d] # d
    /\ FrameLimit \in [Device -> Nat]
    /\ TooLong \in [Device -> SUBSET Nat]
    /\ MaxErrors \in Nat \ {0}
    /\ SocketLimit \in Nat \ {0}
    /\ MaxDisturbed \in Nat

ASSUME StreamsAssumption == Streams \in [Device -> SUBSET {"queue", "socket"}]

(* Frames of a device are numbered; 0 is what damage makes of any of them.   *)
Frame ==
    UNION {{[from |-> d, number |-> n] : n \in 0..FrameLimit[d]} : d \in Device}
Garbled(frame) == [frame EXCEPT !.number = 0]

VARIABLES
    outgoingFrames,    \* the coding module's queue
    worker,            \* what the worker does
    consecutiveErrors, \* the counter of that name
    stopWorker,        \* stopWorker_
    stream,            \* what is being filled without end
    network,           \* datagrams on the way
    socket,            \* datagrams that have come
    disturbed,         \* datagrams the network has duplicated or damaged
    (* What happened, for the properties: *)
    pushed,            \* frames the coding module has pushed
    sent,              \* the numbers of the frames that were sent, in order
    dropped,           \* frames given up after an error
    requeued,          \* frames that met a full buffer
    handedUp           \* frames the coding module was given by the receiver

history == <<pushed, sent, dropped, requeued, handedUp>>
sending == <<outgoingFrames, consecutiveErrors>>
medium  == <<network, socket, disturbed>>
control == <<stopWorker, stream>>
vars    == <<sending, worker, control, medium, history>>

Init ==
    /\ outgoingFrames    = [d \in Device |-> <<>>]
    /\ worker            = [d \in Device |-> "sleeping"]
    /\ consecutiveErrors = [d \in Device |-> 0]
    /\ stopWorker        = [d \in Device |-> FALSE]
    /\ stream            = [d \in Device |-> {}]
    /\ network = {}
    /\ socket = [d \in Device |-> <<>>]
    /\ disturbed = 0
    /\ pushed   = [d \in Device |-> 0]
    /\ sent     = [d \in Device |-> <<>>]
    /\ dropped  = [d \in Device |-> {}]
    /\ requeued = [d \in Device |-> {}]
    /\ handedUp = [d \in Device |-> {}]

-----------------------------------------------------------------------------
(* The coding module pushes a frame. *)
AtFront(queue, n) == <<n>> \o queue \* mutant
Pushed(queue, n) == Append(queue, n)

Push(d) ==
    /\ pushed[d] < FrameLimit[d]
    /\ pushed' = [pushed EXCEPT ![d] = @ + 1]
    /\ outgoingFrames' = [outgoingFrames EXCEPT ![d] = Pushed(@, pushed[d] + 1)]
    /\ UNCHANGED <<consecutiveErrors, worker, control, medium,
                   sent, dropped, requeued, handedUp>>

(* The destructor asks the worker to stop, and joins it. *)
Stop(d) ==
    /\ stopWorker' = [stopWorker EXCEPT ![d] = TRUE]
    /\ UNCHANGED <<sending, worker, stream, medium, history>>

(* The modules above begin to fill the queue, or others to send datagrams,   *)
(* faster than the worker empties it; or that stops.                         *)
Traffic(d) ==
    /\ \E kinds \in SUBSET Streams[d] : stream' = [stream EXCEPT ![d] = kinds]
    /\ UNCHANGED <<sending, worker, stopWorker, medium, history>>

Enters(d, phase) == worker' = [worker EXCEPT ![d] = phase]

StopOverlooked(d) == TRUE \* mutant
MayBegin(d) == ~stopWorker[d]

BeginPass(d) ==
    /\ worker[d] = "sleeping" /\ MayBegin(d)
    /\ Enters(d, "sending")
    /\ UNCHANGED <<sending, control, medium, history>>

EndWorker(d) ==
    /\ worker[d] = "sleeping" /\ stopWorker[d]
    /\ Enters(d, "ended")
    /\ UNCHANGED <<sending, control, medium, history>>

-----------------------------------------------------------------------------
(* The loop over the queue.  After too many errors in a row the worker       *)
(* pauses, in the middle of the loop, and forgets them; the one of the ESP32 *)
(* does not count.                                                           *)

Sends(d) == worker[d] = "sending" /\ outgoingFrames[d] # <<>>
First(d) == Head(outgoingFrames[d])
Encodable(d) == First(d) \notin TooLong[d]

NeverForgotten(n) == n + 1 \* mutant
AfterError(n) == (n + 1) % MaxErrors

CountError(d) ==
    consecutiveErrors' = [consecutiveErrors EXCEPT ![d] =
        IF PhysicalLayer[d] = "udp" THEN AfterError(@) ELSE 0]

SendFrame(d) ==
    /\ Sends(d) /\ Encodable(d)
    /\ outgoingFrames' = [outgoingFrames EXCEPT ![d] = Tail(@)]
    /\ sent' = [sent EXCEPT ![d] = Append(@, First(d))]
    /\ network' = network \cup
           {[to |-> Remote[d], frame |-> [from |-> d, number |-> First(d)]]}
    /\ consecutiveErrors' = [consecutiveErrors EXCEPT ![d] = 0]
    /\ UNCHANGED <<worker, control, socket, disturbed,
                   pushed, dropped, requeued, handedUp>>

(* The network or the host is unreachable, the frame is too long for the     *)
(* link, or any other error; for the ESP32, full buffers too.                *)
DropFrame(d) ==
    /\ Sends(d) /\ Encodable(d)
    /\ outgoingFrames' = [outgoingFrames EXCEPT ![d] = Tail(@)]
    /\ dropped' = [dropped EXCEPT ![d] = @ \cup {First(d)}]
    /\ CountError(d)
    /\ UNCHANGED <<worker, control, medium, pushed, sent, requeued, handedUp>>

StillQueued(queue) == Append(queue, Head(queue)) \* mutant: it was not taken out
Requeued(queue) == Append(Tail(queue), Head(queue))

(* ENOBUFS, ENOMEM *)
BufferFull(d) ==
    /\ PhysicalLayer[d] = "udp"
    /\ Sends(d) /\ Encodable(d)
    /\ outgoingFrames' = [outgoingFrames EXCEPT ![d] = Requeued(@)]
    /\ requeued' = [requeued EXCEPT ![d] = @ \cup {First(d)}]
    /\ CountError(d)
    /\ UNCHANGED <<worker, control, medium, pushed, sent, dropped, handedUp>>

(* ensureEncodableFrame throws: the exception ends the worker of the UDP     *)
(* layer and, as nothing catches it there, the program of the ESP32.         *)
RefuseFrame(d) ==
    /\ Sends(d) /\ ~Encodable(d)
    /\ outgoingFrames' = [outgoingFrames EXCEPT ![d] = Tail(@)]
    /\ dropped' = [dropped EXCEPT ![d] = @ \cup {First(d)}]
    /\ Enters(d, "dead")
    /\ UNCHANGED <<consecutiveErrors, control, medium, pushed, sent, requeued, handedUp>>

(* A frame that is not numbered.                                             *)
SendStreamed(d) ==
    /\ worker[d] = "sending" /\ "queue" \in stream[d]
    /\ \/ consecutiveErrors' = [consecutiveErrors EXCEPT ![d] = 0]
       \/ CountError(d)
    /\ UNCHANGED <<outgoingFrames, worker, control, medium, history>>

NoReception == "sleeping" \* mutant
AfterSending == "receiving"

AllSent(d) ==
    /\ worker[d] = "sending" /\ outgoingFrames[d] = <<>> /\ "queue" \notin stream[d]
    /\ Enters(d, AfterSending)
    /\ UNCHANGED <<sending, control, medium, history>>

-----------------------------------------------------------------------------
(* The loop over what has come.  receiveFrameWithCrc throws when the CRC     *)
(* does not match; that costs the frame, as does any exception above.  The   *)
(* datagrams of a stream change nothing here but that the loop goes on.      *)

AnyCrc(frame) == TRUE \* mutant
CrcMatches(frame) == frame.number # 0

Uncaught == "dead" \* mutant
AfterException == "receiving"

ReceiveFrame(d) ==
    LET frame == Head(socket[d])
    IN  /\ worker[d] = "receiving" /\ socket[d] # <<>>
        /\ socket' = [socket EXCEPT ![d] = Tail(@)]
        /\ handedUp' = [handedUp EXCEPT ![d] =
               @ \cup (IF CrcMatches(frame) THEN {frame} ELSE {})]
        /\ \/ CrcMatches(frame) /\ UNCHANGED worker
           \/ Enters(d, AfterException) \* the CRC, or a handler
        /\ UNCHANGED <<sending, control, network, disturbed,
                       pushed, sent, dropped, requeued>>

NothingToReceive(d) ==
    /\ worker[d] = "receiving" /\ socket[d] = <<>> /\ "socket" \notin stream[d]
    /\ Enters(d, "sleeping")
    /\ UNCHANGED <<sending, control, medium, history>>

-----------------------------------------------------------------------------
(* The network: datagrams arrive in any order, whole or damaged, once or     *)
(* again.  No fairness makes them arrive: one that does not is lost, as is   *)
(* one that finds the socket without room.                                   *)

Comes(datagram, frame) ==
    /\ Len(socket[datagram.to]) < SocketLimit
    /\ socket' = [socket EXCEPT ![datagram.to] = Append(@, frame)]
    /\ UNCHANGED <<sending, worker, control, history>>

Arrive(datagram) ==
    /\ Comes(datagram, datagram.frame)
    /\ network' = network \ {datagram}
    /\ UNCHANGED disturbed

Disturb(datagram) ==
    /\ disturbed < MaxDisturbed
    /\ disturbed' = disturbed + 1
    /\ \/ Comes(datagram, datagram.frame) /\ UNCHANGED network
       \/ /\ Comes(datagram, Garbled(datagram.frame))
          /\ network' = network \ {datagram}

-----------------------------------------------------------------------------
SocketTakes(d) == SendFrame(d) \/ DropFrame(d)

Worker(d) ==
    \/ BeginPass(d) \/ EndWorker(d)
    \/ SendFrame(d) \/ DropFrame(d) \/ BufferFull(d) \/ RefuseFrame(d)
    \/ SendStreamed(d) \/ AllSent(d)
    \/ ReceiveFrame(d) \/ NothingToReceive(d)

Next ==
    \/ \E d \in Device : Push(d) \/ Stop(d) \/ Traffic(d) \/ Worker(d)
    \/ \E datagram \in network : Arrive(datagram) \/ Disturb(datagram)

Spec == Init /\ [][Next]_vars

(* The worker is scheduled, and a buffer that is full does not stay full     *)
(* however often the worker tries.  Nothing is assumed of the traffic.       *)
FairSpec ==
    /\ Spec
    /\ \A d \in Device : WF_vars(Worker(d))
    /\ \A d \in {e \in Device : PhysicalLayer[e] = "udp"} : SF_vars(SocketTakes(d))

-----------------------------------------------------------------------------
(* Properties *)

(* The type invariant; the counter of errors stays below its limit.          *)
TypeOK ==
    /\ outgoingFrames \in [Device -> Seq(Nat \ {0})]
    /\ worker \in [Device -> {"sleeping", "sending", "receiving", "ended", "dead"}]
    /\ consecutiveErrors \in [Device -> 0..(MaxErrors - 1)]
    /\ stopWorker \in [Device -> BOOLEAN]
    /\ stream \in [Device -> SUBSET {"queue", "socket"}]
    /\ network \subseteq [to : Device, frame : Frame]
    /\ socket \in [Device -> Seq(Frame)]
    /\ disturbed \in 0..MaxDisturbed
    /\ pushed \in [Device -> Nat]
    /\ sent \in [Device -> Seq(Nat \ {0})]
    /\ dropped \in [Device -> SUBSET Nat]
    /\ requeued \in [Device -> SUBSET Nat]
    /\ handedUp \in [Device -> SUBSET Frame]

Occurrences(n, seq) == {i \in DOMAIN seq : seq[i] = n}

(* Every frame is in one place: it waits, once, or was sent, once, or was    *)
(* given up -- however often it went back into the queue.                    *)
Accounted ==
    \A d \in Device : \A n \in 1..pushed[d] :
        LET waits == Occurrences(n, outgoingFrames[d])
            went  == Occurrences(n, sent[d])
        IN  \/ n \in dropped[d] /\ waits = {} /\ went = {}
            \/ n \notin dropped[d] /\ waits = {} /\ \E i \in DOMAIN sent[d] : went = {i}
            \/ n \notin dropped[d] /\ went = {} /\ \E i \in DOMAIN outgoingFrames[d] : waits = {i}

(* Frames leave in order: one that was overtaken had met a full buffer, and  *)
(* on the ESP32 none is.                                                     *)
OvertakenWhenFull ==
    \A d \in Device : \A i, j \in DOMAIN sent[d] :
        i < j /\ sent[d][i] > sent[d][j] =>
            sent[d][j] \in requeued[d] /\ PhysicalLayer[d] = "udp"

(* Neither errors nor damaged datagrams end a worker, only a frame that is   *)
(* too long -- and then nobody sends any more what waits behind it.          *)
DeadOnlyByLength ==
    \A d \in Device : worker[d] = "dead" => dropped[d] \cap TooLong[d] # {}

(* With the network, the physical layers are the service the session manager *)
(* takes them for: nothing is handed up that was not sent, damage included.  *)
Posted == {frame \in Frame : frame.number \in 1..pushed[frame.from]}

Service == INSTANCE DatagramService WITH posted <- Posted, delivered <- handedUp

CarriesDatagrams == Service!Spec

Finished(d) == worker[d] \in {"ended", "dead"}

(* What has come is handled in the end, whatever full buffers, errors,       *)
(* pauses and refilled queues delay it -- if the queue is not filled without *)
(* end: the loop at PhysicalLayerUdp.cpp:99 goes on as long as there is a    *)
(* frame, and the socket waits.                                              *)
AllHandled ==
    \A d \in Device :
        <>[]("queue" \notin stream[d]) =>
            (socket[d] # <<>> ~> socket[d] = <<>> \/ Finished(d))

(* The destructor, which joins the worker, comes to an end, whatever is left *)
(* to send and to handle -- if the traffic stops: neither loop of a pass     *)
(* (PhysicalLayerUdp.cpp:99, :140) looks at stopWorker_.                     *)
StopEnds ==
    \A d \in Device :
        <>[](stream[d] = {}) => (stopWorker[d] ~> Finished(d))

=============================================================================
