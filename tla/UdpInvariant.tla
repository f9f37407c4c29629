---------------------------- MODULE UdpInvariant ----------------------------
(***************************************************************************)
(* The inductive invariant behind the safety of UdpPhysicalLayer: why no   *)
(* frame is lost, doubled or overtaken without cause, and why nothing is   *)
(* handed up that was not sent.                                            *)
(***************************************************************************)
EXTENDS UdpPhysicalLayer, Functions

(* Frames are numbered as they are pushed, within the bound.                 *)
Bounds ==
    \A d \in Device :
        /\ pushed[d] <= FrameLimit[d]
        /\ outgoingFrames[d] \in Seq(1..pushed[d])
        /\ sent[d] \in Seq(1..pushed[d])
        /\ dropped[d] \subseteq 1..pushed[d]

(* Nothing is on the way that its device has not pushed, and it is on the    *)
(* way to that device's remote.                                              *)
Genuine ==
    /\ \A datagram \in network :
           /\ datagram.to = Remote[datagram.frame.from]
           /\ datagram.frame.number \in 1..pushed[datagram.frame.from]
    /\ \A d \in Device : \A i \in DOMAIN socket[d] :
           /\ socket[d][i].from # d
           /\ socket[d][i].number \in 0..pushed[socket[d][i].from]

(* What is behind another one with a greater number met a full buffer: among *)
(* what was sent, in the queue, and from one to the other.                   *)
Overtaken(ahead, behind, met) ==
    \A i \in DOMAIN ahead, j \in DOMAIN behind : ahead[i] > behind[j] => behind[j] \in met

OvertakenIn(seq, met) ==
    \A i, j \in DOMAIN seq : i < j /\ seq[i] > seq[j] => seq[j] \in met

InOrder ==
    \A d \in Device :
        /\ OvertakenIn(sent[d], requeued[d])
        /\ OvertakenIn(outgoingFrames[d], requeued[d])
        /\ Overtaken(sent[d], outgoingFrames[d], requeued[d])
        /\ PhysicalLayer[d] = "esp32" => requeued[d] = {}

(* Every number is in one place only, and there once.                        *)
Placed ==
    \A d \in Device :
        /\ IsInjective(outgoingFrames[d]) /\ IsInjective(sent[d])
        /\ Range(outgoingFrames[d]) \cap Range(sent[d]) = {}
        /\ dropped[d] \cap (Range(outgoingFrames[d]) \cup Range(sent[d])) = {}
        /\ 1..pushed[d] \subseteq
               dropped[d] \cup Range(outgoingFrames[d]) \cup Range(sent[d])

(* The inductive invariant: the types, and all of the above.                 *)
UdpInv == TypeOK /\ Bounds /\ Genuine /\ InOrder /\ Placed /\ DeadOnlyByLength

=============================================================================
