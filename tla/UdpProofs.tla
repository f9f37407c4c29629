------------------------------ MODULE UdpProofs ------------------------------
(***************************************************************************)
(* Proofs about UdpPhysicalLayer, for any devices, frames, limits and       *)
(* faults of the network.                                                  *)
(***************************************************************************)
EXTENDS UdpInvariant, SequenceFacts

USE UdpAssumption

-----------------------------------------------------------------------------
(* Sequences and frames *)

(* Lemma: the elements of a sequence keep their place in a larger set.       *)
LEMMA Wider ==
    ASSUME NEW m \in Nat, NEW n \in Nat, m <= n, NEW s \in Seq(1..m)
    PROVE  s \in Seq(1..n)
<1>1. \A i \in 1..Len(s) : s[i] \in 1..n
  OBVIOUS
<1> QED
  BY <1>1

(* Lemma: what a frame is made of.                                           *)
LEMMA FrameFields ==
    ASSUME NEW f \in Frame
    PROVE  /\ f.from \in Device /\ f.number \in 0..FrameLimit[f.from]
           /\ f = [from |-> f.from, number |-> f.number]
           /\ Garbled(f) \in Frame /\ Garbled(f).from = f.from /\ Garbled(f).number = 0
<1>1. PICK d \in Device : f \in {[from |-> d, number |-> n] : n \in 0..FrameLimit[d]}
  BY DEF Frame
<1>2. PICK n \in 0..FrameLimit[d] : f = [from |-> d, number |-> n]
  BY <1>1
<1>3. Garbled(f) = [from |-> d, number |-> 0]
  BY <1>2 DEF Garbled
<1>4. FrameLimit[d] \in Nat /\ 0 \in 0..FrameLimit[d]
  OBVIOUS
<1>5. Garbled(f) \in Frame
  BY <1>3, <1>4 DEF Frame
<1> QED
  BY <1>2, <1>3, <1>5

(* Lemma: what makes a frame.                                                *)
LEMMA FrameMade ==
    ASSUME NEW d \in Device, NEW n \in 0..FrameLimit[d]
    PROVE  [from |-> d, number |-> n] \in Frame
BY DEF Frame

-----------------------------------------------------------------------------
(* What a step does to the queue of a device and to what became of its       *)
(* frames.                                                                   *)

queueing == <<outgoingFrames, pushed, sent, dropped, requeued>>

QueuePush(d) ==
    /\ pushed[d] < FrameLimit[d]
    /\ pushed'[d] = pushed[d] + 1
    /\ outgoingFrames'[d] = Append(outgoingFrames[d], pushed[d] + 1)
    /\ sent'[d] = sent[d] /\ dropped'[d] = dropped[d] /\ requeued'[d] = requeued[d]

QueueSend(d) ==
    /\ outgoingFrames[d] # <<>>
    /\ outgoingFrames'[d] = Tail(outgoingFrames[d])
    /\ sent'[d] = Append(sent[d], Head(outgoingFrames[d]))
    /\ pushed'[d] = pushed[d] /\ dropped'[d] = dropped[d] /\ requeued'[d] = requeued[d]

QueueDrop(d) ==
    /\ outgoingFrames[d] # <<>>
    /\ outgoingFrames'[d] = Tail(outgoingFrames[d])
    /\ dropped'[d] = dropped[d] \cup {Head(outgoingFrames[d])}
    /\ pushed'[d] = pushed[d] /\ sent'[d] = sent[d] /\ requeued'[d] = requeued[d]

QueueBack(d) ==
    /\ outgoingFrames[d] # <<>> /\ PhysicalLayer[d] = "udp"
    /\ outgoingFrames'[d] = Append(Tail(outgoingFrames[d]), Head(outgoingFrames[d]))
    /\ requeued'[d] = requeued[d] \cup {Head(outgoingFrames[d])}
    /\ pushed'[d] = pushed[d] /\ sent'[d] = sent[d] /\ dropped'[d] = dropped[d]

QueueSame(d) ==
    /\ outgoingFrames'[d] = outgoingFrames[d] /\ pushed'[d] = pushed[d]
    /\ sent'[d] = sent[d] /\ dropped'[d] = dropped[d] /\ requeued'[d] = requeued[d]

QueueStep(d) ==
    QueuePush(d) \/ QueueSend(d) \/ QueueDrop(d) \/ QueueBack(d) \/ QueueSame(d)

(* Lemma: a step leaves these variables alone or does one of these things,   *)
(* at each device.                                                           *)
LEMMA Queueing ==
    ASSUME TypeOK, [Next]_vars
    PROVE  \A e \in Device : QueueStep(e)
<1> SUFFICES ASSUME NEW e \in Device PROVE QueueStep(e)
  OBVIOUS
<1> USE DEF QueueStep
<1>0. /\ outgoingFrames = [d \in Device |-> outgoingFrames[d]]
      /\ pushed = [d \in Device |-> pushed[d]] /\ sent = [d \in Device |-> sent[d]]
      /\ dropped = [d \in Device |-> dropped[d]]
      /\ requeued = [d \in Device |-> requeued[d]]
  BY DEF TypeOK
<1>1. ASSUME UNCHANGED queueing PROVE QueueStep(e)
  BY <1>1 DEF queueing, QueueSame
<1>2. ASSUME NEW d \in Device, Push(d) PROVE QueueStep(e)
  BY <1>0, <1>2 DEF Push, Pushed, QueuePush, QueueSame
<1>3. ASSUME NEW d \in Device, SendFrame(d) PROVE QueueStep(e)
  BY <1>0, <1>3 DEF SendFrame, Sends, First, QueueSend, QueueSame
<1>4. ASSUME NEW d \in Device, DropFrame(d) PROVE QueueStep(e)
  BY <1>0, <1>4 DEF DropFrame, Sends, First, QueueDrop, QueueSame
<1>5. ASSUME NEW d \in Device, BufferFull(d) PROVE QueueStep(e)
  BY <1>0, <1>5 DEF BufferFull, Sends, First, Requeued, QueueBack, QueueSame
<1>6. ASSUME NEW d \in Device, RefuseFrame(d) PROVE QueueStep(e)
  BY <1>0, <1>6 DEF RefuseFrame, Sends, First, QueueDrop, QueueSame
<1>7. ASSUME NEW d \in Device, Stop(d) \/ BeginPass(d) \/ EndWorker(d) \/ AllSent(d)
               \/ Traffic(d) \/ SendStreamed(d)
                                \/ ReceiveFrame(d) \/ NothingToReceive(d)
      PROVE  UNCHANGED queueing
  BY <1>7 DEF Stop, BeginPass, EndWorker, AllSent, Traffic, SendStreamed, ReceiveFrame, NothingToReceive,
              sending, history, queueing
<1>8. ASSUME NEW datagram \in network, Arrive(datagram) \/ Disturb(datagram)
      PROVE  UNCHANGED queueing
  BY <1>8 DEF Arrive, Disturb, Comes, sending, history, queueing
<1>9. ASSUME UNCHANGED vars PROVE UNCHANGED queueing
  BY <1>9 DEF vars, sending, history, queueing
<1> QED
  BY <1>1, <1>2, <1>3, <1>4, <1>5, <1>6, <1>7, <1>8, <1>9 DEF Next, Worker

(* Lemma: frames are numbered one after the other.                           *)
LEMMA BoundsStep ==
    ASSUME TypeOK, Bounds, [Next]_vars
    PROVE  Bounds' /\ \A d \in Device : pushed'[d] \in Nat /\ pushed[d] <= pushed'[d]
<1> SUFFICES ASSUME NEW d \in Device
             PROVE  /\ pushed'[d] \in Nat /\ pushed[d] <= pushed'[d]
                    /\ pushed'[d] <= FrameLimit[d]
                    /\ outgoingFrames'[d] \in Seq(1..pushed'[d])
                    /\ sent'[d] \in Seq(1..pushed'[d])
                    /\ dropped'[d] \subseteq 1..pushed'[d]
  BY DEF Bounds
<1> DEFINE n == pushed[d]
           q == outgoingFrames[d]
<1>1. n \in Nat /\ n <= FrameLimit[d] /\ FrameLimit[d] \in Nat
  BY DEF TypeOK, Bounds
<1>2. q \in Seq(1..n) /\ sent[d] \in Seq(1..n) /\ dropped[d] \subseteq 1..n
  BY DEF Bounds
<1>3. q # <<>> => Head(q) \in 1..n /\ Tail(q) \in Seq(1..n)
  BY <1>2, HeadTail
<1>4. QueueStep(d)
  BY Queueing
<1>5. CASE QueuePush(d)
  <2>1. pushed'[d] = n + 1 /\ n + 1 \in Nat /\ n <= n + 1 /\ n + 1 <= FrameLimit[d]
    BY <1>1, <1>5 DEF QueuePush
  <2>2. q \in Seq(1..(n + 1)) /\ sent[d] \in Seq(1..(n + 1))
    BY <1>1, <1>2, Wider
  <2>3. Append(q, n + 1) \in Seq(1..(n + 1))
    BY <1>1, <2>2, Appended
  <2> QED
    BY <1>1, <1>2, <1>5, <2>1, <2>2, <2>3 DEF QueuePush
<1>6. CASE QueueSend(d)
  <2>1. Append(sent[d], Head(q)) \in Seq(1..n)
    BY <1>2, <1>3, <1>6, Appended DEF QueueSend
  <2> QED
    BY <1>1, <1>2, <1>3, <1>6, <2>1 DEF QueueSend
<1>7. CASE QueueDrop(d)
  BY <1>1, <1>2, <1>3, <1>7 DEF QueueDrop
<1>8. CASE QueueBack(d)
  <2>1. Append(Tail(q), Head(q)) \in Seq(1..n)
    BY <1>3, <1>8, Appended DEF QueueBack
  <2> QED
    BY <1>1, <1>2, <1>8, <2>1 DEF QueueBack
<1>9. CASE QueueSame(d)
  BY <1>1, <1>2, <1>9 DEF QueueSame
<1> QED
  BY <1>4, <1>5, <1>6, <1>7, <1>8, <1>9 DEF QueueStep

-----------------------------------------------------------------------------
(* Order *)

(* Lemma: a frame that is appended to others, each of them smaller, or that  *)
(* met a full buffer, overtakes none.                                        *)
LEMMA OvertakenAppend ==
    ASSUME NEW n \in Nat, NEW s \in Seq(1..n), NEW e \in 1..n, NEW met, OvertakenIn(s, met),
           \A i \in DOMAIN s : s[i] > e => e \in met
    PROVE  OvertakenIn(Append(s, e), met)
<1> SUFFICES ASSUME NEW i \in DOMAIN Append(s, e), NEW j \in DOMAIN Append(s, e),
                    i < j, Append(s, e)[i] > Append(s, e)[j]
             PROVE  Append(s, e)[j] \in met
  BY DEF OvertakenIn
<1>1. Append(s, e) \in Seq(1..n) /\ DOMAIN Append(s, e) = 1..(Len(s) + 1) /\ DOMAIN s = 1..Len(s)
      /\ Append(s, e)[Len(s) + 1] = e /\ \A k \in DOMAIN s : Append(s, e)[k] = s[k]
  BY Appended
<1>2. Len(s) \in Nat
  OBVIOUS
<1>3. i \in DOMAIN s /\ Append(s, e)[i] = s[i]
  BY <1>1, <1>2
<1>4. CASE j \in DOMAIN s
  BY <1>1, <1>3, <1>4 DEF OvertakenIn
<1>5. CASE j = Len(s) + 1
  BY <1>1, <1>3, <1>5
<1> QED
  BY <1>1, <1>2, <1>4, <1>5

(* Lemma: what is left of a sequence is ordered as it was.                   *)
LEMMA OvertakenTail ==
    ASSUME NEW n \in Nat, NEW s \in Seq(1..n), s # <<>>, NEW met, OvertakenIn(s, met)
    PROVE  OvertakenIn(Tail(s), met)
<1> SUFFICES ASSUME NEW i \in DOMAIN Tail(s), NEW j \in DOMAIN Tail(s),
                    i < j, Tail(s)[i] > Tail(s)[j]
             PROVE  Tail(s)[j] \in met
  BY DEF OvertakenIn
<1>1. i + 1 \in DOMAIN s /\ j + 1 \in DOMAIN s /\ Tail(s)[i] = s[i + 1] /\ Tail(s)[j] = s[j + 1]
  BY HeadTail
<1>2. i \in Nat /\ j \in Nat /\ i + 1 < j + 1
  <2>1. Tail(s) \in Seq(1..n)
    BY HeadTail
  <2>2. DOMAIN Tail(s) = 1..Len(Tail(s)) /\ Len(Tail(s)) \in Nat
    BY <2>1, SeqIs
  <2>3. i \in Nat /\ j \in Nat
    BY <2>2
  <2> QED
    BY <2>3
<1> QED
  BY <1>1, <1>2 DEF OvertakenIn

(* Lemma: more frames may have met a full buffer.                            *)
LEMMA OvertakenMore ==
    ASSUME NEW s, NEW t, NEW met, NEW more, met \subseteq more
    PROVE  /\ OvertakenIn(s, met) => OvertakenIn(s, more)
           /\ Overtaken(s, t, met) => Overtaken(s, t, more)
BY DEF OvertakenIn, Overtaken

(* Lemma: every step keeps the order of the frames of every device.          *)
LEMMA InOrderStep ==
    ASSUME TypeOK, Bounds, InOrder, [Next]_vars
    PROVE  InOrder'
<1> SUFFICES ASSUME NEW d \in Device
             PROVE  /\ OvertakenIn(sent'[d], requeued'[d])
                    /\ OvertakenIn(outgoingFrames'[d], requeued'[d])
                    /\ Overtaken(sent'[d], outgoingFrames'[d], requeued'[d])
                    /\ PhysicalLayer[d] = "esp32" => requeued'[d] = {}
  BY DEF InOrder
<1> DEFINE n == pushed[d]
           q == outgoingFrames[d]
           s == sent[d]
           met == requeued[d]
<1>1. n \in Nat /\ q \in Seq(1..n) /\ s \in Seq(1..n)
  BY DEF TypeOK, Bounds
<1>2. OvertakenIn(s, met) /\ OvertakenIn(q, met) /\ Overtaken(s, q, met)
      /\ (PhysicalLayer[d] = "esp32" => met = {})
  BY DEF InOrder
<1>3. QueueStep(d)
  BY Queueing
<1>4. q # <<>> => /\ Head(q) \in 1..n /\ Head(q) = q[1] /\ 1 \in DOMAIN q
                  /\ Tail(q) \in Seq(1..n)
                  /\ \A i \in DOMAIN Tail(q) : i + 1 \in DOMAIN q /\ Tail(q)[i] = q[i + 1]
                  /\ OvertakenIn(Tail(q), met)
                  /\ Overtaken(s, Tail(q), met)
  <2> SUFFICES ASSUME q # <<>>
               PROVE  /\ Head(q) \in 1..n /\ Head(q) = q[1] /\ 1 \in DOMAIN q
                      /\ Tail(q) \in Seq(1..n)
                      /\ \A i \in DOMAIN Tail(q) : i + 1 \in DOMAIN q /\ Tail(q)[i] = q[i + 1]
                      /\ OvertakenIn(Tail(q), met)
                      /\ Overtaken(s, Tail(q), met)
    OBVIOUS
  <2>1. /\ Head(q) \in 1..n /\ Head(q) = q[1] /\ 1 \in DOMAIN q
        /\ Tail(q) \in Seq(1..n)
        /\ \A i \in DOMAIN Tail(q) : i + 1 \in DOMAIN q /\ Tail(q)[i] = q[i + 1]
    BY <1>1, HeadTail
  <2>2. OvertakenIn(Tail(q), met)
    BY <1>1, <1>2, OvertakenTail
  <2>3. Overtaken(s, Tail(q), met)
    BY <1>2, <2>1 DEF Overtaken
  <2> QED
    BY <2>1, <2>2, <2>3
<1>5. CASE QueuePush(d)
  <2>1. n + 1 \in Nat /\ q \in Seq(1..(n + 1)) /\ n + 1 \in 1..(n + 1)
    BY <1>1, Wider
  <2>2. (\A i \in DOMAIN q : q[i] \in 1..n) /\ (\A i \in DOMAIN s : s[i] \in 1..n)
    BY <1>1, SeqIs
  <2>3. OvertakenIn(Append(q, n + 1), met)
    BY <1>1, <1>2, <2>1, <2>2, OvertakenAppend
  <2>4. Overtaken(s, Append(q, n + 1), met)
    <3> SUFFICES ASSUME NEW i \in DOMAIN s, NEW j \in DOMAIN Append(q, n + 1),
                        s[i] > Append(q, n + 1)[j]
                 PROVE  Append(q, n + 1)[j] \in met
      BY DEF Overtaken
    <3>1. j \in DOMAIN q /\ Append(q, n + 1)[j] = q[j]
      <4>1. \/ j \in DOMAIN q /\ Append(q, n + 1)[j] = q[j]
            \/ j = Len(q) + 1 /\ Append(q, n + 1)[j] = n + 1
        BY <2>1, AppendedAt
      <4>2. ~(s[i] > n + 1)
        BY <1>1, <2>2
      <4> QED
        BY <4>1, <4>2
    <3> QED
      BY <1>2, <3>1 DEF Overtaken
  <2> QED
    BY <1>2, <1>5, <2>3, <2>4 DEF QueuePush
<1>6. CASE QueueSend(d)
  <2> DEFINE h == Head(q)
  <2>1. q # <<>> /\ h \in 1..n
    BY <1>4, <1>6 DEF QueueSend
  <2>2. \A i \in DOMAIN s : s[i] > h => h \in met
    <3>1. h = q[1] /\ 1 \in DOMAIN q
      BY <1>4, <2>1
    <3> QED
      BY <1>2, <3>1 DEF Overtaken
  <2>3. OvertakenIn(Append(s, h), met)
    <3> HIDE DEF n, q, s, met, h
    <3> QED
      BY <1>1, <1>2, <2>1, <2>2, OvertakenAppend
  <2>4. Overtaken(Append(s, h), Tail(q), met)
    <3> SUFFICES ASSUME NEW i \in DOMAIN Append(s, h), NEW j \in DOMAIN Tail(q),
                        Append(s, h)[i] > Tail(q)[j]
                 PROVE  Tail(q)[j] \in met
      BY DEF Overtaken
    <3>0. \/ i \in DOMAIN s /\ Append(s, h)[i] = s[i]
          \/ i = Len(s) + 1 /\ Append(s, h)[i] = h
      BY <1>1, <2>1, AppendedAt
    <3>1. CASE i \in DOMAIN s /\ Append(s, h)[i] = s[i]
      BY <1>4, <2>1, <3>0, <3>1 DEF Overtaken
    <3>2. CASE i = Len(s) + 1 /\ Append(s, h)[i] = h
      <4>1. j \in Nat /\ j > 0
        BY <1>4, <2>1, SeqIs
      <4>2. q[1] > q[j + 1] /\ j + 1 \in DOMAIN q /\ Tail(q)[j] = q[j + 1] /\ 1 < j + 1
        BY <1>4, <2>1, <3>0, <3>2, <4>1
      <4> QED
        BY <1>2, <1>4, <2>1, <4>2 DEF OvertakenIn
    <3> QED
      BY <3>0, <3>1, <3>2
  <2> QED
    BY <1>2, <1>4, <1>6, <2>1, <2>3, <2>4 DEF QueueSend
<1>7. CASE QueueDrop(d)
  BY <1>2, <1>4, <1>7 DEF QueueDrop
<1>8. CASE QueueBack(d)
  <2> DEFINE h == Head(q)
             more == met \cup {h}
  <2>1. q # <<>> /\ h \in 1..n /\ met \subseteq more /\ h \in more
    BY <1>4, <1>8 DEF QueueBack
  <2>2. OvertakenIn(s, more) /\ OvertakenIn(Tail(q), more) /\ Overtaken(s, Tail(q), more)
    BY <1>2, <1>4, <2>1, OvertakenMore
  <2> HIDE DEF more
  <2>3. OvertakenIn(Append(Tail(q), h), more)
    BY <1>1, <1>4, <2>1, <2>2, OvertakenAppend
  <2>4. Overtaken(s, Append(Tail(q), h), more)
    <3> SUFFICES ASSUME NEW i \in DOMAIN s, NEW j \in DOMAIN Append(Tail(q), h),
                        s[i] > Append(Tail(q), h)[j]
                 PROVE  Append(Tail(q), h)[j] \in more
      BY DEF Overtaken
    <3>0. \/ j \in DOMAIN Tail(q) /\ Append(Tail(q), h)[j] = Tail(q)[j]
          \/ j = Len(Tail(q)) + 1 /\ Append(Tail(q), h)[j] = h
      BY <1>4, <2>1, AppendedAt
    <3>1. CASE j \in DOMAIN Tail(q) /\ Append(Tail(q), h)[j] = Tail(q)[j]
      BY <2>2, <3>0, <3>1 DEF Overtaken
    <3>2. CASE j = Len(Tail(q)) + 1 /\ Append(Tail(q), h)[j] = h
      BY <2>1, <3>0, <3>2
    <3> QED
      BY <3>0, <3>1, <3>2
  <2> QED
    BY <1>8, <2>2, <2>3, <2>4 DEF QueueBack, more
<1>9. CASE QueueSame(d)
  BY <1>2, <1>9 DEF QueueSame
<1> QED
  BY <1>3, <1>5, <1>6, <1>7, <1>8, <1>9 DEF QueueStep

-----------------------------------------------------------------------------
(* Places *)

(* Lemma: every step leaves every frame in one place.                        *)
LEMMA PlacedStep ==
    ASSUME TypeOK, Bounds, Placed, [Next]_vars
    PROVE  Placed'
<1> SUFFICES ASSUME NEW d \in Device
             PROVE  /\ IsInjective(outgoingFrames'[d]) /\ IsInjective(sent'[d])
                    /\ Range(outgoingFrames'[d]) \cap Range(sent'[d]) = {}
                    /\ dropped'[d] \cap (Range(outgoingFrames'[d]) \cup Range(sent'[d])) = {}
                    /\ 1..pushed'[d] \subseteq
                          dropped'[d] \cup Range(outgoingFrames'[d]) \cup Range(sent'[d])
  BY DEF Placed
<1> DEFINE n == pushed[d]
           q == outgoingFrames[d]
           s == sent[d]
<1>1. n \in Nat /\ q \in Seq(1..n) /\ s \in Seq(1..n) /\ dropped[d] \subseteq 1..n
  BY DEF TypeOK, Bounds
<1>2. /\ IsInjective(q) /\ IsInjective(s)
      /\ Range(q) \cap Range(s) = {}
      /\ dropped[d] \cap (Range(q) \cup Range(s)) = {}
      /\ 1..n \subseteq dropped[d] \cup Range(q) \cup Range(s)
  BY DEF Placed
<1>3. QueueStep(d)
  BY Queueing
<1>4. q # <<>> => /\ Head(q) \in 1..n /\ Tail(q) \in Seq(1..n)
                  /\ Range(Tail(q)) = Range(q) \ {Head(q)}
                  /\ Head(q) \in Range(q) /\ IsInjective(Tail(q))
  <2>1. q # <<>> => Head(q) \in 1..n /\ Tail(q) \in Seq(1..n)
    BY <1>1, HeadTail
  <2>2. q # <<>> => /\ Range(Tail(q)) = Range(q) \ {Head(q)}
                    /\ Head(q) \in Range(q) /\ IsInjective(Tail(q))
    BY <1>1, <1>2, ElementsTail
  <2> QED
    BY <2>1, <2>2
<1>5. CASE QueuePush(d)
  <2>1. n + 1 \in 1..(n + 1) /\ q \in Seq(1..(n + 1)) /\ 1..(n + 1) = (1..n) \cup {n + 1}
    BY <1>1, Wider
  <2>2. Range(q) \subseteq 1..n /\ Range(s) \subseteq 1..n /\ n + 1 \notin 1..n
    BY <1>1, ElementsIn
  <2>3. Range(Append(q, n + 1)) = Range(q) \cup {n + 1} /\ IsInjective(Append(q, n + 1))
    BY <1>2, <2>1, <2>2, ElementsAppend
  <2> HIDE DEF n, q, s
  <2>4. pushed'[d] = n + 1 /\ outgoingFrames'[d] = Append(q, n + 1)
        /\ sent'[d] = s /\ dropped'[d] = dropped[d]
    BY <1>5 DEF QueuePush, n, q, s
  <2> QED
    BY <1>1, <1>2, <2>1, <2>2, <2>3, <2>4
<1>6. CASE QueueSend(d)
  <2>1. q # <<>>
    BY <1>6 DEF QueueSend
  <2>2. Range(Append(s, Head(q))) = Range(s) \cup {Head(q)} /\ IsInjective(Append(s, Head(q)))
    BY <1>1, <1>2, <1>4, <2>1, ElementsAppend
  <2> QED
    BY <1>2, <1>4, <1>6, <2>1, <2>2 DEF QueueSend
<1>7. CASE QueueDrop(d)
  BY <1>2, <1>4, <1>7 DEF QueueDrop
<1>8. CASE QueueBack(d)
  <2>1. q # <<>>
    BY <1>8 DEF QueueBack
  <2> DEFINE h == Head(q)
             t == Tail(q)
  <2>2. /\ h \in 1..n /\ t \in Seq(1..n) /\ IsInjective(t)
        /\ h \notin Range(t) /\ Range(t) \cup {h} = Range(q)
    BY <1>4, <2>1
  <2>3. outgoingFrames'[d] = Append(t, h)
    BY <1>8 DEF QueueBack
  <2> HIDE DEF h, t
  <2>4. Range(Append(t, h)) = Range(t) \cup {h} /\ IsInjective(Append(t, h))
    <3>1. h \in 1..n /\ t \in Seq(1..n)
      BY <2>2
    <3>2. /\ Range(Append(t, h)) = Range(t) \cup {h}
          /\ IsInjective(t) /\ h \notin Range(t) => IsInjective(Append(t, h))
      BY <3>1, ElementsAppend
    <3> QED
      BY <2>2, <3>2
  <2> QED
    BY <1>2, <1>8, <2>2, <2>3, <2>4 DEF QueueBack
<1>9. CASE QueueSame(d)
  BY <1>2, <1>9 DEF QueueSame
<1> QED
  BY <1>3, <1>5, <1>6, <1>7, <1>8, <1>9 DEF QueueStep

-----------------------------------------------------------------------------
(* Types *)

(* Lemma: the first frame of a queue carries a number within the bound.      *)
LEMMA FirstType ==
    ASSUME TypeOK, Bounds, NEW d \in Device, outgoingFrames[d] # <<>>
    PROVE  First(d) \in 1..pushed[d] /\ pushed[d] \in Nat /\ pushed[d] <= FrameLimit[d]
           /\ First(d) \in 0..FrameLimit[d]
<1>1. pushed[d] \in Nat /\ FrameLimit[d] \in Nat /\ pushed[d] <= FrameLimit[d]
      /\ outgoingFrames[d] \in Seq(1..pushed[d])
  BY DEF TypeOK, Bounds
<1>2. Head(outgoingFrames[d]) \in 1..pushed[d]
  BY <1>1, HeadTail
<1> QED
  BY <1>1, <1>2 DEF First

(* Lemma: the queue of each device, and what became of its frames.           *)
LEMMA TypeQueueing ==
    ASSUME TypeOK, Bounds, [Next]_vars
    PROVE  /\ outgoingFrames' \in [Device -> Seq(Nat \ {0})]
           /\ pushed' \in [Device -> Nat]
           /\ sent' \in [Device -> Seq(Nat \ {0})]
           /\ dropped' \in [Device -> SUBSET Nat]
           /\ requeued' \in [Device -> SUBSET Nat]
<1>1. /\ DOMAIN outgoingFrames' = Device /\ DOMAIN pushed' = Device /\ DOMAIN sent' = Device
      /\ DOMAIN dropped' = Device /\ DOMAIN requeued' = Device
      /\ outgoingFrames' = [e \in Device |-> outgoingFrames'[e]]
      /\ pushed' = [e \in Device |-> pushed'[e]] /\ sent' = [e \in Device |-> sent'[e]]
      /\ dropped' = [e \in Device |-> dropped'[e]]
      /\ requeued' = [e \in Device |-> requeued'[e]]
  <2>0. /\ outgoingFrames \in [Device -> Seq(Nat \ {0})] /\ pushed \in [Device -> Nat]
        /\ sent \in [Device -> Seq(Nat \ {0})] /\ dropped \in [Device -> SUBSET Nat]
        /\ requeued \in [Device -> SUBSET Nat]
    BY DEF TypeOK
  <2>1. ASSUME UNCHANGED queueing PROVE <1>1!:
    BY <2>0, <2>1 DEF queueing
  <2>2. ASSUME NEW d \in Device, Push(d) PROVE <1>1!:
    BY <2>0, <2>2 DEF Push
  <2>3. ASSUME NEW d \in Device, SendFrame(d) PROVE <1>1!:
    BY <2>0, <2>3 DEF SendFrame
  <2>4. ASSUME NEW d \in Device, DropFrame(d) PROVE <1>1!:
    BY <2>0, <2>4 DEF DropFrame
  <2>5. ASSUME NEW d \in Device, BufferFull(d) PROVE <1>1!:
    BY <2>0, <2>5 DEF BufferFull
  <2>6. ASSUME NEW d \in Device, RefuseFrame(d) PROVE <1>1!:
    BY <2>0, <2>6 DEF RefuseFrame
  <2>7. ASSUME NEW d \in Device, Stop(d) \/ BeginPass(d) \/ EndWorker(d) \/ AllSent(d)
               \/ Traffic(d) \/ SendStreamed(d)
                                  \/ ReceiveFrame(d) \/ NothingToReceive(d)
        PROVE  UNCHANGED queueing
    BY <2>7 DEF Stop, BeginPass, EndWorker, AllSent, Traffic, SendStreamed, ReceiveFrame, NothingToReceive,
                sending, history, queueing
  <2>8. ASSUME NEW datagram \in network, Arrive(datagram) \/ Disturb(datagram)
        PROVE  UNCHANGED queueing
    BY <2>8 DEF Arrive, Disturb, Comes, sending, history, queueing
  <2>9. ASSUME UNCHANGED vars PROVE UNCHANGED queueing
    BY <2>9 DEF vars, sending, history, queueing
  <2> QED
    BY <2>1, <2>2, <2>3, <2>4, <2>5, <2>6, <2>7, <2>8, <2>9 DEF Next, Worker
<1>2. \A d \in Device : /\ pushed'[d] \in Nat
                        /\ outgoingFrames'[d] \in Seq(1..pushed'[d])
                        /\ sent'[d] \in Seq(1..pushed'[d])
                        /\ dropped'[d] \subseteq 1..pushed'[d]
  BY BoundsStep DEF Bounds
<1>3. ASSUME NEW n \in Nat, NEW s \in Seq(1..n) PROVE s \in Seq(Nat \ {0})
  <2>1. \A i \in 1..Len(s) : s[i] \in Nat \ {0}
    OBVIOUS
  <2> QED
    BY <2>1
<1>4. \A d \in Device : outgoingFrames'[d] \in Seq(Nat \ {0}) /\ sent'[d] \in Seq(Nat \ {0})
  BY <1>2, <1>3
<1>5. \A d \in Device : dropped'[d] \subseteq Nat
  BY <1>2
<1>6. \A d \in Device : requeued'[d] \subseteq Nat
  <2> SUFFICES ASSUME NEW d \in Device PROVE requeued'[d] \subseteq Nat
    OBVIOUS
  <2>1. requeued[d] \subseteq Nat
    BY DEF TypeOK
  <2>2. outgoingFrames[d] # <<>> => Head(outgoingFrames[d]) \in Nat
    BY FirstType DEF First
  <2>3. QueueStep(d)
    BY Queueing
  <2>4. \/ requeued'[d] = requeued[d]
        \/ /\ outgoingFrames[d] # <<>>
           /\ requeued'[d] = requeued[d] \cup {Head(outgoingFrames[d])}
    BY <2>3 DEF QueueStep, QueuePush, QueueSend, QueueDrop, QueueBack, QueueSame
  <2> QED
    BY <2>1, <2>2, <2>4
<1> QED
  BY <1>1, <1>2, <1>4, <1>5, <1>6

(* Lemma: the worker and the medium, when a frame leaves the queue.          *)
LEMMA TypeSending ==
    ASSUME TypeOK, Bounds, NEW d \in Device,
           SendFrame(d) \/ DropFrame(d) \/ BufferFull(d) \/ RefuseFrame(d)
    PROVE  /\ worker' \in [Device -> {"sleeping", "sending", "receiving", "ended", "dead"}]
           /\ consecutiveErrors' \in [Device -> 0..(MaxErrors - 1)]
           /\ network' \subseteq [to : Device, frame : Frame]
           /\ UNCHANGED <<control, socket, disturbed, handedUp>>
<1>1. consecutiveErrors[d] \in 0..(MaxErrors - 1) /\ MaxErrors \in Nat \ {0}
  BY DEF TypeOK
<1>2. AfterError(consecutiveErrors[d]) \in 0..(MaxErrors - 1) /\ 0 \in 0..(MaxErrors - 1)
  BY <1>1 DEF AfterError
<1>3. consecutiveErrors' \in [Device -> 0..(MaxErrors - 1)]
  <2>1. \E n \in 0..(MaxErrors - 1) :
            consecutiveErrors' = [consecutiveErrors EXCEPT ![d] = n]
    <3>1. CASE SendFrame(d)
      BY <1>2, <3>1 DEF SendFrame
    <3>2. CASE DropFrame(d) \/ BufferFull(d)
      <4>1. CountError(d)
        BY <3>2 DEF DropFrame, BufferFull
      <4> QED
        BY <1>2, <4>1 DEF CountError
    <3>3. CASE RefuseFrame(d)
      <4>1. consecutiveErrors' = [consecutiveErrors EXCEPT ![d] = consecutiveErrors[d]]
        BY <3>3 DEF RefuseFrame, TypeOK
      <4> QED
        BY <1>1, <4>1
    <3> QED
      BY <3>1, <3>2, <3>3
  <2>2. consecutiveErrors \in [Device -> 0..(MaxErrors - 1)]
    BY DEF TypeOK
  <2> QED
    BY <2>1, <2>2
<1>4. worker' \in [Device -> {"sleeping", "sending", "receiving", "ended", "dead"}]
  BY DEF TypeOK, SendFrame, DropFrame, BufferFull, RefuseFrame, Enters
<1>5. network' \subseteq [to : Device, frame : Frame]
  <2>1. CASE SendFrame(d)
    <3>1. [from |-> d, number |-> First(d)] \in Frame
      BY <2>1, FirstType, FrameMade DEF SendFrame, Sends
    <3>2. Remote[d] \in Device
      OBVIOUS
    <3> DEFINE datagram == [to |-> Remote[d], frame |-> [from |-> d, number |-> First(d)]]
    <3>3. datagram \in [to : Device, frame : Frame]
      BY <3>1, <3>2
    <3>4. network' = network \cup {datagram}
      BY <2>1 DEF SendFrame
    <3>5. network \subseteq [to : Device, frame : Frame]
      BY DEF TypeOK
    <3> HIDE DEF datagram
    <3> QED
      BY <3>3, <3>4, <3>5
  <2> QED
    BY <2>1 DEF TypeOK, DropFrame, BufferFull, RefuseFrame, medium
<1> QED
  BY <1>3, <1>4, <1>5 DEF SendFrame, DropFrame, BufferFull, RefuseFrame, medium

(* Lemma: a frame that is not numbered changes the counter of errors only.   *)
LEMMA TypeStreamed ==
    ASSUME TypeOK, NEW d \in Device, SendStreamed(d)
    PROVE  /\ consecutiveErrors' \in [Device -> 0..(MaxErrors - 1)]
           /\ UNCHANGED <<worker, stopWorker, stream, network, socket, disturbed, handedUp>>
<1>1. consecutiveErrors \in [Device -> 0..(MaxErrors - 1)] /\ MaxErrors \in Nat \ {0}
  BY DEF TypeOK
<1>2. AfterError(consecutiveErrors[d]) \in 0..(MaxErrors - 1) /\ 0 \in 0..(MaxErrors - 1)
  BY <1>1 DEF AfterError
<1>3. consecutiveErrors' \in [Device -> 0..(MaxErrors - 1)]
  BY <1>1, <1>2 DEF SendStreamed, CountError
<1> QED
  BY <1>3 DEF SendStreamed, control, medium, history

(* Lemma: the sockets and the network, when a datagram comes.                *)
LEMMA TypeNetwork ==
    ASSUME TypeOK, NEW datagram \in network, Arrive(datagram) \/ Disturb(datagram)
    PROVE  /\ network' \subseteq [to : Device, frame : Frame]
           /\ socket' \in [Device -> Seq(Frame)]
           /\ disturbed' \in 0..MaxDisturbed
           /\ UNCHANGED <<worker, consecutiveErrors, control, handedUp>>
<1>1. datagram \in [to : Device, frame : Frame]
  BY DEF TypeOK
<1>2. datagram.to \in Device /\ datagram.frame \in Frame /\ Garbled(datagram.frame) \in Frame
  BY <1>1, FrameFields
<1>3. ASSUME NEW frame \in Frame, Comes(datagram, frame)
      PROVE  /\ socket' \in [Device -> Seq(Frame)]
             /\ UNCHANGED <<worker, consecutiveErrors, control, handedUp>>
  <2>1. socket[datagram.to] \in Seq(Frame)
    BY <1>2 DEF TypeOK
  <2>2. Append(socket[datagram.to], frame) \in Seq(Frame)
    BY <2>1, Appended
  <2> QED
    BY <1>3, <2>2 DEF TypeOK, Comes, sending, history
<1>4. network' \subseteq [to : Device, frame : Frame]
  BY DEF TypeOK, Arrive, Disturb
<1>5. disturbed' \in 0..MaxDisturbed
  <2>1. disturbed \in 0..MaxDisturbed /\ MaxDisturbed \in Nat
    BY DEF TypeOK
  <2>2. \/ disturbed' = disturbed
        \/ disturbed < MaxDisturbed /\ disturbed' = disturbed + 1
    BY DEF Arrive, Disturb
  <2> QED
    BY <2>1, <2>2
<1> QED
  BY <1>2, <1>3, <1>4, <1>5 DEF Arrive, Disturb

(* Lemma: what the receiver hands up.                                        *)
LEMMA TypeReceiving ==
    ASSUME TypeOK, NEW d \in Device, ReceiveFrame(d)
    PROVE  /\ socket' \in [Device -> Seq(Frame)]
           /\ handedUp' \in [Device -> SUBSET Frame]
           /\ worker' \in [Device -> {"sleeping", "sending", "receiving", "ended", "dead"}]
           /\ UNCHANGED <<network, consecutiveErrors, control, disturbed>>
<1>1. socket[d] \in Seq(Frame) /\ socket[d] # <<>>
  BY DEF TypeOK, ReceiveFrame
<1>2. Head(socket[d]) \in Frame /\ Tail(socket[d]) \in Seq(Frame)
  BY <1>1, HeadTail
<1>3. socket' \in [Device -> Seq(Frame)]
  BY <1>2 DEF TypeOK, ReceiveFrame
<1>4. handedUp' \in [Device -> SUBSET Frame]
  BY <1>2 DEF TypeOK, ReceiveFrame
<1>5. worker' \in [Device -> {"sleeping", "sending", "receiving", "ended", "dead"}]
  <2>1. worker' = worker \/ worker' = [worker EXCEPT ![d] = "receiving"]
    BY DEF ReceiveFrame, Enters, AfterException
  <2> QED
    BY <2>1 DEF TypeOK
<1> QED
  BY <1>3, <1>4, <1>5 DEF ReceiveFrame, sending

(* Lemma: every step keeps the types.                                        *)
LEMMA TypeStep ==
    ASSUME TypeOK, Bounds, [Next]_vars
    PROVE  TypeOK'
<1> DEFINE Rest == /\ worker' \in [Device -> {"sleeping", "sending", "receiving", "ended", "dead"}]
                   /\ consecutiveErrors' \in [Device -> 0..(MaxErrors - 1)]
                   /\ stopWorker' \in [Device -> BOOLEAN]
                   /\ stream' \in [Device -> SUBSET {"queue", "socket"}]
                   /\ network' \subseteq [to : Device, frame : Frame]
                   /\ socket' \in [Device -> Seq(Frame)]
                   /\ disturbed' \in 0..MaxDisturbed
                   /\ handedUp' \in [Device -> SUBSET Frame]
<1>0. /\ worker \in [Device -> {"sleeping", "sending", "receiving", "ended", "dead"}]
      /\ consecutiveErrors \in [Device -> 0..(MaxErrors - 1)]
      /\ stopWorker \in [Device -> BOOLEAN]
      /\ stream \in [Device -> SUBSET {"queue", "socket"}]
      /\ network \subseteq [to : Device, frame : Frame]
      /\ socket \in [Device -> Seq(Frame)]
      /\ disturbed \in 0..MaxDisturbed
      /\ handedUp \in [Device -> SUBSET Frame]
  BY DEF TypeOK
<1>1. ASSUME UNCHANGED vars PROVE Rest
  BY <1>0, <1>1 DEF vars, sending, control, medium, history
<1>2. ASSUME NEW d \in Device, Push(d) PROVE Rest
  BY <1>0, <1>2 DEF Push, control, medium
<1>3. ASSUME NEW d \in Device, Stop(d) PROVE Rest
  BY <1>0, <1>3 DEF Stop, sending, medium, history
<1>4. ASSUME NEW d \in Device, BeginPass(d) \/ EndWorker(d) \/ AllSent(d) \/ NothingToReceive(d)
      PROVE  Rest
  <2>1. \E phase \in {"sleeping", "sending", "receiving", "ended"} :
            worker' = [worker EXCEPT ![d] = phase]
    BY <1>4 DEF BeginPass, EndWorker, AllSent, NothingToReceive, AfterSending, Enters
  <2>2. UNCHANGED <<sending, control, medium, history>>
    BY <1>4 DEF BeginPass, EndWorker, AllSent, NothingToReceive
  <2> QED
    BY <1>0, <2>1, <2>2 DEF sending, control, medium, history
<1>5. ASSUME NEW d \in Device,
             SendFrame(d) \/ DropFrame(d) \/ BufferFull(d) \/ RefuseFrame(d)
      PROVE  Rest
  BY <1>0, <1>5, TypeSending DEF control
<1>6. ASSUME NEW d \in Device, ReceiveFrame(d) PROVE Rest
  BY <1>0, <1>6, TypeReceiving DEF control
<1>7. ASSUME NEW datagram \in network, Arrive(datagram) \/ Disturb(datagram) PROVE Rest
  BY <1>0, <1>7, TypeNetwork DEF control
<1>8. ASSUME NEW d \in Device, Traffic(d) PROVE Rest
  <2>1. PICK kinds \in SUBSET Streams[d] : stream' = [stream EXCEPT ![d] = kinds]
    BY <1>8 DEF Traffic
  <2>2. kinds \subseteq {"queue", "socket"}
    BY StreamsAssumption
  <2> QED
    BY <1>0, <1>8, <2>1, <2>2 DEF Traffic, sending, medium, history
<1>9. ASSUME NEW d \in Device, SendStreamed(d) PROVE Rest
  BY <1>0, <1>9, TypeStreamed
<1>10. Rest
  BY <1>1, <1>2, <1>3, <1>4, <1>5, <1>6, <1>7, <1>8, <1>9 DEF Next, Worker
<1> QED
  BY <1>10, TypeQueueing DEF TypeOK

-----------------------------------------------------------------------------
(* What is on the way *)

(* Lemma: every step leaves on the way what its device has pushed.           *)
LEMMA GenuineStep ==
    ASSUME TypeOK, Bounds, Genuine, [Next]_vars
    PROVE  Genuine'
<1> DEFINE OnTheWay(datagram) ==
               /\ datagram.frame.from \in Device
               /\ datagram.to = Remote[datagram.frame.from]
               /\ datagram.frame.number \in 1..pushed'[datagram.frame.from]
           Come(d, frame) ==
               /\ frame.from \in Device /\ frame.from # d
               /\ frame.number \in 0..pushed'[frame.from]
<1>0. \A d \in Device : pushed[d] \in Nat /\ pushed'[d] \in Nat /\ pushed[d] <= pushed'[d]
  BY BoundsStep DEF TypeOK
<1>1. \A datagram \in network : datagram.to \in Device /\ datagram.frame \in Frame
                                /\ OnTheWay(datagram) /\ datagram.to # datagram.frame.from
  <2> SUFFICES ASSUME NEW datagram \in network
               PROVE  datagram.to \in Device /\ datagram.frame \in Frame
                      /\ OnTheWay(datagram) /\ datagram.to # datagram.frame.from
    OBVIOUS
  <2>1. datagram \in [to : Device, frame : Frame]
    BY DEF TypeOK
  <2>2. datagram.to \in Device /\ datagram.frame \in Frame /\ datagram.frame.from \in Device
    BY <2>1, FrameFields
  <2>3. /\ datagram.to = Remote[datagram.frame.from]
        /\ datagram.frame.number \in 1..pushed[datagram.frame.from]
    BY DEF Genuine
  <2>4. datagram.frame.number \in 1..pushed'[datagram.frame.from]
    BY <1>0, <2>2, <2>3
  <2> QED
    BY <2>2, <2>3, <2>4
<1>2. \A d \in Device : socket[d] \in Seq(Frame)
                        /\ \A i \in DOMAIN socket[d] : Come(d, socket[d][i])
  <2> SUFFICES ASSUME NEW d \in Device
               PROVE  socket[d] \in Seq(Frame)
                      /\ \A i \in DOMAIN socket[d] : Come(d, socket[d][i])
    OBVIOUS
  <2>1. socket[d] \in Seq(Frame)
    BY DEF TypeOK
  <2>2. \A i \in DOMAIN socket[d] : socket[d][i] \in Frame
    BY <2>1, SeqIs
  <2>3. \A i \in DOMAIN socket[d] : socket[d][i].from \in Device
    BY <2>2, FrameFields
  <2>4. \A i \in DOMAIN socket[d] : socket[d][i].from # d
                                    /\ socket[d][i].number \in 0..pushed[socket[d][i].from]
    BY DEF Genuine
  <2>5. \A i \in DOMAIN socket[d] : socket[d][i].number \in 0..pushed'[socket[d][i].from]
    BY <1>0, <2>3, <2>4
  <2> QED
    BY <2>1, <2>3, <2>4, <2>5
<1> HIDE DEF OnTheWay, Come
<1>3. \A datagram \in network' : OnTheWay(datagram)
  <2>1. ASSUME network' \subseteq network PROVE <1>3!:
    BY <1>1, <2>1
  <2>2. ASSUME NEW d \in Device, SendFrame(d) PROVE <1>3!:
    <3> DEFINE datagram == [to |-> Remote[d], frame |-> [from |-> d, number |-> First(d)]]
    <3>1. First(d) \in 1..pushed[d]
      BY <2>2, FirstType DEF SendFrame, Sends
    <3>2. pushed'[d] = pushed[d]
      BY <2>2 DEF SendFrame
    <3>3. OnTheWay(datagram)
      BY <3>1, <3>2 DEF OnTheWay
    <3>4. network' = network \cup {datagram}
      BY <2>2 DEF SendFrame
    <3> HIDE DEF datagram
    <3> QED
      BY <1>1, <3>3, <3>4
  <2>3. ASSUME NEW d \in Device, Push(d) \/ Stop(d) \/ BeginPass(d) \/ EndWorker(d)
                 \/ DropFrame(d) \/ BufferFull(d) \/ RefuseFrame(d) \/ AllSent(d)
               \/ Traffic(d) \/ SendStreamed(d)
                 \/ ReceiveFrame(d) \/ NothingToReceive(d)
        PROVE  network' \subseteq network
    BY <2>3 DEF Push, Stop, BeginPass, EndWorker, DropFrame, BufferFull, RefuseFrame,
                AllSent, Traffic, SendStreamed, ReceiveFrame, NothingToReceive, medium
  <2>4. ASSUME NEW datagram \in network, Arrive(datagram) \/ Disturb(datagram)
        PROVE  network' \subseteq network
    BY <2>4 DEF Arrive, Disturb
  <2>5. ASSUME UNCHANGED vars PROVE network' \subseteq network
    BY <2>5 DEF vars, medium
  <2> QED
    BY <2>1, <2>2, <2>3, <2>4, <2>5 DEF Next, Worker
<1>4. ASSUME NEW d \in Device PROVE \A i \in DOMAIN socket'[d] : Come(d, socket'[d][i])
  <2> DEFINE AllCome == \A i \in DOMAIN socket'[d] : Come(d, socket'[d][i])
  <2>1. ASSUME socket'[d] = socket[d] PROVE AllCome
    BY <1>2, <1>4, <2>1
  <2>2. ASSUME ReceiveFrame(d) PROVE AllCome
    <3>1. socket[d] \in Seq(Frame) /\ socket[d] # <<>> /\ socket'[d] = Tail(socket[d])
      BY <1>2, <1>4, <2>2 DEF ReceiveFrame, TypeOK
    <3>2. \A i \in DOMAIN Tail(socket[d]) : i + 1 \in DOMAIN socket[d]
                                            /\ Tail(socket[d])[i] = socket[d][i + 1]
      BY <3>1, HeadTail
    <3>3. \A i \in DOMAIN Tail(socket[d]) : Come(d, Tail(socket[d])[i])
      BY <1>2, <1>4, <3>2
    <3> QED
      BY <3>1, <3>3
  <2>3. ASSUME NEW datagram \in network, NEW frame, Comes(datagram, frame),
               frame = datagram.frame \/ frame = Garbled(datagram.frame)
        PROVE  AllCome
    <3>1. datagram.frame \in Frame /\ OnTheWay(datagram) /\ datagram.to # datagram.frame.from
      BY <1>1
    <3>2. Come(datagram.to, datagram.frame)
      BY <3>1 DEF OnTheWay, Come
    <3>3. Come(datagram.to, Garbled(datagram.frame))
      <4>1. Garbled(datagram.frame).from = datagram.frame.from /\ Garbled(datagram.frame).number = 0
        BY <3>1, FrameFields
      <4>2. datagram.frame.from \in Device /\ 0 \in 0..pushed'[datagram.frame.from]
        BY <1>0, <3>1 DEF OnTheWay
      <4> QED
        BY <3>1, <4>1, <4>2 DEF Come
    <3>4. frame \in Frame /\ Come(datagram.to, frame)
      BY <2>3, <3>1, <3>2, <3>3, FrameFields
    <3>5. CASE d = datagram.to
      <4>1. socket[d] \in Seq(Frame) /\ socket'[d] = Append(socket[d], frame)
        BY <1>2, <1>4, <2>3, <3>5 DEF Comes, TypeOK
      <4>2. \A i \in DOMAIN Append(socket[d], frame) :
                \/ i \in DOMAIN socket[d] /\ Append(socket[d], frame)[i] = socket[d][i]
                \/ Append(socket[d], frame)[i] = frame
        BY <3>4, <4>1, AppendedAt
      <4>3. \A i \in DOMAIN Append(socket[d], frame) : Come(d, Append(socket[d], frame)[i])
        BY <1>2, <1>4, <3>4, <3>5, <4>2
      <4> QED
        BY <4>1, <4>3
    <3>6. CASE d # datagram.to
      <4>1. socket'[d] = socket[d]
        BY <1>4, <2>3, <3>6 DEF Comes, TypeOK
      <4> QED
        BY <2>1, <4>1
    <3> QED
      BY <3>5, <3>6
  <2>4. ASSUME NEW e \in Device, ReceiveFrame(e), e # d PROVE socket'[d] = socket[d]
    BY <1>4, <2>4 DEF ReceiveFrame, TypeOK
  <2>5. ASSUME NEW e \in Device, Push(e) \/ Stop(e) \/ BeginPass(e) \/ EndWorker(e)
                 \/ SendFrame(e) \/ DropFrame(e) \/ BufferFull(e) \/ RefuseFrame(e) \/ AllSent(e)
               \/ Traffic(e) \/ SendStreamed(e)
                 \/ NothingToReceive(e)
        PROVE  socket'[d] = socket[d]
    BY <2>5 DEF Push, Stop, BeginPass, EndWorker, SendFrame, DropFrame, BufferFull, RefuseFrame,
                AllSent, Traffic, SendStreamed, NothingToReceive, medium
  <2>6. ASSUME NEW datagram \in network, Arrive(datagram) \/ Disturb(datagram) PROVE AllCome
    BY <2>3, <2>6 DEF Arrive, Disturb
  <2>7. ASSUME UNCHANGED vars PROVE socket'[d] = socket[d]
    BY <2>7 DEF vars, medium
  <2> QED
    BY <2>1, <2>2, <2>4, <2>5, <2>6, <2>7 DEF Next, Worker
<1> QED
  BY <1>3, <1>4 DEF Genuine, OnTheWay, Come

-----------------------------------------------------------------------------
(* The worker *)

(* Lemma: only a frame that is too long ends a worker.                       *)
LEMMA DeadStep ==
    ASSUME TypeOK, Bounds, DeadOnlyByLength, [Next]_vars
    PROVE  DeadOnlyByLength'
<1> SUFFICES ASSUME NEW d \in Device, worker'[d] = "dead"
             PROVE  dropped'[d] \cap TooLong[d] # {}
  BY DEF DeadOnlyByLength
<1>1. dropped[d] \subseteq dropped'[d]
  <2>1. QueueStep(d)
    BY Queueing
  <2> QED
    BY <2>1 DEF QueueStep, QueuePush, QueueSend, QueueDrop, QueueBack, QueueSame
<1>2. CASE worker[d] = "dead"
  BY <1>1, <1>2 DEF DeadOnlyByLength
<1>3. CASE worker[d] # "dead"
  <2>0. worker \in [Device -> {"sleeping", "sending", "receiving", "ended", "dead"}]
    BY DEF TypeOK
  <2>1. ASSUME NEW e \in Device, RefuseFrame(e) PROVE dropped'[d] \cap TooLong[d] # {}
    <3>1. e = d
      BY <1>3, <2>0, <2>1 DEF RefuseFrame, Enters
    <3>2. First(d) \in TooLong[d]
      BY <2>1, <3>1 DEF RefuseFrame, Encodable
    <3>3. First(d) \in dropped'[d]
      BY <2>1, <3>1 DEF RefuseFrame, TypeOK
    <3> QED
      BY <3>2, <3>3
  <2>2. ASSUME NEW e \in Device, Push(e) \/ Stop(e) \/ SendFrame(e) \/ DropFrame(e) \/ BufferFull(e)
                                  \/ Traffic(e) \/ SendStreamed(e)
        PROVE  worker' = worker
    BY <2>2 DEF Push, Stop, Traffic, SendStreamed, SendFrame, DropFrame, BufferFull
  <2>3. ASSUME NEW e \in Device, BeginPass(e) \/ EndWorker(e) \/ AllSent(e) \/ ReceiveFrame(e)
                                  \/ NothingToReceive(e)
        PROVE  worker'[d] # "dead"
    BY <1>3, <2>0, <2>3 DEF BeginPass, EndWorker, AllSent, ReceiveFrame, NothingToReceive,
                            AfterSending, AfterException, Enters
  <2>4. ASSUME NEW datagram \in network, Arrive(datagram) \/ Disturb(datagram)
        PROVE  worker' = worker
    BY <2>4 DEF Arrive, Disturb, Comes
  <2>5. ASSUME UNCHANGED vars PROVE worker' = worker
    BY <2>5 DEF vars
  <2> QED
    BY <1>3, <2>1, <2>2, <2>3, <2>4, <2>5 DEF Next, Worker
<1> QED
  BY <1>2, <1>3

-----------------------------------------------------------------------------
(* The invariant holds *)

(* Lemma: it holds at the start.                                             *)
LEMMA UdpInvInit == Init => UdpInv
<1> SUFFICES ASSUME Init PROVE UdpInv
  OBVIOUS
<1> USE DEF Init
<1>0. \A S : <<>> \in Seq(S) /\ DOMAIN <<>> = {}
  OBVIOUS
<1>1. TypeOK
  BY <1>0 DEF TypeOK
<1>2. Bounds
  <2>1. ASSUME NEW d \in Device PROVE 0 <= FrameLimit[d]
    OBVIOUS
  <2> QED
    BY <1>0, <2>1 DEF Bounds
<1>3. Genuine
  BY <1>0 DEF Genuine
<1>4. InOrder
  BY <1>0 DEF InOrder, Overtaken, OvertakenIn
<1>5. Placed
  <2>1. Range(<<>>) = {} /\ IsInjective(<<>>)
    BY <1>0 DEF Range, IsInjective
  <2>2. 1..0 = {}
    OBVIOUS
  <2> QED
    BY <2>1, <2>2 DEF Placed
<1>6. DeadOnlyByLength
  BY DEF DeadOnlyByLength
<1> QED
  BY <1>1, <1>2, <1>3, <1>4, <1>5, <1>6 DEF UdpInv

(* Lemma: every step keeps it.                                               *)
LEMMA UdpInvStep == UdpInv /\ [Next]_vars => UdpInv'
BY TypeStep, BoundsStep, GenuineStep, InOrderStep, PlacedStep, DeadStep DEF UdpInv

(* Theorem: the invariant holds of every state the layers can be in.         *)
THEOREM UdpSafe == Spec => []UdpInv
BY UdpInvInit, UdpInvStep, PTL DEF Spec

-----------------------------------------------------------------------------
(* The properties *)

(* Theorem: the types are right; in particular the counter of errors in a    *)
(* row never reaches the limit at which the worker pauses and forgets them   *)
(* (PhysicalLayerUdp.cpp:133).                                               *)
THEOREM UdpTypeCorrect == Spec => []TypeOK
<1>1. UdpInv => TypeOK
  BY DEF UdpInv
<1> QED
  BY UdpSafe, <1>1, PTL

(* Theorem: neither an error of the socket nor what comes from the network   *)
(* ends a worker, only a frame that its own device has made too long.        *)
THEOREM UdpDeadOnlyByLength == Spec => []DeadOnlyByLength
<1>1. UdpInv => DeadOnlyByLength
  BY DEF UdpInv
<1> QED
  BY UdpSafe, <1>1, PTL

(* Theorem: a frame leaves after a later one only if it met a full buffer,   *)
(* and on the ESP32, which does not put frames back, never.                  *)
THEOREM UdpOvertakenWhenFull == Spec => []OvertakenWhenFull
<1>1. ASSUME TypeOK, InOrder PROVE OvertakenWhenFull
  <2> SUFFICES ASSUME NEW d \in Device, NEW i \in DOMAIN sent[d], NEW j \in DOMAIN sent[d],
                      i < j /\ sent[d][i] > sent[d][j]
               PROVE  sent[d][j] \in requeued[d] /\ PhysicalLayer[d] = "udp"
    BY DEF OvertakenWhenFull
  <2>1. sent[d][j] \in requeued[d]
    BY <1>1 DEF InOrder, OvertakenIn
  <2>2. PhysicalLayer[d] \in {"udp", "esp32"}
    OBVIOUS
  <2> QED
    BY <1>1, <2>1, <2>2 DEF InOrder
<1>2. UdpInv => OvertakenWhenFull
  BY <1>1 DEF UdpInv
<1> QED
  BY UdpSafe, <1>2, PTL

(* Lemma: where an element occurs, in a sequence that has it once or not.    *)
LEMMA OccurrencesOf ==
    ASSUME NEW s, NEW e, IsInjective(s)
    PROVE  /\ e \notin Range(s) => Occurrences(e, s) = {}
           /\ e \in Range(s) => \E i \in DOMAIN s : Occurrences(e, s) = {i}
<1>1. ASSUME e \notin Range(s) PROVE Occurrences(e, s) = {}
  BY <1>1 DEF Range, Occurrences
<1>2. ASSUME e \in Range(s) PROVE \E i \in DOMAIN s : Occurrences(e, s) = {i}
  <2>1. PICK i \in DOMAIN s : s[i] = e
    BY <1>2 DEF Range
  <2>2. Occurrences(e, s) = {i}
    BY <2>1 DEF Occurrences, IsInjective
  <2> QED
    BY <2>2
<1> QED
  BY <1>1, <1>2

(* Theorem: every frame that was pushed waits in the queue, was sent or was  *)
(* given up, and only one of these, and once: what goes back into the queue  *)
(* when a buffer is full is neither lost nor sent twice.                     *)
THEOREM UdpAccounted == Spec => []Accounted
<1>1. ASSUME Placed PROVE Accounted
  <2> SUFFICES ASSUME NEW d \in Device, NEW n \in 1..pushed[d]
               PROVE  LET waits == Occurrences(n, outgoingFrames[d])
                          went  == Occurrences(n, sent[d])
                      IN  \/ n \in dropped[d] /\ waits = {} /\ went = {}
                          \/ n \notin dropped[d] /\ waits = {} /\ \E i \in DOMAIN sent[d] : went = {i}
                          \/ n \notin dropped[d] /\ went = {}
                             /\ \E i \in DOMAIN outgoingFrames[d] : waits = {i}
    BY DEF Accounted
  <2>1. /\ IsInjective(outgoingFrames[d]) /\ IsInjective(sent[d])
        /\ Range(outgoingFrames[d]) \cap Range(sent[d]) = {}
        /\ dropped[d] \cap (Range(outgoingFrames[d]) \cup Range(sent[d])) = {}
        /\ n \in dropped[d] \cup Range(outgoingFrames[d]) \cup Range(sent[d])
    BY <1>1 DEF Placed
  <2>2. /\ n \notin Range(sent[d]) => Occurrences(n, sent[d]) = {}
        /\ n \in Range(sent[d]) => \E i \in DOMAIN sent[d] : Occurrences(n, sent[d]) = {i}
    BY <2>1, OccurrencesOf
  <2>3. /\ n \notin Range(outgoingFrames[d]) => Occurrences(n, outgoingFrames[d]) = {}
        /\ n \in Range(outgoingFrames[d]) =>
               \E i \in DOMAIN outgoingFrames[d] : Occurrences(n, outgoingFrames[d]) = {i}
    BY <2>1, OccurrencesOf
  <2> QED
    BY <2>1, <2>2, <2>3
<1>2. UdpInv => Accounted
  BY <1>1 DEF UdpInv
<1> QED
  BY UdpSafe, <1>2, PTL

-----------------------------------------------------------------------------
(* The service *)

(* Lemma: to push a frame is to post it.                                     *)
LEMMA PushPosts ==
    ASSUME UdpInv, NEW d \in Device, Push(d)
    PROVE  \E frame \in Frame : Service!Post(frame)
<1> DEFINE frame == [from |-> d, number |-> pushed[d] + 1]
<1>1. /\ pushed \in [Device -> Nat] /\ FrameLimit[d] \in Nat /\ pushed[d] < FrameLimit[d]
      /\ pushed' = [pushed EXCEPT ![d] = @ + 1]
  BY DEF UdpInv, TypeOK, Push
<1>2. frame \in Frame /\ frame.from = d /\ frame.number = pushed[d] + 1
  <2>1. pushed[d] + 1 \in 0..FrameLimit[d]
    BY <1>1
  <2> QED
    BY <2>1, FrameMade
<1>3. ASSUME NEW f \in Frame
      PROVE  f.number \in 1..pushed'[f.from] <=> f.number \in 1..pushed[f.from] \/ f = frame
  <2>1. f.from \in Device /\ f.number \in Nat /\ f = [from |-> f.from, number |-> f.number]
    BY FrameFields
  <2>2. CASE f.from # d
    BY <1>1, <1>2, <2>1, <2>2
  <2>3. CASE f.from = d
    <3>1. pushed'[d] = pushed[d] + 1 /\ pushed[d] \in Nat
      BY <1>1
    <3>2. f.number \in 1..(pushed[d] + 1) <=> f.number \in 1..pushed[d] \/ f.number = pushed[d] + 1
      BY <2>1, <3>1
    <3>3. f.number = pushed[d] + 1 <=> f = frame
      BY <2>1, <2>3
    <3> QED
      BY <2>3, <3>1, <3>2, <3>3
  <2> QED
    BY <2>2, <2>3
<1> HIDE DEF frame
<1>4. Posted' = Posted \cup {frame}
  BY <1>2, <1>3 DEF Posted
<1>5. UNCHANGED handedUp
  BY DEF Push
<1> QED
  BY <1>2, <1>4, <1>5 DEF Service!Post

(* Lemma: what a receiver hands up was posted, and by another device.        *)
LEMMA ReceiveDelivers ==
    ASSUME UdpInv, NEW d \in Device, ReceiveFrame(d)
    PROVE  \/ \E frame \in Frame : Service!Deliver(d, frame)
           \/ UNCHANGED <<Posted, handedUp>>
<1> DEFINE frame == Head(socket[d])
<1>1. socket[d] \in Seq(Frame) /\ socket[d] # <<>> /\ handedUp \in [Device -> SUBSET Frame]
  BY DEF UdpInv, TypeOK, ReceiveFrame
<1>2. frame \in Frame /\ frame = socket[d][1] /\ 1 \in DOMAIN socket[d]
  BY <1>1, HeadTail
<1>3. frame.from # d /\ frame.number \in 0..pushed[frame.from]
  BY <1>2 DEF UdpInv, Genuine
<1>4. handedUp' = [handedUp EXCEPT ![d] = @ \cup (IF CrcMatches(frame) THEN {frame} ELSE {})]
  BY DEF ReceiveFrame
<1>5. UNCHANGED Posted
  BY DEF ReceiveFrame, Posted
<1> HIDE DEF frame
<1>6. CASE CrcMatches(frame)
  <2>1. pushed[frame.from] \in Nat
    BY <1>2, FrameFields DEF UdpInv, TypeOK
  <2>2. frame.number \in 1..pushed[frame.from]
    BY <1>3, <1>6, <2>1 DEF CrcMatches
  <2>3. frame \in Posted
    BY <1>2, <2>2 DEF Posted
  <2>4. handedUp' = [handedUp EXCEPT ![d] = @ \cup {frame}]
    BY <1>4, <1>6
  <2>5. Service!Deliver(d, frame)
    BY <1>3, <1>5, <2>3, <2>4 DEF Service!Deliver
  <2> QED
    BY <1>2, <2>5
<1>7. CASE ~CrcMatches(frame)
  BY <1>1, <1>4, <1>5, <1>7
<1> QED
  BY <1>6, <1>7

(* Lemma: every step of the layers and the network is a step of the service  *)
(* or none.                                                                  *)
LEMMA ServiceStep ==
    ASSUME UdpInv, [Next]_vars
    PROVE  [Service!Next]_<<Posted, handedUp>>
<1>1. ASSUME NEW d \in Device, Push(d) PROVE Service!Next
  BY <1>1, PushPosts DEF Service!Next
<1>2. ASSUME NEW d \in Device, ReceiveFrame(d) PROVE [Service!Next]_<<Posted, handedUp>>
  BY <1>2, ReceiveDelivers DEF Service!Next
<1>3. ASSUME NEW d \in Device, Stop(d) \/ BeginPass(d) \/ EndWorker(d) \/ SendFrame(d)
               \/ DropFrame(d) \/ BufferFull(d) \/ RefuseFrame(d) \/ AllSent(d)
               \/ Traffic(d) \/ SendStreamed(d)
               \/ NothingToReceive(d)
      PROVE  UNCHANGED <<pushed, handedUp>>
  BY <1>3 DEF Stop, BeginPass, EndWorker, SendFrame, DropFrame, BufferFull, RefuseFrame,
              AllSent, Traffic, SendStreamed, NothingToReceive, history
<1>4. ASSUME NEW datagram \in network, Arrive(datagram) \/ Disturb(datagram)
      PROVE  UNCHANGED <<pushed, handedUp>>
  BY <1>4 DEF Arrive, Disturb, Comes, history
<1>5. ASSUME UNCHANGED vars PROVE UNCHANGED <<pushed, handedUp>>
  BY <1>5 DEF vars, history
<1>6. ASSUME UNCHANGED <<pushed, handedUp>> PROVE UNCHANGED <<Posted, handedUp>>
  BY <1>6 DEF Posted
<1> QED
  BY <1>1, <1>2, <1>3, <1>4, <1>5, <1>6 DEF Next, Worker

(* Lemma: at the start nothing is posted.                                    *)
LEMMA ServiceInit == Init => Service!Init
<1> SUFFICES ASSUME Init PROVE Service!Init
  OBVIOUS
<1>1. \A frame \in Frame : frame.number \notin 1..pushed[frame.from]
  <2> SUFFICES ASSUME NEW frame \in Frame PROVE frame.number \notin 1..pushed[frame.from]
    OBVIOUS
  <2>1. frame.from \in Device
    BY FrameFields
  <2>2. pushed[frame.from] = 0
    BY <2>1 DEF Init
  <2> QED
    BY <2>2
<1> QED
  BY <1>1 DEF Init, Service!Init, Posted

(* Theorem: the layers and the network implement the service that the        *)
(* session manager takes them for: it is handed nothing that another device  *)
(* has not sent, whatever the network loses, repeats, reorders or damages.   *)
THEOREM UdpCarriesDatagrams == Spec => CarriesDatagrams
BY ServiceInit, ServiceStep, UdpSafe, PTL DEF Spec, CarriesDatagrams, Service!Spec

=============================================================================
