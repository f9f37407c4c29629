-------------------------- MODULE PipelineInvariant --------------------------
(***************************************************************************)
(* The inductive invariant behind the safety of FramePipeline: where the   *)
(* packages of a device are between its session manager and the others,    *)
(* and why none of them gets lost, doubled or overtaken on the medium.     *)
(***************************************************************************)
EXTENDS FramePipeline

(* Workers run from construction to destruction; what a pass took from the   *)
(* medium is there only until it is handed up; who is absent has no queue.   *)
Workers ==
    \A d \in Device :
        /\ Present(d) => codingWorker[d] = "running" /\ physicalWorker[d] # "absent"
        /\ ~Present(d) =>
               /\ physicalWorker[d] = "absent" /\ pushed[d] = 0
               /\ outgoingPackages[d] = <<>>
               /\ outgoingFrames[d] = <<>> /\ framesWithCrc[d] = <<>>
        /\ physicalWorker[d] = "delivering" <=> framesToDeliver[d] # <<>>

(* A frame is as long as its package says.                                   *)
Plain == {f \in Frame : f = Serialized(f.package)}
Coded == {f \in Frame : f = WithCrc(Serialized(f.package))}

Sizes ==
    /\ outgoingFrames \in [Device -> Seq(Plain)]
    /\ framesWithCrc \in [Device -> Seq(Coded)]
    /\ framesToDeliver \in [Device -> Seq(Coded)]
    /\ \A k \in DOMAIN entries : entries[k].frame \in Coded

(* The packages of s that left its queues: numbers up to this one.           *)
Sent(s) == pushed[s] - Queued(s)

Numbered(s, packages, before) ==
    \A k \in DOMAIN packages :
        Current(s, packages[k]) /\ packages[k].number = before + k

(* What is queued are the packages pushed last, in the order of sending.     *)
QueueInOrder(s) ==
    /\ Queued(s) <= pushed[s]
    /\ Numbered(s, Carried(framesWithCrc[s]), Sent(s))
    /\ Numbered(s, Carried(outgoingFrames[s]), Sent(s) + Len(framesWithCrc[s]))
    /\ Numbered(s, outgoingPackages[s], pushed[s] - Len(outgoingPackages[s]))

QueuesInOrder == \A s \in Device : QueueInOrder(s)

NumberOf(k) == entries[k].frame.package.number

(* An entry is its sender's, of its current life.  Of the entries of one     *)
(* sender the later has the greater number, and was taken by nobody who did  *)
(* not take the earlier one: what is erased is always the oldest.            *)
MediumInOrder ==
    /\ \A k \in DOMAIN entries :
        /\ Present(entries[k].senderId)
        /\ entries[k].senderId \notin entries[k].deliveredTo
        /\ Current(entries[k].senderId, entries[k].frame.package)
        /\ NumberOf(k) \in 1..Sent(entries[k].senderId)
    /\ \A i, j \in DOMAIN entries :
        i < j /\ entries[i].senderId = entries[j].senderId =>
            NumberOf(i) < NumberOf(j) /\ entries[j].deliveredTo \subseteq entries[i].deliveredTo

(* Behind an entry come all later packages that its sender has sent.         *)
NoGap ==
    \A k \in DOMAIN entries : physicalWorker[entries[k].senderId] # "stopped" =>
        \A n \in NumberOf(k)..Sent(entries[k].senderId) : \E j \in DOMAIN entries :
            entries[j].senderId = entries[k].senderId /\ NumberOf(j) = n

(* Nothing comes from a life that has not begun.                             *)
PastLives ==
    \A d \in Device :
        /\ \A k \in DOMAIN received[d] : received[d][k].life <= life[received[d][k].from]
        /\ \A k \in DOMAIN framesToDeliver[d] :
               framesToDeliver[d][k].package.life <= life[framesToDeliver[d][k].package.from]

-----------------------------------------------------------------------------
(* What has been handed to d, what its pass holds, and what waits for it.    *)

Handed(s, d)  == {k \in DOMAIN received[d] : Current(s, received[d][k])}
InPass(s, d)  == {k \in DOMAIN framesToDeliver[d] : Current(s, framesToDeliver[d][k].package)}
Waiting(s, d) == {k \in DOMAIN entries : entries[k].senderId = s /\ NewFor(d, entries[k])}

HandedNumber(d, k) == received[d][k].number
PassNumber(d, k)   == framesToDeliver[d][k].package.number

(* The three are in the order of sending.                                    *)
Ascending(s, d) ==
    /\ \A i, j \in Handed(s, d) : i < j => HandedNumber(d, i) < HandedNumber(d, j)
    /\ \A i, j \in InPass(s, d) : i < j => PassNumber(d, i) < PassNumber(d, j)
    /\ \A i \in Handed(s, d), j \in InPass(s, d) : HandedNumber(d, i) < PassNumber(d, j)
    /\ \A i \in Handed(s, d), j \in Waiting(s, d) : HandedNumber(d, i) < NumberOf(j)
    /\ \A i \in InPass(s, d), j \in Waiting(s, d) : PassNumber(d, i) < NumberOf(j)

(* Nothing else is among them than what s sent since d has to get it.        *)
Due(s, d) ==
    /\ firstDue[d][s] <= Sent(s) + 1
    /\ \A k \in Handed(s, d)  : HandedNumber(d, k) \in firstDue[d][s]..Sent(s)
    /\ \A k \in InPass(s, d)  : PassNumber(d, k) \in firstDue[d][s]..Sent(s)
    /\ \A k \in Waiting(s, d) : NumberOf(k) \in firstDue[d][s]..Sent(s)

(* And all of that is among them.                                            *)
Complete(s, d) ==
    \A n \in firstDue[d][s]..Sent(s) :
        \/ \E k \in Handed(s, d)  : HandedNumber(d, k) = n
        \/ \E k \in InPass(s, d)  : PassNumber(d, k) = n
        \/ \E k \in Waiting(s, d) : NumberOf(k) = n

Connected(s, d) ==
    /\ s # d /\ Present(s) /\ Present(d)
    /\ physicalWorker[s] # "stopped" /\ physicalWorker[d] # "stopped"

Account(s, d) == Ascending(s, d) /\ Due(s, d) /\ Complete(s, d)

Accounted == \A s, d \in Device : Connected(s, d) => Account(s, d)

(* The inductive invariant: the types, and all of the above.                 *)
PipelineInv ==
    /\ TypeOK /\ Workers /\ Sizes
    /\ QueuesInOrder /\ MediumInOrder /\ NoGap /\ PastLives
    /\ Accounted

=============================================================================
