---------------------------- MODULE SdkInvariant ----------------------------
(***************************************************************************)
(* Why the connection protocol keeps what it promises: the inductive       *)
(* invariant of EminentSdk that SdkProofs proves.                          *)
(***************************************************************************)
EXTENDS EminentSdk

(* Who hears whom.  No device hears itself; the devices that open           *)
(* connections do not hear one another.                                     *)
NoEcho     == \A d \in Device : d \notin Listeners[d]
RolesApart == \A d, e \in Initiators : e \notin Listeners[d]

(* The number of a connection tells how far it is: a prime is that of a      *)
(* request which was not answered, and was used by its own counter; a        *)
(* connection that was opened here and has another number is ACTIVE.         *)
IdsInv ==
    /\ \A d \in Device, id \in ConnectionId :
          Known(d, id) =>
             /\ IsPrime(id) =>
                   /\ connections[d][id].status = "PENDING"
                   /\ connections[d][id].opened = id
                   /\ id < nextConnectionId[d]
             /\ ~IsPrime(id) /\ connections[d][id].opened # 0 =>
                   connections[d][id].status = "ACTIVE"
             /\ connections[d][id].opened # 0 => d \in Initiators
    /\ \A d \in Device, id \in ConnectionId : id \in pendingHandshakes[d] => IsPrime(id)

(* What device e entered, it knows or has closed. *)
Entered(e, id) == Known(e, id) \/ id \in closed[e]

(* A message under way says what its sender has done. *)
WireInv ==
    \A c \in wire :
        /\ c.to \in Listeners[c.body.from]
        /\ c.body.kind = "request" =>
              /\ IsPrime(c.body.connId) /\ c.body.from \in Initiators
              /\ c.body.connId < nextConnectionId[c.body.from]
        /\ c.body.kind = "response" =>
              /\ IsPrime(c.body.connId) /\ IsPrime(c.body.newId)
              /\ ValidCombination(c.body.connId, c.body.newId)
              /\ Entered(c.body.from, Combined(c.body.connId, c.body.newId))
        /\ c.body.kind = "final" =>
              /\ ~IsPrime(c.body.connId) /\ c.body.from \in Initiators
              /\ onConnected[c.body.from][c.body.connId] > 0

(* An active connection has its other end at a device that is heard: one     *)
(* that accepted it, or one that was told onConnected.                       *)
PeerInv ==
    \A d \in Device, id \in ConnectionId :
        Active(d, id) =>
            \E e \in Device :
                /\ d \in Listeners[e]
                /\ IF connections[d][id].opened # 0 THEN Entered(e, id)
                                                    ELSE onConnected[e][id] > 0

(* Where the roles are apart: what waits for its answer has had none, no     *)
(* number is answered before it is used, none twice; and what was connected  *)
(* is still there, with the callbacks given to connect, or was closed.       *)
AnswersInv ==
    \A d \in Device, id \in ConnectionId :
        /\ answers[d][id] <= 1
        /\ (Known(d, id) /\ IsPrime(id)) \/ id >= nextConnectionId[d] => answers[d][id] = 0
        /\ onConnected[d][id] > 0 =>
              /\ d \in Initiators /\ ~IsPrime(id)
              /\ (Known(d, id) /\ connections[d][id].opened # 0) \/ id \in closed[d]

(* What tells between d and e of a connection past its request: an entry at  *)
(* either, or a message of the handshake.  It tells of a session by who      *)
(* opened it and its special code.                                           *)
Other(d, e, o) == IF o = d THEN e ELSE d

EntryTells(d, e, y, id) ==
    <<IF connections[y][id].opened # 0 THEN y ELSE Other(d, e, y),
      connections[y][id].specialCode>>

AsksFor(c, id) ==
    c.body.kind = "response" /\ Combined(c.body.connId, c.body.newId) = id
Confirms(c, id) == c.body.kind = "final" /\ c.body.connId = id

MessageTells(d, e, c) ==
    <<IF c.body.kind = "final" THEN c.body.from ELSE Other(d, e, c.body.from),
      c.body.specialCode>>

(* The sessions that are told of under the number id between d and e.        *)
Sessions(d, e, id) ==
    {EntryTells(d, e, y, id) : y \in {x \in {d, e} : Past(x, id)}}
    \cup {MessageTells(d, e, c) :
             c \in {m \in wire : m.body.from \in {d, e} /\ (AsksFor(m, id) \/ Confirms(m, id))}}

(* Between two that hear only each other a number is a product of primes     *)
(* that the counters of both have passed, and all there is under it is of    *)
(* one session, unless it can be made in two ways.                           *)
SessionsInv ==
    \A d, e \in Device :
        d # e /\ HearEachOther(d, e) =>
            \A id \in ConnectionId :
                LET sessions == Sessions(d, e, id)
                IN  /\ sessions # {} => Ways(d, e, id) # {}
                    /\ \A x, y \in sessions : x = y \/ TwoWays(d, e, id)

(* As long as connect was called once, by d under the number p and the       *)
(* special code s: everything there is is of this one connection.            *)
OneSession(d, p, s) ==
    /\ \A e \in Device, id \in ConnectionId :
          Known(e, id) => /\ connections[e][id].specialCode = s
                          /\ connections[e][id].opened # 0 => e = d
    /\ \A c \in wire :
          /\ c.body.kind = "request" => c.body.from = d
          /\ c.body.kind \in {"request", "response"} => c.body.connId = p
          /\ c.body.kind \in {"request", "response", "final"} => c.body.specialCode = s

(* What is closed is gone: the one that accepts has numbered the connection  *)
(* by primes it had not used before, and the other has nothing else as long  *)
(* as it waits.                                                              *)
FreshNumbers(d, p) ==
    /\ \A e \in Device, id \in ConnectionId : id \in closed[e] => ~Known(e, id)
    /\ \A e \in Device \ {d}, id \in ConnectionId :
          Entered(e, id) => \E n \in 1..(nextConnectionId[e] - 1) : id = p * n
    /\ Known(d, p) => \A id \in ConnectionId : Entered(d, id) => id = p

SingleInv ==
    /\ connects = 0 =>
          /\ wire = {}
          /\ \A d \in Device, id \in ConnectionId : ~Entered(d, id)
    /\ connects = 1 =>
          \E d \in Device, p \in ConnectionId, s \in SpecialCode :
              /\ IsPrime(p)
              /\ OneSession(d, p, s)
              /\ NoEcho => FreshNumbers(d, p)

(* All of it: the numbers, the messages, the two ends, the answers, the      *)
(* sessions, and what a single one adds.                                     *)
SdkInv ==
    /\ TypeOK
    /\ TablesAgree
    /\ IdsInv
    /\ WireInv
    /\ PeerInv
    /\ RolesApart => AnswersInv
    /\ SessionsInv
    /\ SingleInv

=============================================================================
