----------------------------- MODULE EminentSdk -----------------------------
(***************************************************************************)
(* The connection protocol of the SDK (Sdk/src/EminentSdk.cpp): connect,   *)
(* the three-way handshake, its timeout, heartbeats, disconnect, shutdown. *)
(*                                                                         *)
(* Every operation and every handler runs under the SDK's recursive mutex  *)
(* and is one action: the application's calls, the handlers that the       *)
(* receive thread enters through onMessageReceived, and one iteration of   *)
(* the heartbeat thread.  The devices are initialized at the start.        *)
(*                                                                         *)
(* The layers below are `wire'.  Any message may be delayed, reordered, by *)
(* never being received lost, and received again: a request because it     *)
(* asks for acknowledgement and is retransmitted, any other because the    *)
(* network may duplicate it, and SessionManager does not remember what it  *)
(* handed up.  No clock is kept: what is due is chosen in the iteration of *)
(* the heartbeat thread that looks at it.                                  *)
(***************************************************************************)
EXTENDS Integers, FiniteSets

CONSTANTS
    Device,          \* the devices
    Listeners,       \* Listeners[d]: who hears the frames of d
    SpecialCode,     \* the codes generateSpecialCode draws from
    MaxConnectionId, \* the largest id validateConnectionId accepts
    Initiators,      \* the devices whose applications call connect
    MaxConnects,     \* bound: calls of connect
    MaxRepeats,      \* bound: receptions after which a message is received again
    MaxBeats         \* bound: heartbeats and answers to them on the wire

ASSUME SdkAssumption ==
    /\ Listeners \in [Device -> SUBSET Device]
    /\ MaxConnectionId \in Nat \ {0}
    /\ Initiators \subseteq Device /\ MaxConnects \in Nat
    /\ MaxRepeats \in Nat /\ MaxBeats \in Nat

ConnectionId == 1..MaxConnectionId

VARIABLES
    connections,       \* connections_
    heartbeats,        \* heartbeats_: "none", or whether a response is awaited
    pendingHandshakes, \* pendingHandshakes_: the initial ids
    nextConnectionId,  \* nextConnectionId_
    shutdownRequested, \* shutdownRequested_; the heartbeat thread has ended
    wire,              \* messages between the devices
    connects,          \* calls of connect so far
    repeats,           \* how often a message stayed, to be received again
    (* What happened, for the properties: *)
    answers,           \* calls of onConnected and onFailure, by initial id
    onConnected,       \* calls of onConnected, by final id
    closed             \* ids of connections that were removed for good

protocolVars == <<connections, heartbeats, pendingHandshakes>>
boundVars    == <<connects, repeats>>
history      == <<answers, onConnected, closed>>
vars == <<protocolVars, nextConnectionId, shutdownRequested, wire, boundVars, history>>

(* `opened' is the id connect chose -- the connection then carries the      *)
(* callbacks given to connect -- or 0 for a connection opened by the peer.  *)
Connection ==
    [status : {"PENDING", "ACCEPTED", "ACTIVE"}, remoteId : Device,
     specialCode : SpecialCode, opened : 0..MaxConnectionId]

NoConnection == [status |-> "NONE"]

Known(d, id)  == connections[d][id] # NoConnection
Active(d, id) == Known(d, id) /\ connections[d][id].status = "ACTIVE"

(* Messages.  `from' is their sender; the deviceId in a payload equals it. *)
Request(d, id, code) ==
    [kind |-> "request", from |-> d, connId |-> id, specialCode |-> code]
\* Mutant of the response: the initiator's prime is echoed.
ResponseEchoesId(d, id, code, newId) ==
    [kind |-> "response", from |-> d, connId |-> id, specialCode |-> code, newId |-> id]
Response(d, id, code, newId) ==
    [kind |-> "response", from |-> d, connId |-> id, specialCode |-> code, newId |-> newId]
FinalConfirmation(d, id, code) ==
    [kind |-> "final", from |-> d, connId |-> id, specialCode |-> code]
Disconnection(d, id) == [kind |-> "DISCONNECT", from |-> d, connId |-> id]
Heartbeat(d, id)     == [kind |-> "HEARTBEAT", from |-> d, connId |-> id]
HeartbeatAck(d, id)  == [kind |-> "HEARTBEAT_ACK", from |-> d, connId |-> id]

(* Everybody who listens gets a copy. *)
Copies(m) == {[to |-> e, body |-> m] : e \in Listeners[m.from]}
CopiesOf(messages) == UNION {Copies(m) : m \in messages}

-----------------------------------------------------------------------------
(* Connection ids: nextPrime tries the candidates from nextConnectionId_ on. *)

IsPrime(n) == n > 1 /\ \A i \in 2..n : i * i <= n => n % i # 0

SamePrimeAgain(p) == p \* mutant: the prime is handed out again
Successor(p) == p + 1

IsNextPrime(d, p) ==
    /\ p \in nextConnectionId[d]..MaxConnectionId
    /\ IsPrime(p)
    /\ \A n \in nextConnectionId[d]..(p - 1) : ~IsPrime(n)

(* The two sides combine their primes; the product must be a valid id. *)
Combined(id, newId) == id * newId
AnyCombination(id, newId) == TRUE \* mutant: the range is not checked
ValidCombination(id, newId) == Combined(id, newId) \in ConnectionId

-----------------------------------------------------------------------------
(* The tables of one device, changed. *)

NothingErased(table, ids) == table \* mutant: the erase is forgotten
Without(table, ids) ==
    [id \in ConnectionId |-> IF id \in ids THEN NoConnection ELSE table[id]]

CopiedNotMoved(beats, from, to) == [beats EXCEPT ![to] = beats[from]] \* mutant
Moved(beats, from, to) ==
    IF beats[from] = "none" THEN beats
    ELSE [beats EXCEPT ![from] = "none", ![to] = beats[from]]

OnlyActiveTimedOut(d, expired) == {id \in expired : Active(d, id)} \* mutant
TimedOut(d, expired) == {id \in expired : Known(d, id) /\ ~Active(d, id)}

-----------------------------------------------------------------------------
Init ==
    /\ connections       = [d \in Device |-> [id \in ConnectionId |-> NoConnection]]
    /\ heartbeats        = [d \in Device |-> [id \in ConnectionId |-> "none"]]
    /\ pendingHandshakes = [d \in Device |-> {}]
    /\ nextConnectionId  = [d \in Device |-> 2]
    /\ shutdownRequested = [d \in Device |-> FALSE]
    /\ wire = {}
    /\ connects = 0
    /\ repeats = 0
    /\ answers       = [d \in Device |-> [id \in ConnectionId |-> 0]]
    /\ onConnected   = [d \in Device |-> [id \in ConnectionId |-> 0]]
    /\ closed        = [d \in Device |-> {}]

(* connect: a PENDING connection under the next prime, a request on the way, *)
(* the heartbeat configuration and the deadline registered.                  *)
Connect(d, target, code, id) ==
    /\ d \in Initiators /\ connects < MaxConnects
    /\ connects' = connects + 1
    /\ IsNextPrime(d, id)
    /\ nextConnectionId' = [nextConnectionId EXCEPT ![d] = Successor(id)]
    /\ connections' = [connections EXCEPT ![d][id] =
           [status |-> "PENDING", remoteId |-> target, specialCode |-> code, opened |-> id]]
    /\ wire' = wire \cup Copies(Request(d, id, code))
    /\ heartbeats' = [heartbeats EXCEPT ![d][id] = "idle"]
    /\ pendingHandshakes' = [pendingHandshakes EXCEPT ![d] = @ \cup {id}]
    /\ UNCHANGED <<shutdownRequested, repeats, history>>

(* disconnect and close: of a connection in any state. *)
Disconnect(d, id) ==
    /\ Known(d, id)
    /\ wire' = wire \cup Copies(Disconnection(d, id))
    /\ heartbeats' = [heartbeats EXCEPT ![d][id] = "none"]
    /\ connections' = [connections EXCEPT ![d] = Without(@, {id})]
    /\ closed' = [closed EXCEPT ![d] = @ \cup {id}]
    /\ UNCHANGED <<pendingHandshakes, nextConnectionId, shutdownRequested, boundVars,
                   answers, onConnected>>

(* shutdown: ends the heartbeat thread, takes leave of the active           *)
(* connections and forgets all; the receive thread goes on.                 *)
Shutdown(d) ==
    /\ ~shutdownRequested[d]
    /\ shutdownRequested' = [shutdownRequested EXCEPT ![d] = TRUE]
    /\ wire' = wire \cup CopiesOf({Disconnection(d, id) :
                                      id \in {i \in ConnectionId : Active(d, i)}})
    /\ connections' = [connections EXCEPT ![d] = Without(@, ConnectionId)]
    /\ heartbeats' = [heartbeats EXCEPT ![d] = [id \in ConnectionId |-> "none"]]
    /\ pendingHandshakes' = [pendingHandshakes EXCEPT ![d] = {}]
    /\ closed' = [closed EXCEPT ![d] = @ \cup {id \in ConnectionId : Known(d, id)}]
    /\ UNCHANGED <<nextConnectionId, boundVars, answers, onConnected>>

-----------------------------------------------------------------------------
(* Handlers.  `replies' is what the receiver puts on the wire; the message   *)
(* may stay there, to be received again.                                     *)

Consume(m, replies) ==
    \/ /\ wire' = (wire \ {m}) \cup CopiesOf(replies)
       /\ UNCHANGED repeats
    \/ /\ repeats < MaxRepeats
       /\ repeats' = repeats + 1
       /\ wire' = wire \cup CopiesOf(replies)

(* handleHandshakeRequest, refused by the application, or out of primes --   *)
(* nextPrime then throws and the receive thread drops the frame.             *)
RefuseRequest(e, m) ==
    /\ m.to = e /\ m.body.kind = "request"
    /\ Consume(m, {})
    /\ UNCHANGED <<protocolVars, nextConnectionId, shutdownRequested, connects, history>>

ActiveAtOnce(request) == \* mutant: the final confirmation is not waited for
    [status |-> "ACTIVE", remoteId |-> request.from,
     specialCode |-> request.specialCode, opened |-> 0]
Accepted(request) ==
    [status |-> "ACCEPTED", remoteId |-> request.from,
     specialCode |-> request.specialCode, opened |-> 0]

(* handleHandshakeRequest, accepted: the combined id is taken whether or not *)
(* the table holds it already.  A product out of range costs the prime.      *)
AcceptRequest(e, m, newId) ==
    LET id == Combined(m.body.connId, newId)
    IN  /\ m.to = e /\ m.body.kind = "request"
        /\ IsNextPrime(e, newId)
        /\ nextConnectionId' = [nextConnectionId EXCEPT ![e] = Successor(newId)]
        /\ \/ /\ ~ValidCombination(m.body.connId, newId)
              /\ Consume(m, {})
              /\ UNCHANGED connections
           \/ /\ ValidCombination(m.body.connId, newId)
              /\ connections' = [connections EXCEPT ![e][id] = Accepted(m.body)]
              /\ Consume(m, {Response(e, m.body.connId, m.body.specialCode, newId)})
        /\ UNCHANGED <<heartbeats, pendingHandshakes, shutdownRequested, connects, history>>

(* handleHandshakeResponse: the connection moves to the combined id and is   *)
(* ACTIVE; its timeout is cancelled, its heartbeat state moves along.  The   *)
(* product is in range: the responder found so before it answered.           *)
HandleResponse(d, m) ==
    LET initial == m.body.connId
        id      == Combined(initial, m.body.newId)
        conn    == connections[d][initial]
    IN  /\ m.to = d /\ m.body.kind = "response"
        /\ Known(d, initial)
        /\ connections' = [connections EXCEPT
               ![d][initial] = NoConnection,
               ![d][id] = [conn EXCEPT !.status = "ACTIVE", !.remoteId = m.body.from,
                                       !.specialCode = m.body.specialCode]]
        /\ pendingHandshakes' = [pendingHandshakes EXCEPT ![d] = @ \ {initial}]
        /\ heartbeats' = [heartbeats EXCEPT ![d] = Moved(@, initial, id)]
        /\ answers' = [answers EXCEPT ![d][conn.opened] = @ + 1]
        /\ onConnected' = [onConnected EXCEPT ![d][id] = @ + 1]
        /\ Consume(m, {FinalConfirmation(d, id, m.body.specialCode)})
        /\ UNCHANGED <<nextConnectionId, shutdownRequested, connects, closed>>

(* handleHandshakeFinalConfirmation: ACTIVE, and the callbacks. *)
HandleFinalConfirmation(e, m) ==
    LET id   == m.body.connId
        conn == connections[e][id]
    IN  /\ m.to = e /\ m.body.kind = "final"
        /\ Known(e, id)
        /\ connections' = [connections EXCEPT ![e][id] =
               [conn EXCEPT !.status = "ACTIVE", !.remoteId = m.body.from,
                            !.specialCode = m.body.specialCode]]
        /\ \/ conn.opened = 0 /\ UNCHANGED <<answers, onConnected>>
           \/ /\ conn.opened # 0
              /\ answers' = [answers EXCEPT ![e][conn.opened] = @ + 1]
              /\ onConnected' = [onConnected EXCEPT ![e][id] = @ + 1]
        /\ Consume(m, {})
        /\ UNCHANGED <<heartbeats, pendingHandshakes, nextConnectionId, shutdownRequested,
                       connects, closed>>

(* handleDisconnectMessage *)
HandleDisconnect(e, m) ==
    LET id == m.body.connId
    IN  /\ m.to = e /\ m.body.kind = "DISCONNECT"
        /\ Known(e, id)
        /\ heartbeats' = [heartbeats EXCEPT ![e][id] = "none"]
        /\ connections' = [connections EXCEPT ![e] = Without(@, {id})]
        /\ closed' = [closed EXCEPT ![e] = @ \cup {id}]
        /\ Consume(m, {})
        /\ UNCHANGED <<pendingHandshakes, nextConnectionId, shutdownRequested, connects,
                       answers, onConnected>>

(* A response, confirmation or DISCONNECT for an unknown id is ignored. *)
IgnoreUnknown(d, m) ==
    /\ m.to = d /\ m.body.kind \in {"response", "final", "DISCONNECT"}
    /\ ~Known(d, m.body.connId)
    /\ Consume(m, {})
    /\ UNCHANGED <<protocolVars, nextConnectionId, shutdownRequested, connects, history>>

(* handleHeartbeat answers for any id, known or not. *)
HandleHeartbeat(e, m) ==
    /\ m.to = e /\ m.body.kind = "HEARTBEAT"
    /\ Consume(m, {HeartbeatAck(e, m.body.connId)})
    /\ UNCHANGED <<protocolVars, nextConnectionId, shutdownRequested, connects, history>>

HandleHeartbeatAck(d, m) ==
    /\ m.to = d /\ m.body.kind = "HEARTBEAT_ACK"
    /\ heartbeats' = [heartbeats EXCEPT ![d][m.body.connId] =
           IF @ = "none" THEN @ ELSE "idle"]
    /\ Consume(m, {})
    /\ UNCHANGED <<connections, pendingHandshakes, nextConnectionId, shutdownRequested,
                   connects, history>>

-----------------------------------------------------------------------------
(* One iteration of heartbeatLoop: checkHandshakeTimeouts for the handshakes *)
(* whose deadline is over, then a heartbeat for every active connection      *)
(* whose interval is over, whether or not the last one was answered.         *)
HeartbeatPass(d, expired, due) ==
    LET timedOut == TimedOut(d, expired)
        finished == {id \in pendingHandshakes[d] : ~Known(d, id) \/ Active(d, id)}
        beating  == {id \in due : Active(d, id)}
    IN  /\ ~shutdownRequested[d]
        /\ pendingHandshakes' =
               [pendingHandshakes EXCEPT ![d] = @ \ (timedOut \cup finished)]
        /\ connections' = [connections EXCEPT ![d] = Without(@, timedOut)]
        /\ heartbeats' = [heartbeats EXCEPT ![d] =
               [id \in ConnectionId |-> IF id \in timedOut THEN "none"
                                        ELSE IF id \in beating THEN "waiting" ELSE @[id]]]
        /\ answers' = [answers EXCEPT ![d] =
               [id \in ConnectionId |-> IF id \in timedOut THEN @[id] + 1 ELSE @[id]]]
        /\ closed' = [closed EXCEPT ![d] = @ \cup timedOut]
        /\ wire' = wire \cup CopiesOf({Heartbeat(d, id) : id \in beating})
        /\ UNCHANGED <<nextConnectionId, shutdownRequested, boundVars, onConnected>>

-----------------------------------------------------------------------------
Application(d) ==
    \/ \E target \in Device \ {d}, code \in SpecialCode, id \in ConnectionId :
          Connect(d, target, code, id)
    \/ \E id \in ConnectionId : Disconnect(d, id)
    \/ Shutdown(d)

Receive(d, m) ==
    \/ RefuseRequest(d, m)
    \/ \E newId \in ConnectionId : AcceptRequest(d, m, newId)
    \/ HandleResponse(d, m)
    \/ HandleFinalConfirmation(d, m)
    \/ HandleDisconnect(d, m)
    \/ IgnoreUnknown(d, m)
    \/ HandleHeartbeat(d, m)
    \/ HandleHeartbeatAck(d, m)

Beats == {m \in wire : m.body.kind \in {"HEARTBEAT", "HEARTBEAT_ACK"}}

HeartbeatThread(d) ==
    LET beating == {id \in ConnectionId : heartbeats[d][id] # "none"}
        room    == MaxBeats - Cardinality(Beats)
    IN  \E expired \in SUBSET pendingHandshakes[d], due \in SUBSET beating :
            /\ due = {} \/ Cardinality(due) <= room
            /\ HeartbeatPass(d, expired, due)

Next ==
    \E d \in Device :
        \/ Application(d)
        \/ HeartbeatThread(d)
        \/ \E m \in wire : Receive(d, m)

Spec == Init /\ [][Next]_vars

(* The heartbeat thread runs every 100 ms and the clock goes on: some        *)
(* iteration finds that every deadline registered so far is over.            *)
FairSpec ==
    Spec /\ \A d \in Device : WF_vars(HeartbeatPass(d, pendingHandshakes[d], {}))

Kinds == {"request", "response", "final", "DISCONNECT", "HEARTBEAT", "HEARTBEAT_ACK"}

(* Moreover every message is received: for the question whether loss alone   *)
(* is to blame.                                                              *)
LosslessSpec ==
    FairSpec /\ \A d \in Device, kind \in Kinds :
        WF_vars(\E m \in wire : m.body.kind = kind /\ Receive(d, m))

-----------------------------------------------------------------------------
(* Properties *)

(* The type invariant. *)
Message ==
    [kind : {"request", "final"}, from : Device, connId : ConnectionId,
     specialCode : SpecialCode]
    \cup [kind : {"response"}, from : Device, connId : ConnectionId,
          specialCode : SpecialCode, newId : ConnectionId]
    \cup [kind : {"DISCONNECT", "HEARTBEAT", "HEARTBEAT_ACK"}, from : Device,
          connId : ConnectionId]

TypeOK ==
    /\ connections \in [Device -> [ConnectionId -> Connection \cup {NoConnection}]]
    /\ heartbeats \in [Device -> [ConnectionId -> {"none", "idle", "waiting"}]]
    /\ pendingHandshakes \in [Device -> SUBSET ConnectionId]
    /\ nextConnectionId \in [Device -> 2..(MaxConnectionId + 1)]
    /\ shutdownRequested \in [Device -> BOOLEAN]
    /\ wire \subseteq [to : Device, body : Message]
    /\ connects \in 0..MaxConnects
    /\ repeats \in 0..MaxRepeats
    /\ answers \in [Device -> [ConnectionId -> Nat]]
    /\ onConnected \in [Device -> [ConnectionId -> Nat]]
    /\ closed \in [Device -> SUBSET ConnectionId]

(* Bookkeeping in three tables agrees: what is PENDING has a deadline and    *)
(* heartbeat state waiting for it, and no heartbeat state outlives its       *)
(* connection -- across timeouts, the move to the combined id, disconnects.  *)
TablesAgree ==
    \A d \in Device, id \in ConnectionId :
        /\ Known(d, id) /\ connections[d][id].status = "PENDING" =>
               id \in pendingHandshakes[d] /\ heartbeats[d][id] = "idle"
        /\ heartbeats[d][id] # "none" => Known(d, id)

(* connect is answered once: a response that crosses the timeout, or a       *)
(* second response to a repeated request, calls neither callback again.      *)
OneAnswer == \A d \in Device, id \in ConnectionId : answers[d][id] <= 1

(* A connection that is active at the device that opened it is known to a    *)
(* device that accepted it, or was closed there.                             *)
ActiveHasPeer ==
    \A d \in Device, id \in ConnectionId :
        Active(d, id) /\ connections[d][id].opened # 0 =>
            \E e \in Device \ {d} : Known(e, id) \/ id \in closed[e]

(* The handshake has three ways: at the device that accepted it a connection *)
(* becomes active only when the one that opened it has been told onConnected.*)
ThreeWay ==
    \A e \in Device, id \in ConnectionId :
        Active(e, id) /\ connections[e][id].opened = 0 =>
            \E d \in Device \ {e} : onConnected[d][id] > 0

(* Two devices that hear only each other and know the same id, past the      *)
(* request, hold the two ends of one connection: one of them opened it, under *)
(* the special code that both have.  Nobody compares the codes: it is the    *)
(* numbers that keep sessions apart, through lost, late and repeated messages *)
(* and connects of both sides -- unless the counters of the two have made    *)
(* the same product in two ways, as in 2 * 3 = 3 * 2; then the ends of two   *)
(* connections may meet.                                                     *)
HearEachOther(d, e) ==
    \A f \in Device : /\ d \in Listeners[f] => f = e
                      /\ e \in Listeners[f] => f = d

Passed(d) == {p \in 1..(nextConnectionId[d] - 1) : IsPrime(p)}

Ways(d, e, id) == {way \in Passed(d) \X Passed(e) : Combined(way[1], way[2]) = id}

TwoWays(d, e, id) == \E v, w \in Ways(d, e, id) : v # w

Past(d, id) == Known(d, id) /\ connections[d][id].status # "PENDING"

SameSession ==
    \A d, e \in Device, id \in ConnectionId :
        d # e /\ HearEachOther(d, e) /\ Past(d, id) /\ Past(e, id) =>
            \/ /\ connections[d][id].specialCode = connections[e][id].specialCode
               /\ connections[d][id].opened = 0 <=> connections[e][id].opened # 0
            \/ TwoWays(d, e, id)

(* A connection that was closed, given up or forgotten is gone for good: no  *)
(* late or repeated message of the handshake brings its id back.             *)
NoResurrection ==
    [][\A d \in Device : \A id \in closed[d] : ~Known(d, id)']_vars

(* Every connect ends: with an answer, or because the application closed the *)
(* connection or shut the SDK down.                                          *)
ConnectAnswered ==
    \A d \in Device, id \in ConnectionId :
        Known(d, id) /\ connections[d][id].status = "PENDING" ~>
            answers[d][id] > 0 \/ id \in closed[d] \/ shutdownRequested[d]

-----------------------------------------------------------------------------
(* What the documentation says and the code does not do. *)

(* Disconnecting is two-sided: while one end of a connection is closed, the  *)
(* other end does not stay active -- not even if nothing is ever lost.       *)
BothDisconnect ==
    \A d, e \in Device, id \in ConnectionId :
        d # e /\ id \in closed[d] /\ Active(e, id) ~> ~Active(e, id)

=============================================================================
