------------------------------ MODULE SdkProofs ------------------------------
(***************************************************************************)
(* Theorems about the connection protocol, for any number of devices, of   *)
(* connection ids, of calls of connect and of repeated requests.           *)
(***************************************************************************)
EXTENDS SdkInvariant, TLAPS

-----------------------------------------------------------------------------
(* Numbers *)

(* Lemma: a product is divided by its first factor.                          *)
LEMMA ProductDivides ==
    ASSUME NEW a \in Nat \ {0}, NEW b \in Nat
    PROVE  (a * b) % a = 0
<1> DEFINE q == (a * b) \div a
           r == (a * b) % a
<1>1. a * b \in Nat /\ q \in Int /\ r \in 0..(a - 1) /\ a * b = a * q + r
  OBVIOUS
<1>2. a * (b - q) = r
  BY <1>1
<1>3. CASE b - q >= 1
  BY <1>1, <1>2, <1>3
<1>4. CASE b - q <= -1
  BY <1>1, <1>2, <1>4
<1>5. CASE b - q = 0
  BY <1>1, <1>2, <1>5
<1> QED
  BY <1>1, <1>3, <1>4, <1>5

(* Lemma: multiplication keeps the order.                                    *)
LEMMA ProductOrder ==
    ASSUME NEW a \in Nat \ {0}, NEW b \in Nat \ {0}
    PROVE  /\ a * b \in Nat /\ a <= a * b
           /\ a <= b => a * a <= a * b
OBVIOUS

LEMMA ProductNotPrimeInOrder ==
    ASSUME NEW a \in Nat, NEW b \in Nat, a > 1, a <= b
    PROVE  ~IsPrime(a * b)
<1>1. a * b \in Nat /\ a <= a * b /\ a * a <= a * b
  BY ProductOrder
<1>2. (a * b) % a = 0
  BY ProductDivides
<1>3. a \in 2..(a * b)
  BY <1>1
<1> QED
  BY <1>1, <1>2, <1>3 DEF IsPrime

(* Lemma: what two sides combine is not a number either hands out.           *)
LEMMA CombinedNotPrime ==
    ASSUME NEW a \in ConnectionId, NEW b \in ConnectionId, IsPrime(a), IsPrime(b)
    PROVE  ~IsPrime(Combined(a, b))
<1>1. a \in Nat /\ b \in Nat /\ a > 1 /\ b > 1
  BY SdkAssumption DEF ConnectionId, IsPrime
<1>2. a * b = b * a
  BY <1>1
<1>3. CASE a <= b
  BY <1>1, <1>3, ProductNotPrimeInOrder DEF Combined
<1>4. CASE b <= a
  BY <1>1, <1>2, <1>4, ProductNotPrimeInOrder DEF Combined
<1> QED
  BY <1>1, <1>3, <1>4

(* Lemma: and the combinations with different primes are different.          *)
LEMMA CombinedInjective ==
    ASSUME NEW a \in Nat \ {0}, NEW b \in Nat, NEW c \in Nat, a * b = a * c
    PROVE  b = c
<1>1. CASE b < c
  <2>1. PICK k \in Nat \ {0} : c = b + k
    <3>1. c - b \in Nat \ {0} /\ c = b + (c - b)
      BY <1>1
    <3> QED
      BY <3>1
  <2>2. a * c = a * b + a * k
    BY <2>1
  <2> QED
    BY <2>1, <2>2, ProductOrder
<1>2. CASE c < b
  <2>1. PICK k \in Nat \ {0} : b = c + k
    <3>1. b - c \in Nat \ {0} /\ b = c + (b - c)
      BY <1>2
    <3> QED
      BY <3>1
  <2>2. a * b = a * c + a * k
    BY <2>1
  <2> QED
    BY <2>1, <2>2, ProductOrder
<1> QED
  BY <1>1, <1>2

-----------------------------------------------------------------------------
(* Messages *)

(* Lemma: the messages are messages.                                         *)
LEMMA MessageTypes ==
    ASSUME NEW d \in Device, NEW id \in ConnectionId, NEW newId \in ConnectionId,
           NEW code \in SpecialCode
    PROVE  /\ Request(d, id, code) \in Message
           /\ Response(d, id, code, newId) \in Message
           /\ FinalConfirmation(d, id, code) \in Message
           /\ Disconnection(d, id) \in Message
           /\ Heartbeat(d, id) \in Message
           /\ HeartbeatAck(d, id) \in Message
BY DEF Message, Request, Response, FinalConfirmation, Disconnection, Heartbeat, HeartbeatAck

(* Lemma: what a message is made of.                                         *)
LEMMA MessageFields ==
    ASSUME NEW m \in Message
    PROVE  /\ m.from \in Device /\ m.connId \in ConnectionId
           /\ m.kind \in Kinds
           /\ m.kind \in {"request", "response", "final"} => m.specialCode \in SpecialCode
           /\ m.kind = "response" => m.newId \in ConnectionId
BY DEF Message, Kinds

(* Lemma: copies go to those who listen.                                     *)
LEMMA CopiesAre ==
    ASSUME NEW messages, NEW c \in CopiesOf(messages)
    PROVE  c.body \in messages /\ c.to \in Listeners[c.body.from]
BY DEF CopiesOf, Copies

LEMMA CopiesType ==
    ASSUME NEW messages \in SUBSET Message
    PROVE  CopiesOf(messages) \subseteq [to : Device, body : Message]
<1> SUFFICES ASSUME NEW m \in messages, NEW e \in Listeners[m.from]
             PROVE  [to |-> e, body |-> m] \in [to : Device, body : Message]
  BY DEF CopiesOf, Copies
<1> QED
  BY MessageFields, SdkAssumption

LEMMA CopiesOfOne ==
    ASSUME NEW m \in Message
    PROVE  /\ Copies(m) \subseteq [to : Device, body : Message]
           /\ \A c \in Copies(m) : c.body = m /\ c.to \in Listeners[c.body.from]
<1>1. Listeners[m.from] \subseteq Device
  BY MessageFields, SdkAssumption
<1> QED
  BY <1>1 DEF Copies

-----------------------------------------------------------------------------
(* Type correctness *)

(* Lemma: what a handler does to the wire keeps its type.                    *)
LEMMA ConsumeType ==
    ASSUME TypeOK, NEW m \in wire, NEW replies \in SUBSET Message
    PROVE  Consume(m, replies) =>
               wire' \subseteq [to : Device, body : Message] /\ repeats' \in 0..MaxRepeats
<1>1. wire \subseteq [to : Device, body : Message] /\ repeats \in 0..MaxRepeats
  BY DEF TypeOK
<1>2. CopiesOf(replies) \subseteq [to : Device, body : Message]
  BY CopiesType
<1> QED
  BY <1>1, <1>2, SdkAssumption DEF Consume

(* Lemma: what is on the wire is a message for a device.                     *)
LEMMA OnWire ==
    ASSUME TypeOK, NEW m \in wire
    PROVE  m.to \in Device /\ m.body \in Message
BY DEF TypeOK

(* Lemma: a table from which connections are removed, or into which one is   *)
(* entered, is a table.                                                      *)
LEMMA TableTypes ==
    ASSUME TypeOK, NEW d \in Device
    PROVE  /\ \A ids : Without(connections[d], ids) \in
                          [ConnectionId -> Connection \cup {NoConnection}]
           /\ \A table \in [ConnectionId -> Connection \cup {NoConnection}] :
                 [connections EXCEPT ![d] = table] \in
                    [Device -> [ConnectionId -> Connection \cup {NoConnection}]]
           /\ \A id, conn : conn \in Connection \cup {NoConnection} =>
                 [connections EXCEPT ![d][id] = conn] \in
                    [Device -> [ConnectionId -> Connection \cup {NoConnection}]]
<1>1. connections \in [Device -> [ConnectionId -> Connection \cup {NoConnection}]]
  BY DEF TypeOK
<1> QED
  BY <1>1 DEF Without

(* Lemma: a counter that counts on is a counter.                             *)
LEMMA CounterType ==
    ASSUME NEW f \in [Device -> [ConnectionId -> Nat]], NEW d \in Device, NEW k
    PROVE  [f EXCEPT ![d][k] = @ + 1] \in [Device -> [ConnectionId -> Nat]]
<1>1. [f[d] EXCEPT ![k] = @ + 1] \in [ConnectionId -> Nat]
  <2>1. f[d] \in [ConnectionId -> Nat]
    OBVIOUS
  <2> SUFFICES ASSUME NEW i \in ConnectionId
               PROVE  [f[d] EXCEPT ![k] = @ + 1][i] \in Nat
    BY <2>1
  <2>2. CASE i = k
    BY <2>1, <2>2
  <2>3. CASE i # k
    BY <2>1, <2>3
  <2> QED
    BY <2>2, <2>3
<1> QED
  BY <1>1

(* Lemma: a connection that is known is a connection, also with another      *)
(* status, remote device and code.                                           *)
LEMMA KnownIsConnection ==
    ASSUME TypeOK, NEW d \in Device, NEW id \in ConnectionId, Known(d, id)
    PROVE  /\ connections[d][id] \in Connection
           /\ \A e \in Device, s \in SpecialCode :
                 LET new == [connections[d][id] EXCEPT !.status = "ACTIVE", !.remoteId = e,
                                                       !.specialCode = s]
                 IN  /\ new \in Connection /\ new.status = "ACTIVE" /\ new.specialCode = s
                     /\ new.opened = connections[d][id].opened
                     /\ new # NoConnection
<1>1. connections[d][id] \in Connection
  BY DEF TypeOK, Known
<1> QED
  BY <1>1 DEF Connection, NoConnection

(* Lemma: every step keeps the types.  That a combined id is one is known to *)
(* the receiver of a response because the responder checked it.              *)
LEMMA TypeStep ==
    ASSUME TypeOK, WireInv, [Next]_vars
    PROVE  TypeOK'
<1>1. ASSUME NEW d \in Device, NEW target \in Device \ {d}, NEW code \in SpecialCode,
             NEW id \in ConnectionId, Connect(d, target, code, id)
      PROVE  TypeOK'
  <2>1. connections' \in [Device -> [ConnectionId -> Connection \cup {NoConnection}]]
    <3>1. [status |-> "PENDING", remoteId |-> target, specialCode |-> code, opened |-> id]
             \in Connection
      BY DEF Connection, ConnectionId
    <3> QED
      BY <1>1, <3>1, TableTypes DEF Connect
  <2>2. heartbeats' \in [Device -> [ConnectionId -> {"none", "idle", "waiting"}]]
    BY <1>1 DEF TypeOK, Connect
  <2>3. pendingHandshakes' \in [Device -> SUBSET ConnectionId]
    BY <1>1 DEF TypeOK, Connect
  <2>4. nextConnectionId' \in [Device -> 2..(MaxConnectionId + 1)]
    BY <1>1, SdkAssumption DEF TypeOK, Connect, IsNextPrime, Successor, ConnectionId
  <2>5. wire' \subseteq [to : Device, body : Message]
    BY <1>1, CopiesOfOne, MessageTypes DEF TypeOK, Connect
  <2>6. connects' \in 0..MaxConnects
    BY <1>1, SdkAssumption DEF TypeOK, Connect
  <2> QED
    BY <1>1, <2>1, <2>2, <2>3, <2>4, <2>5, <2>6 DEF TypeOK, Connect, history
<1>2. ASSUME NEW d \in Device, NEW id \in ConnectionId, Disconnect(d, id)
      PROVE  TypeOK'
  <2>1. connections' \in [Device -> [ConnectionId -> Connection \cup {NoConnection}]]
    BY <1>2, TableTypes DEF Disconnect
  <2>2. wire' \subseteq [to : Device, body : Message]
    <3>1. Disconnection(d, id) \in Message
      BY DEF Disconnection, Message
    <3> QED
      BY <1>2, <3>1, CopiesOfOne DEF TypeOK, Disconnect
  <2>3. heartbeats' \in [Device -> [ConnectionId -> {"none", "idle", "waiting"}]]
    BY <1>2 DEF TypeOK, Disconnect
  <2>4. closed' \in [Device -> SUBSET ConnectionId]
    BY <1>2 DEF TypeOK, Disconnect
  <2> QED
    BY <1>2, <2>1, <2>2, <2>3, <2>4 DEF TypeOK, Disconnect, boundVars
<1>3. ASSUME NEW d \in Device, Shutdown(d)
      PROVE  TypeOK'
  <2>1. connections' \in [Device -> [ConnectionId -> Connection \cup {NoConnection}]]
    BY <1>3, TableTypes DEF Shutdown
  <2>2. wire' \subseteq [to : Device, body : Message]
    <3>1. {Disconnection(d, id) : id \in {i \in ConnectionId : Active(d, i)}} \subseteq Message
      BY DEF Disconnection, Message
    <3> QED
      BY <1>3, <3>1, CopiesType DEF TypeOK, Shutdown
  <2> QED
    BY <1>3, <2>1, <2>2 DEF TypeOK, Shutdown, boundVars
<1>4. ASSUME NEW e \in Device, NEW m \in wire, RefuseRequest(e, m)
      PROVE  TypeOK'
  BY <1>4, ConsumeType DEF TypeOK, RefuseRequest, protocolVars, history
<1>5. ASSUME NEW e \in Device, NEW m \in wire, NEW newId \in ConnectionId,
             AcceptRequest(e, m, newId)
      PROVE  TypeOK'
  <2>1. m.body \in Message /\ m.body.kind = "request"
    BY <1>5, OnWire DEF AcceptRequest
  <2>2. m.body.from \in Device /\ m.body.connId \in ConnectionId
        /\ m.body.specialCode \in SpecialCode
    BY <2>1, MessageFields
  <2>3. Accepted(m.body) \in Connection
    BY <2>2, SdkAssumption DEF Accepted, Connection, ConnectionId
  <2>4. connections' \in [Device -> [ConnectionId -> Connection \cup {NoConnection}]]
    <3>1. CASE UNCHANGED connections
      BY <3>1 DEF TypeOK
    <3>2. CASE connections' = [connections EXCEPT
                 ![e][Combined(m.body.connId, newId)] = Accepted(m.body)]
      BY <2>3, <3>2, TableTypes
    <3> QED
      BY <1>5, <3>1, <3>2 DEF AcceptRequest
  <2>5. wire' \subseteq [to : Device, body : Message] /\ repeats' \in 0..MaxRepeats
    <3>1. {Response(e, m.body.connId, m.body.specialCode, newId)} \subseteq Message
      BY <2>2, MessageTypes
    <3> QED
      BY <1>5, <3>1, ConsumeType DEF AcceptRequest
  <2>6. nextConnectionId' \in [Device -> 2..(MaxConnectionId + 1)]
    BY <1>5, SdkAssumption DEF TypeOK, AcceptRequest, IsNextPrime, Successor, ConnectionId
  <2> QED
    BY <1>5, <2>4, <2>5, <2>6 DEF TypeOK, AcceptRequest, history
<1>6. ASSUME NEW d \in Device, NEW m \in wire, HandleResponse(d, m)
      PROVE  TypeOK'
  <2> DEFINE initial == m.body.connId
             id == Combined(m.body.connId, m.body.newId)
             moved == [connections[d][initial] EXCEPT !.status = "ACTIVE",
                          !.remoteId = m.body.from, !.specialCode = m.body.specialCode]
  <2>1. m.body \in Message /\ m.body.kind = "response" /\ Known(d, initial)
    BY <1>6, OnWire DEF HandleResponse
  <2>2. m.body.from \in Device /\ initial \in ConnectionId /\ m.body.newId \in ConnectionId
        /\ m.body.specialCode \in SpecialCode /\ id \in ConnectionId
    BY <2>1, MessageFields DEF WireInv, ValidCombination
  <2>3. moved \in Connection
    BY <2>1, <2>2, KnownIsConnection
  <2>4. connections' = [connections EXCEPT ![d][initial] = NoConnection, ![d][id] = moved]
    BY <1>6 DEF HandleResponse
  <2>5. connections' \in [Device -> [ConnectionId -> Connection \cup {NoConnection}]]
    <3> HIDE DEF initial, id, moved
    <3>1. connections \in [Device -> [ConnectionId -> Connection \cup {NoConnection}]]
      BY DEF TypeOK
    <3> QED
      BY <2>3, <2>4, <3>1
  <2>6. heartbeats' \in [Device -> [ConnectionId -> {"none", "idle", "waiting"}]]
    <3>1. heartbeats \in [Device -> [ConnectionId -> {"none", "idle", "waiting"}]]
      BY DEF TypeOK
    <3>2. Moved(heartbeats[d], initial, id) \in [ConnectionId -> {"none", "idle", "waiting"}]
      <4> HIDE DEF id
      <4> QED
        BY <2>2, <3>1 DEF Moved
    <3> QED
      BY <1>6, <3>1, <3>2 DEF HandleResponse
  <2>7. answers' \in [Device -> [ConnectionId -> Nat]]
        /\ onConnected' \in [Device -> [ConnectionId -> Nat]]
    <3>1. answers \in [Device -> [ConnectionId -> Nat]]
          /\ onConnected \in [Device -> [ConnectionId -> Nat]]
      BY DEF TypeOK
    <3>2. PICK opened : answers' = [answers EXCEPT ![d][opened] = @ + 1]
      BY <1>6 DEF HandleResponse
    <3>3. onConnected' = [onConnected EXCEPT ![d][id] = @ + 1]
      BY <1>6 DEF HandleResponse
    <3> HIDE DEF id
    <3> QED
      BY <3>1, <3>2, <3>3, CounterType
  <2>8. wire' \subseteq [to : Device, body : Message] /\ repeats' \in 0..MaxRepeats
    <3>1. {FinalConfirmation(d, id, m.body.specialCode)} \subseteq Message
      BY <2>2, MessageTypes
    <3> QED
      BY <1>6, <3>1, ConsumeType DEF HandleResponse
  <2>9. pendingHandshakes' \in [Device -> SUBSET ConnectionId]
    BY <1>6 DEF HandleResponse, TypeOK
  <2> QED
    BY <1>6, <2>5, <2>6, <2>7, <2>8, <2>9 DEF TypeOK, HandleResponse
<1>7. ASSUME NEW e \in Device, NEW m \in wire, HandleFinalConfirmation(e, m)
      PROVE  TypeOK'
  <2>1. m.body \in Message /\ m.body.kind = "final" /\ Known(e, m.body.connId)
    BY <1>7, OnWire DEF HandleFinalConfirmation
  <2>2. m.body.from \in Device /\ m.body.connId \in ConnectionId
        /\ m.body.specialCode \in SpecialCode
    BY <2>1, MessageFields
  <2>3. connections' \in [Device -> [ConnectionId -> Connection \cup {NoConnection}]]
    <3>1. [connections[e][m.body.connId] EXCEPT !.status = "ACTIVE", !.remoteId = m.body.from,
              !.specialCode = m.body.specialCode] \in Connection
      BY <2>1, <2>2, KnownIsConnection
    <3> QED
      BY <1>7, <3>1, TableTypes DEF HandleFinalConfirmation
  <2>4. answers' \in [Device -> [ConnectionId -> Nat]]
        /\ onConnected' \in [Device -> [ConnectionId -> Nat]]
    <3>1. answers \in [Device -> [ConnectionId -> Nat]]
          /\ onConnected \in [Device -> [ConnectionId -> Nat]]
      BY DEF TypeOK
    <3>2. CASE UNCHANGED <<answers, onConnected>>
      BY <3>1, <3>2
    <3>3. CASE \E opened : answers' = [answers EXCEPT ![e][opened] = @ + 1]
                 /\ onConnected' = [onConnected EXCEPT ![e][m.body.connId] = @ + 1]
      BY <3>1, <3>3, CounterType
    <3> QED
      BY <1>7, <3>2, <3>3 DEF HandleFinalConfirmation
  <2>5. wire' \subseteq [to : Device, body : Message] /\ repeats' \in 0..MaxRepeats
    BY <1>7, ConsumeType DEF HandleFinalConfirmation
  <2> QED
    BY <1>7, <2>3, <2>4, <2>5 DEF TypeOK, HandleFinalConfirmation
<1>8. ASSUME NEW e \in Device, NEW m \in wire, HandleDisconnect(e, m)
      PROVE  TypeOK'
  <2>1. m.body.connId \in ConnectionId
    BY OnWire, MessageFields
  <2>2. connections' \in [Device -> [ConnectionId -> Connection \cup {NoConnection}]]
    BY <1>8, TableTypes DEF HandleDisconnect
  <2>3. wire' \subseteq [to : Device, body : Message] /\ repeats' \in 0..MaxRepeats
    BY <1>8, ConsumeType DEF HandleDisconnect
  <2>4. heartbeats' \in [Device -> [ConnectionId -> {"none", "idle", "waiting"}]]
    BY <1>8 DEF TypeOK, HandleDisconnect
  <2>5. closed' \in [Device -> SUBSET ConnectionId]
    BY <1>8, <2>1 DEF TypeOK, HandleDisconnect
  <2> QED
    BY <1>8, <2>2, <2>3, <2>4, <2>5 DEF TypeOK, HandleDisconnect
<1>9. ASSUME NEW d \in Device, NEW m \in wire, IgnoreUnknown(d, m)
      PROVE  TypeOK'
  BY <1>9, ConsumeType DEF TypeOK, IgnoreUnknown, protocolVars, history
<1>10. ASSUME NEW e \in Device, NEW m \in wire, HandleHeartbeat(e, m)
       PROVE  TypeOK'
  <2>1. {HeartbeatAck(e, m.body.connId)} \subseteq Message
    BY OnWire, MessageFields DEF HeartbeatAck, Message
  <2> QED
    BY <1>10, <2>1, ConsumeType DEF TypeOK, HandleHeartbeat, protocolVars, history
<1>11. ASSUME NEW d \in Device, NEW m \in wire, HandleHeartbeatAck(d, m)
       PROVE  TypeOK'
  <2>1. heartbeats' \in [Device -> [ConnectionId -> {"none", "idle", "waiting"}]]
    BY <1>11 DEF TypeOK, HandleHeartbeatAck
  <2>2. wire' \subseteq [to : Device, body : Message] /\ repeats' \in 0..MaxRepeats
    BY <1>11, ConsumeType DEF HandleHeartbeatAck
  <2> QED
    BY <1>11, <2>1, <2>2 DEF TypeOK, HandleHeartbeatAck, history
<1>12. ASSUME NEW d \in Device, NEW expired \in SUBSET pendingHandshakes[d],
              NEW due \in SUBSET ConnectionId, HeartbeatPass(d, expired, due)
       PROVE  TypeOK'
  <2>1. TimedOut(d, expired) \subseteq ConnectionId
    BY DEF TypeOK, TimedOut
  <2>2. connections' \in [Device -> [ConnectionId -> Connection \cup {NoConnection}]]
    BY <1>12, TableTypes DEF HeartbeatPass
  <2>3. heartbeats' \in [Device -> [ConnectionId -> {"none", "idle", "waiting"}]]
    BY <1>12 DEF TypeOK, HeartbeatPass
  <2>4. answers' \in [Device -> [ConnectionId -> Nat]]
    BY <1>12 DEF TypeOK, HeartbeatPass
  <2>5. wire' \subseteq [to : Device, body : Message]
    <3>1. {Heartbeat(d, id) : id \in {i \in due : Active(d, i)}} \subseteq Message
      BY DEF Heartbeat, Message
    <3> QED
      BY <1>12, <3>1, CopiesType DEF TypeOK, HeartbeatPass
  <2>6. pendingHandshakes' \in [Device -> SUBSET ConnectionId]
    BY <1>12 DEF TypeOK, HeartbeatPass
  <2>7. closed' \in [Device -> SUBSET ConnectionId]
    BY <1>12, <2>1 DEF TypeOK, HeartbeatPass
  <2> QED
    BY <1>12, <2>2, <2>3, <2>4, <2>5, <2>6, <2>7 DEF TypeOK, HeartbeatPass, boundVars
<1>13. CASE UNCHANGED vars
  BY <1>13 DEF TypeOK, vars, protocolVars, boundVars, history
<1> QED
  BY <1>1, <1>2, <1>3, <1>4, <1>5, <1>6, <1>7, <1>8, <1>9, <1>10, <1>11, <1>12, <1>13
  DEF Next, Application, HeartbeatThread, Receive

-----------------------------------------------------------------------------
(* What a step does to the connections *)

HandshakeKinds == {"request", "response", "final"}

(* Most steps enter no connection: device d removes those of ids, which it   *)
(* knows and notes as closed, calls nothing but onFailure, and says nothing  *)
(* of the handshake.                                                         *)
Removal(d, ids) ==
    /\ \A id \in ids : Known(d, id)
    /\ \A e \in Device, id \in ConnectionId :
          connections'[e][id] = IF e = d /\ id \in ids THEN NoConnection
                                ELSE connections[e][id]
    /\ \A e \in Device : closed'[e] = IF e = d THEN closed[e] \cup ids ELSE closed[e]
    /\ \A e \in Device, id \in ConnectionId :
          answers'[e][id] = answers[e][id]
             \/ /\ answers'[e][id] = answers[e][id] + 1
                /\ e = d /\ id \in ids /\ id \in pendingHandshakes[e]
    /\ \A e \in Device : pendingHandshakes'[e] \subseteq pendingHandshakes[e]
    /\ UNCHANGED <<onConnected, nextConnectionId, connects>>
    /\ \A c \in wire' :
          c \in wire \/ (c.body.kind \notin HandshakeKinds /\ c.to \in Listeners[c.body.from])
    /\ wire' # {} => wire # {} \/ \E e \in Device, id \in ConnectionId : Known(e, id)

(* Lemma: what the wire holds after a message was consumed.                  *)
LEMMA Consumed ==
    ASSUME TypeOK, NEW m \in wire, NEW replies, Consume(m, replies)
    PROVE  \A c \in wire' :
               c \in wire \/ (c.body \in replies /\ c.to \in Listeners[c.body.from])
BY CopiesAre DEF Consume

LEMMA DisconnectRemoves ==
    ASSUME TypeOK, NEW d \in Device, NEW id \in ConnectionId, Disconnect(d, id)
    PROVE  Removal(d, {id})
<1>1. \A e \in Device, i \in ConnectionId :
          connections'[e][i] = IF e = d /\ i \in {id} THEN NoConnection ELSE connections[e][i]
  <2>1. connections \in [Device -> [ConnectionId -> Connection \cup {NoConnection}]]
    BY DEF TypeOK
  <2>2. connections' = [connections EXCEPT ![d] = Without(@, {id})]
    BY DEF Disconnect
  <2> QED
    BY <2>1, <2>2 DEF Without
<1>2. \A e \in Device : closed'[e] = IF e = d THEN closed[e] \cup {id} ELSE closed[e]
  BY DEF TypeOK, Disconnect
<1>3. Disconnection(d, id) \in Message /\ Disconnection(d, id).kind = "DISCONNECT"
  BY DEF Disconnection, Message
<1>4. \A c \in wire' :
          c \in wire \/ (c.body.kind \notin HandshakeKinds /\ c.to \in Listeners[c.body.from])
  BY <1>3, CopiesOfOne DEF Disconnect, HandshakeKinds
<1> QED
  BY <1>1, <1>2, <1>4 DEF Removal, Disconnect, boundVars

LEMMA ShutdownRemoves ==
    ASSUME TypeOK, NEW d \in Device, Shutdown(d)
    PROVE  Removal(d, {id \in ConnectionId : Known(d, id)})
<1> DEFINE known == {id \in ConnectionId : Known(d, id)}
           farewells == {Disconnection(d, id) : id \in {i \in ConnectionId : Active(d, i)}}
<1>1. \A e \in Device, i \in ConnectionId :
          connections'[e][i] = IF e = d /\ i \in known THEN NoConnection ELSE connections[e][i]
  <2>1. connections \in [Device -> [ConnectionId -> Connection \cup {NoConnection}]]
    BY DEF TypeOK
  <2>2. connections' = [connections EXCEPT ![d] = Without(@, ConnectionId)]
    BY DEF Shutdown
  <2> QED
    BY <2>1, <2>2 DEF Without, Known
<1>2. \A e \in Device : closed'[e] = IF e = d THEN closed[e] \cup known ELSE closed[e]
  BY DEF TypeOK, Shutdown
<1>3. \A e \in Device : pendingHandshakes'[e] \subseteq pendingHandshakes[e]
  BY DEF TypeOK, Shutdown
<1>4. wire' = wire \cup CopiesOf(farewells)
  BY DEF Shutdown
<1>5. \A m \in farewells : m.kind = "DISCONNECT"
  BY DEF Disconnection
<1>6. \A c \in wire' :
          c \in wire \/ (c.body.kind \notin HandshakeKinds /\ c.to \in Listeners[c.body.from])
  BY <1>4, <1>5, CopiesAre DEF HandshakeKinds
<1>7. ASSUME wire' # {}, wire = {}
      PROVE  \E e \in Device, id \in ConnectionId : Known(e, id)
  <2>1. PICK c \in CopiesOf(farewells) : TRUE
    BY <1>4, <1>7
  <2>2. c.body \in farewells
    BY <2>1, CopiesAre
  <2> QED
    BY <2>2 DEF Active
<1> QED
  BY <1>1, <1>2, <1>3, <1>6, <1>7 DEF Removal, Shutdown, boundVars

LEMMA HandleDisconnectRemoves ==
    ASSUME TypeOK, NEW e \in Device, NEW m \in wire, HandleDisconnect(e, m)
    PROVE  \E ids \in SUBSET ConnectionId : Removal(e, ids)
<1> DEFINE id == m.body.connId
<1>1. id \in ConnectionId
  BY OnWire, MessageFields
<1>2. \A d \in Device, i \in ConnectionId :
          connections'[d][i] = IF d = e /\ i \in {id} THEN NoConnection ELSE connections[d][i]
  <2>1. connections \in [Device -> [ConnectionId -> Connection \cup {NoConnection}]]
    BY DEF TypeOK
  <2>2. connections' = [connections EXCEPT ![e] = Without(@, {id})]
    BY DEF HandleDisconnect
  <2> QED
    BY <2>1, <2>2 DEF Without
<1>3. \A d \in Device : closed'[d] = IF d = e THEN closed[d] \cup {id} ELSE closed[d]
  BY DEF TypeOK, HandleDisconnect
<1>4. \A c \in wire' : c \in wire
  BY Consumed DEF HandleDisconnect
<1>5. Removal(e, {id})
  BY <1>2, <1>3, <1>4 DEF Removal, HandleDisconnect, boundVars
<1> QED
  BY <1>1, <1>5

LEMMA HeartbeatPassRemoves ==
    ASSUME TypeOK, NEW d \in Device, NEW expired \in SUBSET pendingHandshakes[d],
           NEW due \in SUBSET ConnectionId, HeartbeatPass(d, expired, due)
    PROVE  Removal(d, TimedOut(d, expired))
<1> DEFINE timedOut == TimedOut(d, expired)
           beats == {Heartbeat(d, id) : id \in {i \in due : Active(d, i)}}
<1>1. \A e \in Device, i \in ConnectionId :
          connections'[e][i] = IF e = d /\ i \in timedOut THEN NoConnection
                               ELSE connections[e][i]
  <2>1. connections' = [connections EXCEPT ![d] = Without(@, timedOut)]
    BY DEF HeartbeatPass
  <2>2. connections \in [Device -> [ConnectionId -> Connection \cup {NoConnection}]]
    BY DEF TypeOK
  <2> HIDE DEF timedOut
  <2> QED
    BY <2>1, <2>2 DEF Without
<1>2. \A e \in Device : closed'[e] = IF e = d THEN closed[e] \cup timedOut ELSE closed[e]
  BY DEF TypeOK, HeartbeatPass
<1>3. \A e \in Device : pendingHandshakes'[e] \subseteq pendingHandshakes[e]
  BY DEF TypeOK, HeartbeatPass
<1>4. wire' = wire \cup CopiesOf(beats)
  BY DEF HeartbeatPass
<1>5. \A m \in beats : m.kind = "HEARTBEAT"
  BY DEF Heartbeat
<1>6. \A c \in wire' :
          c \in wire \/ (c.body.kind \notin HandshakeKinds /\ c.to \in Listeners[c.body.from])
  BY <1>4, <1>5, CopiesAre DEF HandshakeKinds
<1>7. ASSUME wire' # {}, wire = {}
      PROVE  \E e \in Device, id \in ConnectionId : Known(e, id)
  <2>1. PICK c \in CopiesOf(beats) : TRUE
    BY <1>4, <1>7
  <2>2. c.body \in beats
    BY <2>1, CopiesAre
  <2> QED
    BY <2>2 DEF Active
<1>8. \A id \in timedOut : Known(d, id) /\ id \in pendingHandshakes[d]
  BY DEF TimedOut
<1>9. \A e \in Device, id \in ConnectionId :
          answers'[e][id] = answers[e][id]
             \/ /\ answers'[e][id] = answers[e][id] + 1
                /\ e = d /\ id \in timedOut /\ id \in pendingHandshakes[e]
  <2> SUFFICES ASSUME NEW e \in Device, NEW id \in ConnectionId, answers'[e][id] # answers[e][id]
               PROVE  /\ answers'[e][id] = answers[e][id] + 1
                      /\ e = d /\ id \in timedOut
    BY <1>8
  <2>1. answers \in [Device -> [ConnectionId -> Nat]]
    BY DEF TypeOK
  <2>2. answers' = [answers EXCEPT ![d] =
              [i \in ConnectionId |-> IF i \in timedOut THEN @[i] + 1 ELSE @[i]]]
    BY DEF HeartbeatPass
  <2> HIDE DEF timedOut
  <2> QED
    BY <2>1, <2>2
<1>10. UNCHANGED <<onConnected, nextConnectionId, connects>>
  BY DEF HeartbeatPass, boundVars
<1>11. \A id \in timedOut : Known(d, id)
  BY <1>8
<1> HIDE DEF timedOut
<1>12. Removal(d, timedOut)
  BY <1>1, <1>2, <1>3, <1>6, <1>7, <1>9, <1>10, <1>11 DEF Removal
<1> QED
  BY <1>12 DEF timedOut

(* Lemma: the messages that change no connection.                            *)
LEMMA NeutralRemoves ==
    ASSUME TypeOK, NEW d \in Device, NEW m \in wire,
           \/ RefuseRequest(d, m) \/ IgnoreUnknown(d, m)
           \/ HandleHeartbeat(d, m) \/ HandleHeartbeatAck(d, m)
    PROVE  Removal(d, {})
<1>1. \A c \in wire' :
          c \in wire \/ (c.body.kind \notin HandshakeKinds /\ c.to \in Listeners[c.body.from])
  <2>1. CASE HandleHeartbeat(d, m)
    <3>1. HeartbeatAck(d, m.body.connId).kind = "HEARTBEAT_ACK"
      BY DEF HeartbeatAck
    <3>2. Consume(m, {HeartbeatAck(d, m.body.connId)})
      BY <2>1 DEF HandleHeartbeat
    <3> QED
      BY <3>1, <3>2, Consumed DEF HandshakeKinds
  <2>2. CASE ~HandleHeartbeat(d, m)
    <3>1. Consume(m, {})
      BY <2>2 DEF RefuseRequest, IgnoreUnknown, HandleHeartbeatAck
    <3> QED
      BY <3>1, Consumed
  <2> QED
    BY <2>1, <2>2
<1>2. UNCHANGED <<connections, pendingHandshakes, nextConnectionId, connects, history>>
  BY DEF RefuseRequest, IgnoreUnknown, HandleHeartbeat, HandleHeartbeatAck, protocolVars,
         boundVars
<1> QED
  BY <1>1, <1>2 DEF Removal, history

(* What connect enters.                                                      *)
Opening(target, code, id) ==
    [status |-> "PENDING", remoteId |-> target, specialCode |-> code, opened |-> id]

(* Lemma: the two ways a connection is entered.                              *)
LEMMA EnteredAre ==
    ASSUME NEW target \in Device, NEW code \in SpecialCode, NEW id \in ConnectionId
    PROVE  /\ Opening(target, code, id) \in Connection
           /\ Opening(target, code, id) # NoConnection
           /\ Opening(target, code, id).status = "PENDING"
           /\ Opening(target, code, id).specialCode = code
           /\ Opening(target, code, id).opened = id
           /\ \A m : /\ Accepted(m) # NoConnection
                     /\ Accepted(m).status = "ACCEPTED"
                     /\ Accepted(m).specialCode = m.specialCode
                     /\ Accepted(m).opened = 0
BY DEF Opening, Accepted, Connection, NoConnection, ConnectionId

(* Lemma: what connect does.                                                 *)
LEMMA ConnectDoes ==
    ASSUME TypeOK, NEW d \in Device, NEW target \in Device \ {d}, NEW code \in SpecialCode,
           NEW id \in ConnectionId, Connect(d, target, code, id)
    PROVE  /\ d \in Initiators /\ connects' = connects + 1
           /\ IsPrime(id) /\ nextConnectionId[d] <= id
           /\ \A e \in Device :
                 nextConnectionId'[e] = IF e = d THEN id + 1 ELSE nextConnectionId[e]
           /\ \A e \in Device, i \in ConnectionId :
                 connections'[e][i] = IF e = d /\ i = id THEN Opening(target, code, id)
                                      ELSE connections[e][i]
           /\ \A e \in Device : pendingHandshakes'[e] \subseteq pendingHandshakes[e] \cup {id}
           /\ UNCHANGED <<answers, onConnected, closed>>
           /\ \A c \in wire' :
                 c \in wire \/ (c.body = Request(d, id, code) /\ c.to \in Listeners[c.body.from])
<1>1. \A e \in Device : nextConnectionId'[e] = IF e = d THEN id + 1 ELSE nextConnectionId[e]
  BY DEF Connect, TypeOK, Successor
<1>2. nextConnectionId[d] <= id
  BY SdkAssumption DEF Connect, IsNextPrime, TypeOK
<1>3. \A e \in Device, i \in ConnectionId :
          connections'[e][i] = IF e = d /\ i = id THEN Opening(target, code, id)
                               ELSE connections[e][i]
  BY DEF Connect, TypeOK, Opening
<1>4. \A e \in Device : pendingHandshakes'[e] \subseteq pendingHandshakes[e] \cup {id}
  BY DEF Connect, TypeOK
<1>5. \A c \in wire' :
          c \in wire \/ (c.body = Request(d, id, code) /\ c.to \in Listeners[c.body.from])
  BY MessageTypes, CopiesOfOne DEF Connect
<1> QED
  BY <1>1, <1>2, <1>3, <1>4, <1>5 DEF Connect, IsNextPrime, history

(* Lemma: what handleHandshakeRequest does; the last is a product that is    *)
(* out of range.                                                             *)
LEMMA AcceptDoes ==
    ASSUME TypeOK, NEW e \in Device, NEW m \in wire, NEW newId \in ConnectionId,
           AcceptRequest(e, m, newId)
    PROVE  /\ m.to = e /\ m.body.kind = "request"
           /\ IsPrime(newId) /\ nextConnectionId[e] <= newId
           /\ \A d \in Device :
                 nextConnectionId'[d] = IF d = e THEN newId + 1 ELSE nextConnectionId[d]
           /\ UNCHANGED <<pendingHandshakes, answers, onConnected, closed, connects>>
           /\ \/ /\ ValidCombination(m.body.connId, newId)
                 /\ \A d \in Device, i \in ConnectionId :
                       connections'[d][i] =
                          IF d = e /\ i = Combined(m.body.connId, newId) THEN Accepted(m.body)
                          ELSE connections[d][i]
                 /\ \A c \in wire' :
                       \/ c \in wire
                       \/ /\ c.body = Response(e, m.body.connId, m.body.specialCode, newId)
                          /\ c.to \in Listeners[c.body.from]
              \/ UNCHANGED connections /\ wire' \subseteq wire
<1>1. \A d \in Device : nextConnectionId'[d] = IF d = e THEN newId + 1 ELSE nextConnectionId[d]
  BY DEF AcceptRequest, TypeOK, Successor
<1>2. nextConnectionId[e] <= newId
  BY SdkAssumption DEF AcceptRequest, IsNextPrime, TypeOK
<1>3. CASE UNCHANGED connections /\ Consume(m, {})
  <2>1. wire' \subseteq wire
    BY <1>3, Consumed
  <2> QED
    BY <1>1, <1>2, <1>3, <2>1 DEF AcceptRequest, IsNextPrime, history
<1>4. CASE /\ ValidCombination(m.body.connId, newId)
           /\ connections' = [connections EXCEPT
                 ![e][Combined(m.body.connId, newId)] = Accepted(m.body)]
           /\ Consume(m, {Response(e, m.body.connId, m.body.specialCode, newId)})
  <2>1. \A d \in Device, i \in ConnectionId :
            connections'[d][i] =
               IF d = e /\ i = Combined(m.body.connId, newId) THEN Accepted(m.body)
               ELSE connections[d][i]
    BY <1>4 DEF TypeOK, ValidCombination
  <2>2. \A c \in wire' :
            \/ c \in wire
            \/ /\ c.body = Response(e, m.body.connId, m.body.specialCode, newId)
               /\ c.to \in Listeners[c.body.from]
    BY <1>4, Consumed
  <2> QED
    BY <1>1, <1>2, <1>4, <2>1, <2>2 DEF AcceptRequest, IsNextPrime, history
<1> QED
  BY <1>3, <1>4 DEF AcceptRequest

(* handleHandshakeResponse at d moves the connection `initial' to `id' ...   *)
Moves(d, m, initial, id, moved) ==
    /\ m.to = d /\ m.body.kind = "response" /\ m.body \in Message
    /\ initial = m.body.connId /\ id = Combined(m.body.connId, m.body.newId)
    /\ initial \in ConnectionId /\ IsPrime(initial) /\ Known(d, initial)
    /\ id \in ConnectionId /\ ~IsPrime(id)
    /\ connections[d][initial].opened = initial
    /\ moved \in Connection /\ moved # NoConnection /\ moved.status = "ACTIVE"
    /\ moved.specialCode = m.body.specialCode /\ moved.opened = initial

(* ... and that is all it does.                                              *)
MovesOnly(d, m, initial, id, moved) ==
    /\ \A e \in Device, i \in ConnectionId :
          /\ connections'[e][i] = IF e = d /\ i = id THEN moved
                                  ELSE IF e = d /\ i = initial THEN NoConnection
                                  ELSE connections[e][i]
          /\ answers'[e][i] = IF e = d /\ i = initial THEN answers[e][i] + 1
                              ELSE answers[e][i]
          /\ onConnected'[e][i] = IF e = d /\ i = id THEN onConnected[e][i] + 1
                                  ELSE onConnected[e][i]
    /\ \A e \in Device : pendingHandshakes'[e] \subseteq pendingHandshakes[e]
    /\ UNCHANGED <<nextConnectionId, connects, closed>>
    /\ \A c \in wire' :
          \/ c \in wire
          \/ /\ c.body = FinalConfirmation(d, id, m.body.specialCode)
             /\ c.to \in Listeners[c.body.from]

(* Lemma: what handleHandshakeResponse does.                                 *)
LEMMA ResponseDoes ==
    ASSUME TypeOK, WireInv, IdsInv, NEW d \in Device, NEW m \in wire, HandleResponse(d, m)
    PROVE  \E initial, id, moved :
               Moves(d, m, initial, id, moved) /\ MovesOnly(d, m, initial, id, moved)
<1>1. PICK initial, id : initial = m.body.connId /\ id = Combined(m.body.connId, m.body.newId)
  OBVIOUS
<1>2. PICK moved : moved = [connections[d][initial] EXCEPT !.status = "ACTIVE",
                               !.remoteId = m.body.from, !.specialCode = m.body.specialCode]
  OBVIOUS
<1>3. m.to = d /\ m.body.kind = "response" /\ m.body \in Message /\ Known(d, initial)
  BY <1>1, OnWire DEF HandleResponse
<1>4. initial \in ConnectionId /\ m.body.newId \in ConnectionId
      /\ IsPrime(initial) /\ IsPrime(m.body.newId) /\ id \in ConnectionId
  BY <1>1, <1>3, MessageFields DEF WireInv, ValidCombination
<1>5. ~IsPrime(id) /\ id # initial
  BY <1>1, <1>4, CombinedNotPrime
<1>6. connections[d][initial].opened = initial
  BY <1>3, <1>4 DEF IdsInv
<1>7. moved \in Connection /\ moved # NoConnection /\ moved.status = "ACTIVE"
      /\ moved.specialCode = m.body.specialCode /\ moved.opened = initial
  <2>1. connections[d][initial] \in Connection
    BY <1>3, <1>4, KnownIsConnection
  <2>2. m.body.from \in Device /\ m.body.specialCode \in SpecialCode
    BY <1>3, MessageFields
  <2> QED
    BY <1>2, <1>6, <2>1, <2>2 DEF Connection, NoConnection
<1>8. \A e \in Device, i \in ConnectionId :
          connections'[e][i] = IF e = d /\ i = id THEN moved
                               ELSE IF e = d /\ i = initial THEN NoConnection
                               ELSE connections[e][i]
  <2>1. connections' = [connections EXCEPT ![d][initial] = NoConnection, ![d][id] = moved]
    BY <1>1, <1>2 DEF HandleResponse
  <2>2. connections \in [Device -> [ConnectionId -> Connection \cup {NoConnection}]]
    BY DEF TypeOK
  <2> QED
    BY <1>4, <1>5, <2>1, <2>2
<1>9. \A e \in Device : pendingHandshakes'[e] \subseteq pendingHandshakes[e]
  BY DEF HandleResponse, TypeOK
<1>10. \A e \in Device, i \in ConnectionId :
           /\ answers'[e][i] = IF e = d /\ i = initial THEN answers[e][i] + 1
                               ELSE answers[e][i]
           /\ onConnected'[e][i] = IF e = d /\ i = id THEN onConnected[e][i] + 1
                                   ELSE onConnected[e][i]
  <2>1. /\ answers \in [Device -> [ConnectionId -> Nat]]
        /\ onConnected \in [Device -> [ConnectionId -> Nat]]
    BY DEF TypeOK
  <2>2. /\ answers' = [answers EXCEPT ![d][initial] = @ + 1]
        /\ onConnected' = [onConnected EXCEPT ![d][id] = @ + 1]
    BY <1>1, <1>6 DEF HandleResponse
  <2> QED
    BY <1>4, <2>1, <2>2
<1>11. \A c \in wire' :
           \/ c \in wire
           \/ /\ c.body = FinalConfirmation(d, id, m.body.specialCode)
              /\ c.to \in Listeners[c.body.from]
  BY <1>1, Consumed DEF HandleResponse
<1>12. UNCHANGED <<nextConnectionId, connects, closed>>
  BY DEF HandleResponse, boundVars
<1>13. Moves(d, m, initial, id, moved)
  BY <1>1, <1>3, <1>4, <1>5, <1>6, <1>7 DEF Moves
<1>14. MovesOnly(d, m, initial, id, moved)
  BY <1>8, <1>9, <1>10, <1>11, <1>12 DEF MovesOnly
<1> QED
  BY <1>13, <1>14

(* handleHandshakeFinalConfirmation at e makes a connection ACTIVE; if it    *)
(* was opened here the application is told.                                  *)
Activates(e, m, id, new) ==
    /\ m.to = e /\ m.body.kind = "final" /\ m.body \in Message
    /\ id = m.body.connId /\ id \in ConnectionId /\ ~IsPrime(id) /\ Known(e, id)
    /\ new \in Connection /\ new # NoConnection /\ new.status = "ACTIVE"
    /\ new.specialCode = m.body.specialCode /\ new.opened = connections[e][id].opened
    /\ \A d \in Device, i \in ConnectionId :
          connections'[d][i] = IF d = e /\ i = id THEN new ELSE connections[d][i]
    /\ \/ new.opened = 0 /\ UNCHANGED <<answers, onConnected>>
       \/ /\ new.opened # 0
          /\ \A d \in Device, i \in ConnectionId :
                onConnected'[d][i] = IF d = e /\ i = id THEN onConnected[d][i] + 1
                                     ELSE onConnected[d][i]
    /\ UNCHANGED <<pendingHandshakes, nextConnectionId, connects, closed>>
    /\ wire' \subseteq wire

(* Lemma: what handleHandshakeFinalConfirmation does.                        *)
LEMMA FinalDoes ==
    ASSUME TypeOK, WireInv, NEW e \in Device, NEW m \in wire, HandleFinalConfirmation(e, m)
    PROVE  \E id, new : Activates(e, m, id, new)
<1>1. PICK id : id = m.body.connId
  OBVIOUS
<1>2. PICK new : new = [connections[e][id] EXCEPT !.status = "ACTIVE",
                           !.remoteId = m.body.from, !.specialCode = m.body.specialCode]
  OBVIOUS
<1>3. m.to = e /\ m.body.kind = "final" /\ m.body \in Message /\ Known(e, id)
  BY <1>1, OnWire DEF HandleFinalConfirmation
<1>4. id \in ConnectionId /\ ~IsPrime(id)
  BY <1>1, <1>3, MessageFields DEF WireInv
<1>5. new \in Connection /\ new # NoConnection /\ new.status = "ACTIVE"
      /\ new.specialCode = m.body.specialCode /\ new.opened = connections[e][id].opened
  <2>1. connections[e][id] \in Connection
    BY <1>3, <1>4, KnownIsConnection
  <2>2. m.body.from \in Device /\ m.body.specialCode \in SpecialCode
    BY <1>3, MessageFields
  <2> QED
    BY <1>2, <2>1, <2>2 DEF Connection, NoConnection
<1>6. \A d \in Device, i \in ConnectionId :
          connections'[d][i] = IF d = e /\ i = id THEN new ELSE connections[d][i]
  <2>1. connections' = [connections EXCEPT ![e][id] = new]
    BY <1>1, <1>2 DEF HandleFinalConfirmation
  <2>2. connections \in [Device -> [ConnectionId -> Connection \cup {NoConnection}]]
    BY DEF TypeOK
  <2> QED
    BY <1>4, <2>1, <2>2
<1>7. \/ new.opened = 0 /\ UNCHANGED <<answers, onConnected>>
      \/ /\ new.opened # 0
         /\ \A d \in Device, i \in ConnectionId :
               onConnected'[d][i] = IF d = e /\ i = id THEN onConnected[d][i] + 1
                                    ELSE onConnected[d][i]
  <2>1. onConnected \in [Device -> [ConnectionId -> Nat]]
    BY DEF TypeOK
  <2>2. \/ connections[e][id].opened = 0 /\ UNCHANGED <<answers, onConnected>>
        \/ /\ connections[e][id].opened # 0
           /\ onConnected' = [onConnected EXCEPT ![e][id] = @ + 1]
    BY <1>1 DEF HandleFinalConfirmation
  <2> QED
    BY <1>4, <1>5, <2>1, <2>2
<1>8. UNCHANGED <<pendingHandshakes, nextConnectionId, connects, closed>> /\ wire' \subseteq wire
  <2>1. UNCHANGED <<pendingHandshakes, nextConnectionId, connects, closed>> /\ Consume(m, {})
    BY DEF HandleFinalConfirmation, boundVars
  <2> QED
    BY <2>1, Consumed
<1>9. Activates(e, m, id, new)
  BY <1>1, <1>3, <1>4, <1>5, <1>6, <1>7, <1>8 DEF Activates
<1> QED
  BY <1>9

(* Lemma: the steps there are.                                               *)
LEMMA StepShapes ==
    ASSUME TypeOK, [Next]_vars
    PROVE  \/ UNCHANGED vars
           \/ \E d \in Device : \E ids \in SUBSET ConnectionId : Removal(d, ids)
           \/ \E d \in Device, code \in SpecialCode, id \in ConnectionId :
                 \E target \in Device \ {d} : Connect(d, target, code, id)
           \/ \E e \in Device, m \in wire, newId \in ConnectionId : AcceptRequest(e, m, newId)
           \/ \E d \in Device, m \in wire :
                 HandleResponse(d, m) \/ HandleFinalConfirmation(d, m)
<1>1. ASSUME NEW d \in Device, Application(d)
      PROVE  \/ \E ids \in SUBSET ConnectionId : Removal(d, ids)
             \/ \E code \in SpecialCode, id \in ConnectionId, target \in Device \ {d} :
                   Connect(d, target, code, id)
  BY <1>1, DisconnectRemoves, ShutdownRemoves DEF Application
<1>2. ASSUME NEW d \in Device, HeartbeatThread(d)
      PROVE  \E ids \in SUBSET ConnectionId : Removal(d, ids)
  <2>1. PICK expired \in SUBSET pendingHandshakes[d], due \in SUBSET ConnectionId :
            HeartbeatPass(d, expired, due)
    BY <1>2 DEF HeartbeatThread
  <2>2. TimedOut(d, expired) \in SUBSET ConnectionId
    BY DEF TypeOK, TimedOut
  <2> QED
    BY <2>1, <2>2, HeartbeatPassRemoves
<1>3. ASSUME NEW d \in Device, NEW m \in wire, Receive(d, m)
      PROVE  \/ \E ids \in SUBSET ConnectionId : Removal(d, ids)
             \/ \E newId \in ConnectionId : AcceptRequest(d, m, newId)
             \/ HandleResponse(d, m) \/ HandleFinalConfirmation(d, m)
  BY <1>3, NeutralRemoves, HandleDisconnectRemoves DEF Receive
<1> QED
  BY <1>1, <1>2, <1>3 DEF Next

-----------------------------------------------------------------------------
(* The three tables *)

(* The agreement, for one connection.                                        *)
RowsAgree(x, i) ==
    /\ Known(x, i) /\ connections[x][i].status = "PENDING" =>
          i \in pendingHandshakes[x] /\ heartbeats[x][i] = "idle"
    /\ heartbeats[x][i] # "none" => Known(x, i)

(* Lemma: every step keeps the agreement of the tables.                      *)
LEMMA TablesStep ==
    ASSUME TypeOK, WireInv, IdsInv, TablesAgree, [Next]_vars
    PROVE  TablesAgree'
<1> SUFFICES ASSUME NEW x \in Device, NEW i \in ConnectionId
             PROVE  RowsAgree(x, i)'
  BY DEF TablesAgree, RowsAgree
<1>0. /\ RowsAgree(x, i)
      /\ pendingHandshakes \in [Device -> SUBSET ConnectionId]
      /\ heartbeats \in [Device -> [ConnectionId -> {"none", "idle", "waiting"}]]
      /\ connections \in [Device -> [ConnectionId -> Connection \cup {NoConnection}]]
  BY DEF TablesAgree, RowsAgree, TypeOK
<1>1. ASSUME NEW d \in Device, NEW target \in Device \ {d}, NEW code \in SpecialCode,
             NEW id \in ConnectionId, Connect(d, target, code, id)
      PROVE  RowsAgree(x, i)'
  <2>1. connections'[x][i] = IF x = d /\ i = id THEN Opening(target, code, id)
                             ELSE connections[x][i]
    BY <1>1, ConnectDoes
  <2>2. heartbeats'[x][i] = IF x = d /\ i = id THEN "idle" ELSE heartbeats[x][i]
    BY <1>0, <1>1 DEF Connect
  <2>3. pendingHandshakes'[x] = IF x = d THEN pendingHandshakes[x] \cup {id}
                                ELSE pendingHandshakes[x]
    BY <1>0, <1>1 DEF Connect
  <2>4. Opening(target, code, id) # NoConnection
    BY EnteredAre
  <2>5. CASE x = d /\ i = id
    BY <2>1, <2>2, <2>3, <2>4, <2>5 DEF Known, RowsAgree
  <2>6. CASE ~(x = d /\ i = id)
    BY <1>0, <2>1, <2>2, <2>3, <2>6 DEF Known, RowsAgree
  <2> QED
    BY <2>5, <2>6
<1>2. ASSUME NEW d \in Device, NEW id \in ConnectionId, Disconnect(d, id)
      PROVE  RowsAgree(x, i)'
  <2>1. connections'[x][i] = IF x = d /\ i = id THEN NoConnection ELSE connections[x][i]
    BY <1>0, <1>2 DEF Disconnect, Without
  <2>2. heartbeats'[x][i] = IF x = d /\ i = id THEN "none" ELSE heartbeats[x][i]
    BY <1>0, <1>2 DEF Disconnect
  <2>3. UNCHANGED pendingHandshakes
    BY <1>2 DEF Disconnect
  <2> QED
    BY <1>0, <2>1, <2>2, <2>3 DEF RowsAgree, Known
<1>3. ASSUME NEW d \in Device, Shutdown(d)
      PROVE  RowsAgree(x, i)'
  <2>1. connections'[x][i] = IF x = d THEN NoConnection ELSE connections[x][i]
    BY <1>0, <1>3 DEF Shutdown, Without
  <2>2. heartbeats'[x][i] = IF x = d THEN "none" ELSE heartbeats[x][i]
    BY <1>0, <1>3 DEF Shutdown
  <2>3. pendingHandshakes'[x] = IF x = d THEN {} ELSE pendingHandshakes[x]
    BY <1>0, <1>3 DEF Shutdown
  <2> QED
    BY <1>0, <2>1, <2>2, <2>3 DEF RowsAgree, Known
<1>4. ASSUME NEW d \in Device, NEW m \in wire,
             RefuseRequest(d, m) \/ IgnoreUnknown(d, m) \/ HandleHeartbeat(d, m)
      PROVE  RowsAgree(x, i)'
  BY <1>0, <1>4 DEF RefuseRequest, IgnoreUnknown, HandleHeartbeat, protocolVars, RowsAgree, Known
<1>5. ASSUME NEW e \in Device, NEW m \in wire, NEW newId \in ConnectionId,
             AcceptRequest(e, m, newId)
      PROVE  RowsAgree(x, i)'
  <2>1. \/ connections'[x][i] = connections[x][i]
        \/ connections'[x][i] = Accepted(m.body)
    BY <1>5, AcceptDoes
  <2>2. UNCHANGED <<heartbeats, pendingHandshakes>>
    BY <1>5 DEF AcceptRequest
  <2>3. Accepted(m.body) # NoConnection /\ Accepted(m.body).status = "ACCEPTED"
    BY DEF Accepted, NoConnection
  <2> QED
    BY <1>0, <2>1, <2>2, <2>3 DEF RowsAgree, Known
<1>6. ASSUME NEW d \in Device, NEW m \in wire, HandleResponse(d, m)
      PROVE  RowsAgree(x, i)'
  <2>1. PICK initial, id, moved :
            Moves(d, m, initial, id, moved) /\ MovesOnly(d, m, initial, id, moved)
    BY <1>6, ResponseDoes
  <2>2. initial = m.body.connId /\ id = Combined(m.body.connId, m.body.newId)
    BY <2>1 DEF Moves
  <2>3. /\ initial \in ConnectionId /\ id \in ConnectionId /\ initial # id /\ Known(d, initial)
        /\ connections'[x][i] = IF x = d /\ i = id THEN moved
                                ELSE IF x = d /\ i = initial THEN NoConnection
                                ELSE connections[x][i]
    BY <2>1 DEF Moves, MovesOnly
  <2>4. moved # NoConnection /\ moved.status = "ACTIVE"
    BY <2>1 DEF Moves
  <2>5. heartbeats'[x] = IF x = d THEN Moved(heartbeats[x], initial, id) ELSE heartbeats[x]
    BY <1>0, <1>6, <2>2 DEF HandleResponse
  <2>6. pendingHandshakes'[x] = IF x = d THEN pendingHandshakes[x] \ {initial}
                                ELSE pendingHandshakes[x]
    BY <1>0, <1>6, <2>2 DEF HandleResponse
  <2>7. CASE x # d
    BY <1>0, <2>3, <2>5, <2>6, <2>7 DEF RowsAgree, Known
  <2>8. CASE x = d /\ i = id
    BY <2>3, <2>4, <2>8 DEF RowsAgree, Known
  <2>9. CASE x = d /\ i # id
    <3>1. heartbeats'[x][i] = IF i = initial THEN "none" ELSE heartbeats[x][i]
      BY <1>0, <2>3, <2>5, <2>9 DEF Moved
    <3> QED
      BY <1>0, <2>3, <2>6, <2>9, <3>1 DEF RowsAgree, Known
  <2> QED
    BY <2>7, <2>8, <2>9
<1>7. ASSUME NEW e \in Device, NEW m \in wire, HandleFinalConfirmation(e, m)
      PROVE  RowsAgree(x, i)'
  <2>1. PICK id, new : Activates(e, m, id, new)
    BY <1>7, FinalDoes
  <2>2. connections'[x][i] = IF x = e /\ i = id THEN new ELSE connections[x][i]
    BY <2>1 DEF Activates
  <2>3. new # NoConnection /\ new.status = "ACTIVE"
    BY <2>1 DEF Activates
  <2>4. UNCHANGED <<heartbeats, pendingHandshakes>>
    BY <1>7 DEF HandleFinalConfirmation
  <2> QED
    BY <1>0, <2>2, <2>3, <2>4 DEF RowsAgree, Known
<1>8. ASSUME NEW e \in Device, NEW m \in wire, HandleDisconnect(e, m)
      PROVE  RowsAgree(x, i)'
  <2>1. PICK id : id = m.body.connId
    OBVIOUS
  <2>2. connections'[x][i] = IF x = e /\ i = id THEN NoConnection ELSE connections[x][i]
    BY <1>0, <1>8, <2>1 DEF HandleDisconnect, Without
  <2>3. heartbeats'[x][i] = IF x = e /\ i = id THEN "none" ELSE heartbeats[x][i]
    BY <1>0, <1>8, <2>1 DEF HandleDisconnect
  <2>4. UNCHANGED pendingHandshakes
    BY <1>8 DEF HandleDisconnect
  <2> QED
    BY <1>0, <2>2, <2>3, <2>4 DEF RowsAgree, Known
<1>9. ASSUME NEW d \in Device, NEW m \in wire, HandleHeartbeatAck(d, m)
      PROVE  RowsAgree(x, i)'
  <2>1. heartbeats'[x][i] = heartbeats[x][i]
        \/ (heartbeats[x][i] # "none" /\ heartbeats'[x][i] = "idle")
    BY <1>0, <1>9 DEF HandleHeartbeatAck
  <2>2. UNCHANGED <<connections, pendingHandshakes>>
    BY <1>9 DEF HandleHeartbeatAck
  <2> QED
    BY <1>0, <2>1, <2>2 DEF RowsAgree, Known
<1>10. ASSUME NEW d \in Device, NEW expired \in SUBSET pendingHandshakes[d],
              NEW due \in SUBSET ConnectionId, HeartbeatPass(d, expired, due)
       PROVE  RowsAgree(x, i)'
  <2>1. PICK timedOut : timedOut = TimedOut(d, expired)
    OBVIOUS
  <2>2. PICK beating : beating = {id \in due : Active(d, id)}
    OBVIOUS
  <2>3. connections'[x][i] = IF x = d /\ i \in timedOut THEN NoConnection
                             ELSE connections[x][i]
    BY <1>0, <1>10, <2>1 DEF HeartbeatPass, Without
  <2>4. heartbeats'[x][i] = IF x = d /\ i \in timedOut THEN "none"
                            ELSE IF x = d /\ i \in beating THEN "waiting"
                            ELSE heartbeats[x][i]
    BY <1>0, <1>10, <2>1, <2>2 DEF HeartbeatPass
  <2>5. \/ pendingHandshakes'[x] = pendingHandshakes[x]
        \/ x = d /\ pendingHandshakes'[x] = pendingHandshakes[x] \ (timedOut \cup
               {id \in pendingHandshakes[d] : ~Known(d, id) \/ Active(d, id)})
    BY <1>0, <1>10, <2>1 DEF HeartbeatPass
  <2>6. i \in beating => Active(d, i)
    BY <2>2
  <2> QED
    BY <1>0, <2>3, <2>4, <2>5, <2>6 DEF RowsAgree, Known, Active
<1>11. CASE UNCHANGED vars
  BY <1>0, <1>11 DEF vars, protocolVars, RowsAgree, Known
<1> QED
  BY <1>1, <1>2, <1>3, <1>4, <1>5, <1>6, <1>7, <1>8, <1>9, <1>10, <1>11
  DEF Next, Application, HeartbeatThread, Receive

-----------------------------------------------------------------------------
(* Numbers and messages *)

(* IdsInv for one number of one device.                                      *)
RowIds(x, i) ==
    /\ Known(x, i) =>
          /\ IsPrime(i) =>
                /\ connections[x][i].status = "PENDING"
                /\ connections[x][i].opened = i
                /\ i < nextConnectionId[x]
          /\ ~IsPrime(i) /\ connections[x][i].opened # 0 =>
                connections[x][i].status = "ACTIVE"
          /\ connections[x][i].opened # 0 => x \in Initiators
    /\ i \in pendingHandshakes[x] => IsPrime(i)

(* Lemma: every step keeps what the numbers say.                             *)
LEMMA IdsStep ==
    ASSUME TypeOK, IdsInv, WireInv, [Next]_vars
    PROVE  IdsInv'
<1> SUFFICES ASSUME NEW x \in Device, NEW i \in ConnectionId
             PROVE  RowIds(x, i)'
  BY DEF IdsInv, RowIds
<1>0. RowIds(x, i) /\ nextConnectionId[x] \in Int /\ i \in Int
  BY SdkAssumption DEF IdsInv, RowIds, TypeOK, ConnectionId
<1>1. ASSUME NEW d \in Device, NEW ids \in SUBSET ConnectionId, Removal(d, ids)
      PROVE  RowIds(x, i)'
  <2>1. connections'[x][i] = NoConnection \/ connections'[x][i] = connections[x][i]
    BY <1>1 DEF Removal
  <2>2. nextConnectionId'[x] = nextConnectionId[x]
        /\ pendingHandshakes'[x] \subseteq pendingHandshakes[x]
    BY <1>1 DEF Removal
  <2> QED
    BY <1>0, <2>1, <2>2 DEF RowIds, Known
<1>2. ASSUME NEW d \in Device, NEW target \in Device \ {d}, NEW code \in SpecialCode,
             NEW id \in ConnectionId, Connect(d, target, code, id)
      PROVE  RowIds(x, i)'
  <2>1. /\ d \in Initiators /\ IsPrime(id) /\ nextConnectionId[d] <= id
        /\ nextConnectionId'[x] = IF x = d THEN id + 1 ELSE nextConnectionId[x]
        /\ connections'[x][i] = IF x = d /\ i = id THEN Opening(target, code, id)
                                ELSE connections[x][i]
        /\ pendingHandshakes'[x] \subseteq pendingHandshakes[x] \cup {id}
    BY <1>2, ConnectDoes
  <2>2. CASE x = d /\ i = id
    <3>1. /\ Opening(target, code, id).status = "PENDING"
          /\ Opening(target, code, id).opened = id
      BY EnteredAre
    <3> QED
      BY <1>0, <2>1, <2>2, <3>1 DEF RowIds, Known
  <2>3. CASE ~(x = d /\ i = id)
    <3>1. connections'[x][i] = connections[x][i] /\ nextConnectionId[x] <= nextConnectionId'[x]
          /\ nextConnectionId'[x] \in Int
      BY <1>0, <2>1, <2>3, SdkAssumption DEF ConnectionId
    <3>2. i \in pendingHandshakes'[x] => IsPrime(i)
      BY <1>0, <2>1 DEF RowIds
    <3> QED
      BY <1>0, <3>1, <3>2 DEF RowIds, Known
  <2> QED
    BY <2>2, <2>3
<1>3. ASSUME NEW e \in Device, NEW m \in wire, NEW newId \in ConnectionId,
             AcceptRequest(e, m, newId)
      PROVE  RowIds(x, i)'
  <2>1. nextConnectionId[x] <= nextConnectionId'[x] /\ nextConnectionId'[x] \in Int
        /\ UNCHANGED pendingHandshakes
    <3>1. /\ nextConnectionId[e] <= newId /\ UNCHANGED pendingHandshakes
          /\ nextConnectionId'[x] = IF x = e THEN newId + 1 ELSE nextConnectionId[x]
      BY <1>3, AcceptDoes
    <3> QED
      BY <1>0, <3>1, SdkAssumption DEF ConnectionId
  <2>2. CASE connections'[x][i] = connections[x][i]
    BY <1>0, <2>1, <2>2 DEF RowIds, Known
  <2>3. CASE connections'[x][i] # connections[x][i]
    <3>1. i = Combined(m.body.connId, newId) /\ connections'[x][i] = Accepted(m.body)
      BY <1>3, <2>3, AcceptDoes
    <3>2. m.body.kind = "request" /\ IsPrime(newId)
      BY <1>3, AcceptDoes
    <3>3. m.body.connId \in ConnectionId /\ IsPrime(m.body.connId)
      BY <3>2, OnWire, MessageFields DEF WireInv
    <3>4. ~IsPrime(i)
      BY <3>1, <3>2, <3>3, CombinedNotPrime
    <3>5. Accepted(m.body).opened = 0
      BY DEF Accepted
    <3> QED
      BY <1>0, <2>1, <3>1, <3>4, <3>5 DEF RowIds
  <2> QED
    BY <2>2, <2>3
<1>4. ASSUME NEW d \in Device, NEW m \in wire, HandleResponse(d, m)
      PROVE  RowIds(x, i)'
  <2>1. PICK initial, id, moved :
            Moves(d, m, initial, id, moved) /\ MovesOnly(d, m, initial, id, moved)
    BY <1>4, ResponseDoes
  <2>2. /\ connections'[x][i] = IF x = d /\ i = id THEN moved
                                ELSE IF x = d /\ i = initial THEN NoConnection
                                ELSE connections[x][i]
        /\ nextConnectionId'[x] = nextConnectionId[x]
        /\ pendingHandshakes'[x] \subseteq pendingHandshakes[x]
    BY <2>1 DEF MovesOnly
  <2>3. d \in Initiators
    <3>1. /\ Known(d, initial) /\ initial \in ConnectionId
          /\ connections[d][initial].opened = initial /\ initial # 0
      BY <2>1 DEF Moves, ConnectionId
    <3> QED
      BY <3>1 DEF IdsInv
  <2>4. ~IsPrime(id) /\ moved.status = "ACTIVE"
    BY <2>1 DEF Moves
  <2> QED
    BY <1>0, <2>2, <2>3, <2>4 DEF RowIds, Known
<1>5. ASSUME NEW e \in Device, NEW m \in wire, HandleFinalConfirmation(e, m)
      PROVE  RowIds(x, i)'
  <2>1. PICK id, new : Activates(e, m, id, new)
    BY <1>5, FinalDoes
  <2>2. /\ connections'[x][i] = IF x = e /\ i = id THEN new ELSE connections[x][i]
        /\ nextConnectionId'[x] = nextConnectionId[x]
        /\ pendingHandshakes'[x] = pendingHandshakes[x]
    BY <2>1 DEF Activates
  <2>3. ~IsPrime(id) /\ new.status = "ACTIVE" /\ Known(e, id)
        /\ new.opened = connections[e][id].opened
    BY <2>1 DEF Activates
  <2> QED
    BY <1>0, <2>2, <2>3 DEF RowIds, Known
<1>6. CASE UNCHANGED vars
  BY <1>0, <1>6 DEF vars, protocolVars, RowIds, Known
<1> QED
  BY <1>1, <1>2, <1>3, <1>4, <1>5, <1>6, StepShapes

(* Lemma: what was entered stays entered: it is never forgotten but closed.  *)
LEMMA EnteredStays ==
    ASSUME TypeOK, IdsInv, WireInv, [Next]_vars,
           NEW x \in Device, NEW i \in ConnectionId, ~IsPrime(i), Entered(x, i)
    PROVE  Entered(x, i)'
<1>1. ASSUME NEW d \in Device, NEW ids \in SUBSET ConnectionId, Removal(d, ids)
      PROVE  Entered(x, i)'
  <2>1. /\ connections'[x][i] = IF x = d /\ i \in ids THEN NoConnection ELSE connections[x][i]
        /\ closed'[x] = IF x = d THEN closed[x] \cup ids ELSE closed[x]
    BY <1>1 DEF Removal
  <2> QED
    BY <2>1 DEF Entered, Known
<1>2. ASSUME NEW d \in Device, NEW target \in Device \ {d}, NEW code \in SpecialCode,
             NEW id \in ConnectionId, Connect(d, target, code, id)
      PROVE  Entered(x, i)'
  <2>1. /\ connections'[x][i] = IF x = d /\ i = id THEN Opening(target, code, id)
                                ELSE connections[x][i]
        /\ UNCHANGED closed
    BY <1>2, ConnectDoes
  <2>2. Opening(target, code, id) # NoConnection
    BY EnteredAre
  <2> QED
    BY <2>1, <2>2 DEF Entered, Known
<1>3. ASSUME NEW e \in Device, NEW m \in wire, NEW newId \in ConnectionId,
             AcceptRequest(e, m, newId)
      PROVE  Entered(x, i)'
  <2>1. /\ \/ connections'[x][i] = connections[x][i]
           \/ connections'[x][i] = Accepted(m.body)
        /\ UNCHANGED closed
    BY <1>3, AcceptDoes
  <2>2. Accepted(m.body) # NoConnection
    BY DEF Accepted, NoConnection
  <2> QED
    BY <2>1, <2>2 DEF Entered, Known
<1>4. ASSUME NEW d \in Device, NEW m \in wire, HandleResponse(d, m)
      PROVE  Entered(x, i)'
  <2>1. PICK initial, id, moved :
            Moves(d, m, initial, id, moved) /\ MovesOnly(d, m, initial, id, moved)
    BY <1>4, ResponseDoes
  <2>2. /\ connections'[x][i] = IF x = d /\ i = id THEN moved
                                ELSE IF x = d /\ i = initial THEN NoConnection
                                ELSE connections[x][i]
        /\ UNCHANGED closed
    BY <2>1 DEF MovesOnly
  <2>3. IsPrime(initial) /\ moved # NoConnection
    BY <2>1 DEF Moves
  <2> QED
    BY <2>2, <2>3 DEF Entered, Known
<1>5. ASSUME NEW e \in Device, NEW m \in wire, HandleFinalConfirmation(e, m)
      PROVE  Entered(x, i)'
  <2>1. PICK id, new : Activates(e, m, id, new)
    BY <1>5, FinalDoes
  <2>2. /\ connections'[x][i] = IF x = e /\ i = id THEN new ELSE connections[x][i]
        /\ UNCHANGED closed /\ new # NoConnection
    BY <2>1 DEF Activates
  <2> QED
    BY <2>2 DEF Entered, Known
<1>6. CASE UNCHANGED vars
  BY <1>6 DEF vars, protocolVars, history, Entered, Known
<1> QED
  BY <1>1, <1>2, <1>3, <1>4, <1>5, <1>6, StepShapes

(* Lemma: what onConnected was called for it was called for.                 *)
LEMMA OnConnectedStays ==
    ASSUME TypeOK, IdsInv, WireInv, [Next]_vars,
           NEW x \in Device, NEW i \in ConnectionId, onConnected[x][i] > 0
    PROVE  onConnected'[x][i] > 0
<1>1. onConnected[x][i] \in Nat
  BY DEF TypeOK
<1>2. ASSUME NEW d \in Device, NEW ids \in SUBSET ConnectionId, Removal(d, ids)
      PROVE  UNCHANGED onConnected
  BY <1>2 DEF Removal
<1>3. ASSUME NEW d \in Device, NEW target \in Device \ {d}, NEW code \in SpecialCode,
             NEW id \in ConnectionId, Connect(d, target, code, id)
      PROVE  UNCHANGED onConnected
  BY <1>3 DEF Connect, history
<1>4. ASSUME NEW e \in Device, NEW m \in wire, NEW newId \in ConnectionId,
             AcceptRequest(e, m, newId)
      PROVE  UNCHANGED onConnected
  BY <1>4 DEF AcceptRequest, history
<1>5. ASSUME NEW d \in Device, NEW m \in wire, HandleResponse(d, m)
      PROVE  onConnected'[x][i] > 0
  <2>1. PICK initial, id, moved : MovesOnly(d, m, initial, id, moved)
    BY <1>5, ResponseDoes
  <2> QED
    BY <1>1, <2>1 DEF MovesOnly
<1>6. ASSUME NEW e \in Device, NEW m \in wire, HandleFinalConfirmation(e, m)
      PROVE  onConnected'[x][i] > 0
  <2>1. PICK id, new : Activates(e, m, id, new)
    BY <1>6, FinalDoes
  <2> QED
    BY <1>1, <2>1 DEF Activates
<1>7. CASE UNCHANGED vars
  BY <1>7 DEF vars, history
<1> QED
  BY <1>2, <1>3, <1>4, <1>5, <1>6, <1>7, StepShapes

(* Lemma: no counter goes back.                                              *)
LEMMA CountersGrow ==
    ASSUME TypeOK, IdsInv, WireInv, [Next]_vars, NEW x \in Device
    PROVE  /\ nextConnectionId[x] \in Int /\ nextConnectionId'[x] \in Int
           /\ nextConnectionId[x] <= nextConnectionId'[x]
<1>0. nextConnectionId[x] \in Int
  BY SdkAssumption DEF TypeOK
<1>1. ASSUME NEW d \in Device, NEW target \in Device \ {d}, NEW code \in SpecialCode,
             NEW id \in ConnectionId, Connect(d, target, code, id)
      PROVE  nextConnectionId'[x] \in Int /\ nextConnectionId[x] <= nextConnectionId'[x]
  <2>1. /\ nextConnectionId[d] <= id
        /\ nextConnectionId'[x] = IF x = d THEN id + 1 ELSE nextConnectionId[x]
    BY <1>1, ConnectDoes
  <2> QED
    BY <1>0, <2>1, SdkAssumption DEF ConnectionId
<1>2. ASSUME NEW e \in Device, NEW m \in wire, NEW newId \in ConnectionId,
             AcceptRequest(e, m, newId)
      PROVE  nextConnectionId'[x] \in Int /\ nextConnectionId[x] <= nextConnectionId'[x]
  <2>1. /\ nextConnectionId[e] <= newId
        /\ nextConnectionId'[x] = IF x = e THEN newId + 1 ELSE nextConnectionId[x]
    BY <1>2, AcceptDoes
  <2> QED
    BY <1>0, <2>1, SdkAssumption DEF ConnectionId
<1>3. ASSUME NEW d \in Device, NEW ids \in SUBSET ConnectionId, Removal(d, ids)
      PROVE  UNCHANGED nextConnectionId
  BY <1>3 DEF Removal
<1>4. ASSUME NEW d \in Device, NEW m \in wire,
             HandleResponse(d, m) \/ HandleFinalConfirmation(d, m)
      PROVE  UNCHANGED nextConnectionId
  BY <1>4 DEF HandleResponse, HandleFinalConfirmation
<1>5. ASSUME UNCHANGED vars PROVE UNCHANGED nextConnectionId
  BY <1>5 DEF vars
<1> QED
  BY <1>0, <1>1, <1>2, <1>3, <1>4, <1>5, StepShapes

(* WireInv for one message under way.                                        *)
CopyTells(c) ==
    /\ c.to \in Listeners[c.body.from]
    /\ c.body.kind = "request" =>
          /\ IsPrime(c.body.connId) /\ c.body.from \in Initiators
          /\ c.body.connId < nextConnectionId[c.body.from]
    /\ c.body.kind = "response" =>
          /\ IsPrime(c.body.connId) /\ IsPrime(c.body.newId)
          /\ ValidCombination(c.body.connId, c.body.newId)
          /\ Entered(c.body.from, Combined(c.body.connId, c.body.newId))
    /\ c.body.kind = "final" =>
          /\ ~IsPrime(c.body.connId) /\ c.body.from \in Initiators
          /\ onConnected[c.body.from][c.body.connId] > 0

(* Lemma: what a message under way told stays true.                          *)
LEMMA OldCopiesTell ==
    ASSUME TypeOK, IdsInv, WireInv, [Next]_vars, NEW c \in wire
    PROVE  CopyTells(c)'
<1>1. CopyTells(c) /\ c.body \in Message
  BY OnWire DEF WireInv, CopyTells
<1>2. c.body.from \in Device /\ c.body.connId \in ConnectionId
  BY <1>1, MessageFields
<1>3. CASE c.body.kind = "response"
  <2>1. c.body.newId \in ConnectionId
    BY <1>1, <1>3, MessageFields
  <2>2. PICK id : id = Combined(c.body.connId, c.body.newId)
    OBVIOUS
  <2>3. id \in ConnectionId /\ ~IsPrime(id) /\ Entered(c.body.from, id)
    BY <1>1, <1>2, <1>3, <2>1, <2>2, CombinedNotPrime DEF CopyTells, ValidCombination
  <2>4. Entered(c.body.from, id)'
    BY <1>2, <2>3, EnteredStays
  <2> QED
    BY <1>1, <1>3, <2>2, <2>4 DEF CopyTells, Entered, Known
<1>4. CASE c.body.kind = "final"
  <2>1. onConnected'[c.body.from][c.body.connId] > 0
    BY <1>1, <1>2, <1>4, OnConnectedStays DEF CopyTells
  <2> QED
    BY <1>1, <1>4, <2>1 DEF CopyTells
<1>5. CASE c.body.kind = "request"
  <2>1. nextConnectionId[c.body.from] <= nextConnectionId'[c.body.from]
        /\ nextConnectionId[c.body.from] \in Int /\ nextConnectionId'[c.body.from] \in Int
    BY <1>2, CountersGrow
  <2>2. c.body.connId \in Int
    BY <1>2, SdkAssumption DEF ConnectionId
  <2> QED
    BY <1>1, <1>5, <2>1, <2>2 DEF CopyTells
<1> QED
  BY <1>1, <1>3, <1>4, <1>5 DEF CopyTells

(* Lemma: every step keeps what the messages tell.                           *)
LEMMA WireStep ==
    ASSUME TypeOK, IdsInv, WireInv, [Next]_vars
    PROVE  WireInv'
<1> SUFFICES ASSUME NEW c \in wire'
             PROVE  CopyTells(c)'
  BY DEF WireInv, CopyTells
<1>0. c \in wire => CopyTells(c)'
  BY OldCopiesTell
<1>1. ASSUME NEW d \in Device, NEW ids \in SUBSET ConnectionId, Removal(d, ids)
      PROVE  CopyTells(c)'
  <2>1. c \in wire \/ (c.body.kind \notin HandshakeKinds /\ c.to \in Listeners[c.body.from])
    BY <1>1 DEF Removal
  <2> QED
    BY <1>0, <2>1 DEF HandshakeKinds, CopyTells
<1>2. ASSUME NEW d \in Device, NEW target \in Device \ {d}, NEW code \in SpecialCode,
             NEW id \in ConnectionId, Connect(d, target, code, id)
      PROVE  CopyTells(c)'
  <2>1. /\ c \in wire \/ (c.body = Request(d, id, code) /\ c.to \in Listeners[c.body.from])
        /\ d \in Initiators /\ IsPrime(id) /\ nextConnectionId'[d] = id + 1
    BY <1>2, ConnectDoes
  <2>2. id < id + 1
    BY SdkAssumption DEF ConnectionId
  <2> QED
    BY <1>0, <2>1, <2>2 DEF Request, CopyTells
<1>3. ASSUME NEW e \in Device, NEW m \in wire, NEW newId \in ConnectionId,
             AcceptRequest(e, m, newId), c \notin wire
      PROVE  CopyTells(c)'
  <2>1. /\ m.body.kind = "request" /\ IsPrime(newId)
        /\ ValidCombination(m.body.connId, newId)
        /\ \A d \in Device, i \in ConnectionId :
              connections'[d][i] =
                 IF d = e /\ i = Combined(m.body.connId, newId) THEN Accepted(m.body)
                 ELSE connections[d][i]
        /\ c.body = Response(e, m.body.connId, m.body.specialCode, newId)
        /\ c.to \in Listeners[c.body.from]
    BY <1>3, AcceptDoes
  <2>2. IsPrime(m.body.connId)
    BY <2>1 DEF WireInv
  <2>3. PICK id : id = Combined(m.body.connId, newId)
    OBVIOUS
  <2>4. Accepted(m.body) # NoConnection /\ id \in ConnectionId
    BY <2>1, <2>3 DEF Accepted, NoConnection, ValidCombination
  <2>5. Known(e, id)'
    BY <2>1, <2>3, <2>4 DEF Known
  <2> QED
    BY <2>1, <2>2, <2>3, <2>5 DEF Response, CopyTells, Entered, Known
<1>4. ASSUME NEW d \in Device, NEW m \in wire, HandleResponse(d, m), c \notin wire
      PROVE  CopyTells(c)'
  <2>1. PICK initial, id, moved :
            Moves(d, m, initial, id, moved) /\ MovesOnly(d, m, initial, id, moved)
    BY <1>4, ResponseDoes
  <2>2. /\ onConnected'[d][id] = onConnected[d][id] + 1
        /\ c.body = FinalConfirmation(d, id, m.body.specialCode)
        /\ c.to \in Listeners[c.body.from]
    BY <1>4, <2>1 DEF Moves, MovesOnly
  <2>3. d \in Initiators
    <3>1. /\ Known(d, initial) /\ initial \in ConnectionId
          /\ connections[d][initial].opened = initial /\ initial # 0
      BY <2>1 DEF Moves, ConnectionId
    <3> QED
      BY <3>1 DEF IdsInv
  <2>4. onConnected[d][id] \in Nat /\ ~IsPrime(id)
    BY <2>1 DEF TypeOK, Moves
  <2> QED
    BY <2>2, <2>3, <2>4 DEF FinalConfirmation, CopyTells
<1>5. ASSUME NEW e \in Device, NEW m \in wire, HandleFinalConfirmation(e, m)
      PROVE  CopyTells(c)'
  <2>1. PICK id, new : Activates(e, m, id, new)
    BY <1>5, FinalDoes
  <2> QED
    BY <1>0, <2>1 DEF Activates
<1>6. CASE UNCHANGED vars
  BY <1>0, <1>6 DEF vars
<1> QED
  BY <1>0, <1>1, <1>2, <1>3, <1>4, <1>5, <1>6, StepShapes

-----------------------------------------------------------------------------
(* The other end *)

(* PeerInv for one connection.                                               *)
HasPeer(x, i) ==
    \E e \in Device :
        /\ x \in Listeners[e]
        /\ IF connections[x][i].opened # 0 THEN Entered(e, i) ELSE onConnected[e][i] > 0

(* Lemma: an active connection that does not change keeps its other end.     *)
LEMMA PeerStays ==
    ASSUME TypeOK, IdsInv, WireInv, PeerInv, [Next]_vars,
           NEW x \in Device, NEW i \in ConnectionId, Active(x, i),
           connections'[x][i].opened = connections[x][i].opened
    PROVE  HasPeer(x, i)'
<1>1. PICK e \in Device :
          /\ x \in Listeners[e]
          /\ IF connections[x][i].opened # 0 THEN Entered(e, i) ELSE onConnected[e][i] > 0
  BY DEF PeerInv
<1>2. ~IsPrime(i)
  BY DEF IdsInv, Active
<1>3. IF connections[x][i].opened # 0 THEN Entered(e, i)' ELSE onConnected'[e][i] > 0
  BY <1>1, <1>2, EnteredStays, OnConnectedStays
<1> QED
  BY <1>1, <1>3 DEF HasPeer, Entered, Known

(* Lemma: every active connection has its other end after every step.        *)
LEMMA PeerStep ==
    ASSUME TypeOK, IdsInv, WireInv, PeerInv, [Next]_vars
    PROVE  PeerInv'
<1> SUFFICES ASSUME NEW x \in Device, NEW i \in ConnectionId, Active(x, i)'
             PROVE  HasPeer(x, i)'
  BY DEF PeerInv, HasPeer
<1>0. CASE connections'[x][i] = connections[x][i]
  BY <1>0, PeerStays DEF Active, Known
<1>1. ASSUME NEW d \in Device, NEW ids \in SUBSET ConnectionId, Removal(d, ids)
      PROVE  HasPeer(x, i)'
  <2>1. connections'[x][i] = NoConnection \/ connections'[x][i] = connections[x][i]
    BY <1>1 DEF Removal
  <2> QED
    BY <1>0, <2>1 DEF Active, Known
<1>2. ASSUME NEW d \in Device, NEW target \in Device \ {d}, NEW code \in SpecialCode,
             NEW id \in ConnectionId, Connect(d, target, code, id)
      PROVE  HasPeer(x, i)'
  <2>1. \/ connections'[x][i] = Opening(target, code, id)
        \/ connections'[x][i] = connections[x][i]
    BY <1>2, ConnectDoes
  <2>2. Opening(target, code, id).status = "PENDING"
    BY EnteredAre
  <2> QED
    BY <1>0, <2>1, <2>2 DEF Active
<1>3. ASSUME NEW e \in Device, NEW m \in wire, NEW newId \in ConnectionId,
             AcceptRequest(e, m, newId)
      PROVE  HasPeer(x, i)'
  <2>1. connections'[x][i] = Accepted(m.body) \/ connections'[x][i] = connections[x][i]
    BY <1>3, AcceptDoes
  <2>2. Accepted(m.body).status = "ACCEPTED"
    BY DEF Accepted
  <2> QED
    BY <1>0, <2>1, <2>2 DEF Active
<1>4. ASSUME NEW d \in Device, NEW m \in wire, HandleResponse(d, m),
             connections'[x][i] # connections[x][i]
      PROVE  HasPeer(x, i)'
  <2>1. PICK initial, id, moved :
            Moves(d, m, initial, id, moved) /\ MovesOnly(d, m, initial, id, moved)
    BY <1>4, ResponseDoes
  <2>2. x = d /\ i = id /\ connections'[x][i] = moved
    BY <1>4, <2>1 DEF MovesOnly, Active, Known
  <2>3. moved.opened # 0 /\ ~IsPrime(id) /\ m.to = d /\ m.body.kind = "response"
        /\ id = Combined(m.body.connId, m.body.newId) /\ m.body.from \in Device
    BY <2>1, MessageFields DEF Moves, ConnectionId
  <2>4. d \in Listeners[m.body.from] /\ Entered(m.body.from, id)
    BY <2>3 DEF WireInv
  <2>5. Entered(m.body.from, id)'
    BY <2>2, <2>3, <2>4, EnteredStays
  <2> QED
    BY <2>2, <2>3, <2>4, <2>5 DEF HasPeer, Entered, Known
<1>5. ASSUME NEW e \in Device, NEW m \in wire, HandleFinalConfirmation(e, m),
             connections'[x][i] # connections[x][i]
      PROVE  HasPeer(x, i)'
  <2>1. PICK id, new : Activates(e, m, id, new)
    BY <1>5, FinalDoes
  <2>2. x = e /\ i = id /\ connections'[x][i] = new
        /\ new.opened = connections[x][i].opened /\ ~IsPrime(i) /\ Known(x, i)
    BY <1>5, <2>1 DEF Activates
  <2>3. CASE new.opened # 0
    <3>1. Active(x, i)
      BY <2>2, <2>3 DEF IdsInv, Active
    <3> QED
      BY <2>2, <3>1, PeerStays
  <2>4. CASE new.opened = 0
    <3>1. m.to = e /\ m.body.kind = "final" /\ m.body.connId = i /\ m.body.from \in Device
      BY <2>1, <2>2, MessageFields DEF Activates
    <3>2. e \in Listeners[m.body.from] /\ onConnected[m.body.from][i] > 0
      BY <3>1 DEF WireInv
    <3>3. onConnected'[m.body.from][i] > 0
      BY <3>1, <3>2, OnConnectedStays
    <3> QED
      BY <2>2, <2>4, <3>1, <3>2, <3>3 DEF HasPeer
  <2> QED
    BY <2>3, <2>4
<1>6. CASE UNCHANGED vars
  BY <1>0, <1>6 DEF vars, protocolVars
<1> QED
  BY <1>0, <1>1, <1>2, <1>3, <1>4, <1>5, <1>6, StepShapes

-----------------------------------------------------------------------------
(* The answers *)

(* AnswersInv for one number of one device.                                  *)
RowAnswers(x, i) ==
    /\ answers[x][i] <= 1
    /\ (Known(x, i) /\ IsPrime(i)) \/ i >= nextConnectionId[x] => answers[x][i] = 0
    /\ onConnected[x][i] > 0 =>
          /\ x \in Initiators /\ ~IsPrime(i)
          /\ (Known(x, i) /\ connections[x][i].opened # 0) \/ i \in closed[x]

(* Lemma: every step keeps what is known of the answers, where the devices   *)
(* that open connections do not hear one another.                            *)
LEMMA AnswersStep ==
    ASSUME RolesApart, TypeOK, IdsInv, WireInv, AnswersInv, [Next]_vars
    PROVE  AnswersInv'
<1> SUFFICES ASSUME NEW x \in Device, NEW i \in ConnectionId
             PROVE  RowAnswers(x, i)'
  BY DEF AnswersInv, RowAnswers
<1>0. /\ RowAnswers(x, i)
      /\ nextConnectionId[x] \in Int /\ i \in Int /\ i # 0
      /\ answers[x][i] \in Nat /\ onConnected[x][i] \in Nat
  BY SdkAssumption DEF AnswersInv, RowAnswers, TypeOK, ConnectionId
<1>1. ASSUME NEW d \in Device, NEW ids \in SUBSET ConnectionId, Removal(d, ids)
      PROVE  RowAnswers(x, i)'
  <2>1. /\ connections'[x][i] = IF x = d /\ i \in ids THEN NoConnection ELSE connections[x][i]
        /\ closed'[x] = IF x = d THEN closed[x] \cup ids ELSE closed[x]
        /\ nextConnectionId'[x] = nextConnectionId[x] /\ onConnected'[x][i] = onConnected[x][i]
    BY <1>1 DEF Removal
  <2>2. CASE answers'[x][i] = answers[x][i]
    BY <1>0, <2>1, <2>2 DEF RowAnswers, Known
  <2>3. CASE answers'[x][i] # answers[x][i]
    <3>1. /\ answers'[x][i] = answers[x][i] + 1 /\ x = d /\ i \in ids
          /\ i \in pendingHandshakes[x] /\ Known(x, i)
      BY <1>1, <2>3 DEF Removal
    <3>2. IsPrime(i) /\ i < nextConnectionId[x]
      BY <3>1 DEF IdsInv
    <3>3. answers[x][i] = 0
      BY <1>0, <3>1, <3>2 DEF RowAnswers
    <3> QED
      BY <1>0, <2>1, <3>1, <3>2, <3>3 DEF RowAnswers, Known
  <2> QED
    BY <2>2, <2>3
<1>2. ASSUME NEW d \in Device, NEW target \in Device \ {d}, NEW code \in SpecialCode,
             NEW id \in ConnectionId, Connect(d, target, code, id)
      PROVE  RowAnswers(x, i)'
  <2>1. /\ nextConnectionId[d] <= id
        /\ nextConnectionId'[x] = IF x = d THEN id + 1 ELSE nextConnectionId[x]
        /\ connections'[x][i] = IF x = d /\ i = id THEN Opening(target, code, id)
                                ELSE connections[x][i]
        /\ UNCHANGED <<answers, onConnected, closed>>
    BY <1>2, ConnectDoes
  <2>2. Opening(target, code, id).opened = id /\ Opening(target, code, id) # NoConnection
    BY EnteredAre
  <2>3. i >= nextConnectionId'[x] => i >= nextConnectionId[x]
    BY <1>0, <2>1, SdkAssumption DEF ConnectionId
  <2>4. CASE x = d /\ i = id
    BY <1>0, <2>1, <2>2, <2>3, <2>4 DEF RowAnswers, Known
  <2>5. CASE ~(x = d /\ i = id)
    BY <1>0, <2>1, <2>3, <2>5 DEF RowAnswers, Known
  <2> QED
    BY <2>4, <2>5
<1>3. ASSUME NEW e \in Device, NEW m \in wire, NEW newId \in ConnectionId,
             AcceptRequest(e, m, newId)
      PROVE  RowAnswers(x, i)'
  <2>1. /\ m.to = e /\ m.body.kind = "request"
        /\ UNCHANGED <<answers, onConnected, closed>>
    BY <1>3, AcceptDoes
  <2>2. i >= nextConnectionId'[x] => i >= nextConnectionId[x]
    <3>1. /\ nextConnectionId[e] <= newId
          /\ nextConnectionId'[x] = IF x = e THEN newId + 1 ELSE nextConnectionId[x]
      BY <1>3, AcceptDoes
    <3> QED
      BY <1>0, <3>1, SdkAssumption DEF ConnectionId
  <2>3. CASE connections'[x][i] = connections[x][i]
    BY <1>0, <2>1, <2>2, <2>3 DEF RowAnswers, Known
  <2>4. CASE connections'[x][i] # connections[x][i]
    <3>1. x = e /\ i = Combined(m.body.connId, newId) /\ IsPrime(newId)
      BY <1>3, <2>4, AcceptDoes
    <3>2. ~IsPrime(i)
      <4>1. m.body.connId \in ConnectionId /\ IsPrime(m.body.connId)
        BY <2>1, OnWire, MessageFields DEF WireInv
      <4> QED
        BY <3>1, <4>1, CombinedNotPrime
    <3>3. x \notin Initiators
      <4>1. e \in Listeners[m.body.from] /\ m.body.from \in Initiators
        BY <2>1 DEF WireInv
      <4> QED
        BY <3>1, <4>1 DEF RolesApart
    <3> QED
      BY <1>0, <2>1, <2>2, <3>2, <3>3 DEF RowAnswers
  <2> QED
    BY <2>3, <2>4
<1>4. ASSUME NEW d \in Device, NEW m \in wire, HandleResponse(d, m)
      PROVE  RowAnswers(x, i)'
  <2>1. PICK initial, id, moved :
            Moves(d, m, initial, id, moved) /\ MovesOnly(d, m, initial, id, moved)
    BY <1>4, ResponseDoes
  <2>2. /\ connections'[x][i] = IF x = d /\ i = id THEN moved
                                ELSE IF x = d /\ i = initial THEN NoConnection
                                ELSE connections[x][i]
        /\ answers'[x][i] = IF x = d /\ i = initial THEN answers[x][i] + 1 ELSE answers[x][i]
        /\ onConnected'[x][i] = IF x = d /\ i = id THEN onConnected[x][i] + 1
                                ELSE onConnected[x][i]
        /\ UNCHANGED <<nextConnectionId, closed>>
    BY <2>1 DEF MovesOnly
  <2>3. /\ initial \in ConnectionId /\ IsPrime(initial) /\ Known(d, initial) /\ ~IsPrime(id)
        /\ moved # NoConnection /\ moved.opened = initial /\ initial # 0
        /\ connections[d][initial].opened = initial
    BY <2>1 DEF Moves, ConnectionId
  <2>4. CASE x = d /\ i = initial
    <3>1. i < nextConnectionId[x]
      BY <2>3, <2>4 DEF IdsInv
    <3>2. answers[x][i] = 0
      BY <1>0, <2>3, <2>4 DEF RowAnswers
    <3> QED
      BY <1>0, <2>2, <2>3, <2>4, <3>1, <3>2 DEF RowAnswers, Known
  <2>5. CASE x = d /\ i = id
    <3>1. d \in Initiators
      BY <2>3 DEF IdsInv
    <3> QED
      BY <1>0, <2>2, <2>3, <2>5, <3>1 DEF RowAnswers, Known
  <2>6. CASE ~(x = d /\ i \in {initial, id})
    BY <1>0, <2>2, <2>6 DEF RowAnswers, Known
  <2> QED
    BY <2>4, <2>5, <2>6
<1>5. ASSUME NEW e \in Device, NEW m \in wire, HandleFinalConfirmation(e, m)
      PROVE  RowAnswers(x, i)'
  <2>1. PICK id, new : Activates(e, m, id, new)
    BY <1>5, FinalDoes
  <2>2. /\ m.to = e /\ m.body.kind = "final" /\ id \in ConnectionId /\ Known(e, id)
        /\ new.opened = connections[e][id].opened
        /\ connections'[x][i] = IF x = e /\ i = id THEN new ELSE connections[x][i]
        /\ new # NoConnection
        /\ UNCHANGED <<nextConnectionId, closed>>
    BY <2>1 DEF Activates
  <2>3. e \notin Initiators
    <3>1. e \in Listeners[m.body.from] /\ m.body.from \in Initiators
      BY <2>2 DEF WireInv
    <3> QED
      BY <3>1 DEF RolesApart
  <2>4. new.opened = 0
    BY <2>2, <2>3 DEF IdsInv
  <2>5. UNCHANGED <<answers, onConnected>>
    BY <2>1, <2>4 DEF Activates
  <2> QED
    BY <1>0, <2>2, <2>5 DEF RowAnswers, Known
<1>6. CASE UNCHANGED vars
  BY <1>0, <1>6 DEF vars, protocolVars, history, RowAnswers, Known
<1> QED
  BY <1>1, <1>2, <1>3, <1>4, <1>5, <1>6, StepShapes

(* Lemma: what is closed stays closed.                                       *)
LEMMA ClosedGrows ==
    ASSUME TypeOK, IdsInv, WireInv, [Next]_vars, NEW x \in Device
    PROVE  closed[x] \subseteq closed'[x]
<1>1. ASSUME NEW d \in Device, NEW ids \in SUBSET ConnectionId, Removal(d, ids)
      PROVE  closed[x] \subseteq closed'[x]
  BY <1>1 DEF Removal
<1>2. ASSUME NEW d \in Device, NEW target \in Device \ {d}, NEW code \in SpecialCode,
             NEW id \in ConnectionId, Connect(d, target, code, id)
      PROVE  UNCHANGED closed
  BY <1>2, ConnectDoes
<1>3. ASSUME NEW e \in Device, NEW m \in wire, NEW newId \in ConnectionId,
             AcceptRequest(e, m, newId)
      PROVE  UNCHANGED closed
  BY <1>3, AcceptDoes
<1>4. ASSUME NEW d \in Device, NEW m \in wire,
             HandleResponse(d, m) \/ HandleFinalConfirmation(d, m)
      PROVE  UNCHANGED closed
  BY <1>4 DEF HandleResponse, HandleFinalConfirmation
<1>5. CASE UNCHANGED vars
  BY <1>5 DEF vars, history
<1> QED
  BY <1>1, <1>2, <1>3, <1>4, <1>5, StepShapes

-----------------------------------------------------------------------------
(* Sessions *)

(* Lemma: the ways to make a number stay.                                    *)
LEMMA WaysStay ==
    ASSUME TypeOK, IdsInv, WireInv, [Next]_vars,
           NEW d \in Device, NEW e \in Device, NEW id
    PROVE  /\ Ways(d, e, id) \subseteq Ways(d, e, id)'
           /\ TwoWays(d, e, id) => TwoWays(d, e, id)'
<1>1. ASSUME NEW x \in Device, NEW p \in Passed(x)
      PROVE  p \in Passed(x)'
  <2>1. /\ nextConnectionId[x] \in Int /\ nextConnectionId'[x] \in Int
        /\ nextConnectionId[x] <= nextConnectionId'[x]
    BY CountersGrow
  <2>2. p \in 1..(nextConnectionId[x] - 1) /\ IsPrime(p)
    BY DEF Passed
  <2>3. p \in 1..(nextConnectionId'[x] - 1)
    BY <2>1, <2>2
  <2> QED
    BY <2>2, <2>3 DEF Passed
<1>2. Ways(d, e, id) \subseteq Ways(d, e, id)'
  BY <1>1 DEF Ways
<1> QED
  BY <1>2 DEF TwoWays

(* Lemma: where the sessions told of after a step come from.                 *)
LEMMA SessionsFrom ==
    ASSUME NEW d \in Device, NEW e \in Device, d # e, NEW id \in ConnectionId, NEW S,
           \A y \in {d, e} : Past(y, id)' =>
              \/ /\ Past(y, id)
                 /\ connections'[y][id].opened = connections[y][id].opened
                 /\ connections'[y][id].specialCode = connections[y][id].specialCode
              \/ EntryTells(d, e, y, id)' \in S,
           \A c \in wire' \ wire : c.body.from \in {d, e} =>
              /\ AsksFor(c, id) => <<Other(d, e, c.body.from), c.body.specialCode>> \in S
              /\ Confirms(c, id) => <<c.body.from, c.body.specialCode>> \in S
    PROVE  Sessions(d, e, id)' \subseteq Sessions(d, e, id) \cup S
<1> SUFFICES ASSUME NEW x \in Sessions(d, e, id)'
             PROVE  x \in Sessions(d, e, id) \cup S
  OBVIOUS
<1>1. ASSUME NEW y \in {d, e}, Past(y, id)', x = EntryTells(d, e, y, id)'
      PROVE  x \in Sessions(d, e, id) \cup S
  <2>1. CASE /\ Past(y, id)
             /\ connections'[y][id].opened = connections[y][id].opened
             /\ connections'[y][id].specialCode = connections[y][id].specialCode
    <3>1. x = EntryTells(d, e, y, id)
      BY <1>1, <2>1 DEF EntryTells
    <3> QED
      BY <2>1, <3>1 DEF Sessions
  <2>2. CASE EntryTells(d, e, y, id)' \in S
    BY <1>1, <2>2
  <2> QED
    BY <1>1, <2>1, <2>2
<1>2. ASSUME NEW c \in wire', c.body.from \in {d, e}, AsksFor(c, id) \/ Confirms(c, id),
             x = MessageTells(d, e, c)
      PROVE  x \in Sessions(d, e, id) \cup S
  <2>1. CASE c \in wire
    BY <1>2, <2>1 DEF Sessions
  <2>2. CASE c \notin wire
    BY <1>2, <2>2 DEF MessageTells, AsksFor, Confirms
  <2> QED
    BY <2>1, <2>2
<1>3. (\E y \in {d, e} : Past(y, id)' /\ x = EntryTells(d, e, y, id)')
      \/ \E c \in wire' : /\ c.body.from \in {d, e} /\ (AsksFor(c, id) \/ Confirms(c, id))
                          /\ x = MessageTells(d, e, c)
  BY DEF Sessions, AsksFor, Confirms, MessageTells
<1> QED
  BY <1>1, <1>2, <1>3

(* Lemma: a step tells of no session that was not told of, except one that   *)
(* is accepted under a number just handed out.                               *)
LEMMA SessionsGoOn ==
    ASSUME TypeOK, IdsInv, WireInv, SessionsInv, [Next]_vars,
           NEW d \in Device, NEW e \in Device, d # e, HearEachOther(d, e),
           NEW id \in ConnectionId
    PROVE  \/ Sessions(d, e, id)' \subseteq Sessions(d, e, id)
           \/ TwoWays(d, e, id)
           \/ \E x, way : /\ Sessions(d, e, id)' \subseteq Sessions(d, e, id) \cup {x}
                          /\ way \in Ways(d, e, id)' /\ way \notin Ways(d, e, id)
<1>0. ASSUME \A y \in {d, e} : Past(y, id)' =>
                \/ /\ Past(y, id)
                   /\ connections'[y][id].opened = connections[y][id].opened
                   /\ connections'[y][id].specialCode = connections[y][id].specialCode
                \/ EntryTells(d, e, y, id)' \in Sessions(d, e, id),
             \A c \in wire' \ wire : c.body.from \in {d, e} =>
                /\ AsksFor(c, id) =>
                      <<Other(d, e, c.body.from), c.body.specialCode>> \in Sessions(d, e, id)
                /\ Confirms(c, id) =>
                      <<c.body.from, c.body.specialCode>> \in Sessions(d, e, id)
      PROVE  Sessions(d, e, id)' \subseteq Sessions(d, e, id)
  BY <1>0, SessionsFrom
<1>1. ASSUME NEW f \in Device, NEW ids \in SUBSET ConnectionId, Removal(f, ids)
      PROVE  Sessions(d, e, id)' \subseteq Sessions(d, e, id)
  <2>1. \A y \in {d, e} : Past(y, id)' => connections'[y][id] = connections[y][id]
    BY <1>1 DEF Removal, Past, Known
  <2>2. \A y \in {d, e} : Past(y, id)' => Past(y, id)
    BY <2>1 DEF Past, Known
  <2>3. \A c \in wire' \ wire : ~AsksFor(c, id) /\ ~Confirms(c, id)
    BY <1>1 DEF Removal, HandshakeKinds, AsksFor, Confirms
  <2> QED
    BY <1>0, <2>1, <2>2, <2>3
<1>2. ASSUME NEW f \in Device, NEW target \in Device \ {f}, NEW code \in SpecialCode,
             NEW i \in ConnectionId, Connect(f, target, code, i)
      PROVE  Sessions(d, e, id)' \subseteq Sessions(d, e, id)
  <2>1. /\ \A y \in {d, e} : connections'[y][id] = IF y = f /\ id = i THEN Opening(target, code, i)
                                                  ELSE connections[y][id]
        /\ \A c \in wire' \ wire : c.body = Request(f, i, code)
        /\ Opening(target, code, i).status = "PENDING"
    BY <1>2, ConnectDoes, EnteredAre
  <2>2. \A y \in {d, e} : Past(y, id)' => connections'[y][id] = connections[y][id] /\ Past(y, id)
    BY <2>1 DEF Past, Known
  <2>3. \A c \in wire' \ wire : ~AsksFor(c, id) /\ ~Confirms(c, id)
    BY <2>1 DEF Request, AsksFor, Confirms
  <2> QED
    BY <1>0, <2>2, <2>3
<1>3. ASSUME NEW f \in Device, NEW m \in wire, NEW newId \in ConnectionId,
             AcceptRequest(f, m, newId)
      PROVE  \/ Sessions(d, e, id)' \subseteq Sessions(d, e, id)
             \/ \E x, way : /\ Sessions(d, e, id)' \subseteq Sessions(d, e, id) \cup {x}
                            /\ way \in Ways(d, e, id)' /\ way \notin Ways(d, e, id)
  <2> DEFINE number == Combined(m.body.connId, newId)
  <2>1. /\ m.to = f /\ m.body.kind = "request" /\ IsPrime(newId)
        /\ nextConnectionId[f] <= newId /\ nextConnectionId'[f] = newId + 1
        /\ \A y \in Device : y # f => nextConnectionId'[y] = nextConnectionId[y]
    BY <1>3, AcceptDoes
  <2>2. /\ \A y \in {d, e} : \/ connections'[y][id] = connections[y][id]
                             \/ /\ y = f /\ id = number
                                /\ connections'[y][id] = Accepted(m.body)
        /\ \A c \in wire' \ wire :
              c.body = Response(f, m.body.connId, m.body.specialCode, newId)
    BY <1>3, AcceptDoes
  <2>3. \A c \in wire' \ wire :
            c.body.from = f /\ ~Confirms(c, id) /\ c.body.specialCode = m.body.specialCode
            /\ (AsksFor(c, id) => id = number)
    BY <2>2 DEF Response, AsksFor, Confirms
  <2>4. CASE ~(f \in {d, e} /\ id = number)
    <3>1. \A y \in {d, e} : Past(y, id)' => connections'[y][id] = connections[y][id] /\ Past(y, id)
      BY <2>2, <2>4 DEF Past, Known
    <3> QED
      BY <1>0, <2>3, <2>4, <3>1
  <2>5. CASE f \in {d, e} /\ id = number
    <3>1. PICK g \in {d, e} : g = Other(d, e, f) /\ f # g
      BY <2>5 DEF Other
    <3>2. m.body \in Message /\ f \in Listeners[m.body.from]
      BY <2>1, OnWire DEF WireInv
    <3>3. m.body.from = g /\ m.body.connId \in ConnectionId
      BY <2>5, <3>1, <3>2, MessageFields DEF HearEachOther
    <3>4. IsPrime(m.body.connId) /\ m.body.connId < nextConnectionId[g]
      BY <2>1, <3>3 DEF WireInv
    <3> DEFINE x == <<g, m.body.specialCode>>
               way == IF f = e THEN <<m.body.connId, newId>> ELSE <<newId, m.body.connId>>
    <3>5. Sessions(d, e, id)' \subseteq Sessions(d, e, id) \cup {x}
      <4>1. ASSUME NEW y \in {d, e}, Past(y, id)'
            PROVE  \/ /\ Past(y, id)
                      /\ connections'[y][id].opened = connections[y][id].opened
                      /\ connections'[y][id].specialCode = connections[y][id].specialCode
                   \/ EntryTells(d, e, y, id)' \in {x}
        <5>1. CASE connections'[y][id] = connections[y][id]
          BY <4>1, <5>1 DEF Past, Known
        <5>2. CASE y = f /\ connections'[y][id] = Accepted(m.body)
          BY <3>1, <5>2 DEF Accepted, EntryTells
        <5> QED
          BY <2>2, <5>1, <5>2
      <4>2. \A c \in wire' \ wire : c.body.from \in {d, e} =>
               /\ AsksFor(c, id) => <<Other(d, e, c.body.from), c.body.specialCode>> \in {x}
               /\ Confirms(c, id) => <<c.body.from, c.body.specialCode>> \in {x}
        BY <2>3, <3>1
      <4> HIDE DEF x
      <4> QED
        BY <4>1, <4>2, SessionsFrom
    <3>6. newId \in Passed(f)' /\ newId \notin Passed(f)
      <4>1. nextConnectionId[f] \in Int /\ newId \in Int /\ newId >= 1
        BY <2>5, SdkAssumption DEF TypeOK, ConnectionId
      <4>2. newId \in 1..(nextConnectionId'[f] - 1)
        BY <2>1, <4>1
      <4>3. newId \notin 1..(nextConnectionId[f] - 1)
        BY <2>1, <4>1
      <4> QED
        BY <2>1, <4>2, <4>3 DEF Passed
    <3>7. m.body.connId \in Passed(g)'
      <4>1. nextConnectionId[g] \in Int /\ m.body.connId \in Int /\ m.body.connId >= 1
        <5>1. g \in Device
          BY <3>1
        <5>2. nextConnectionId[g] \in Int
          BY <5>1, SdkAssumption DEF TypeOK
        <5> QED
          BY <5>2, <3>3, SdkAssumption DEF ConnectionId
      <4>2. nextConnectionId'[g] = nextConnectionId[g]
        BY <2>1, <3>1
      <4>3. m.body.connId \in 1..(nextConnectionId'[g] - 1)
        BY <3>4, <4>1, <4>2
      <4> QED
        BY <3>4, <4>3 DEF Passed
    <3>8. Combined(m.body.connId, newId) = id /\ Combined(newId, m.body.connId) = id
      <4>1. m.body.connId \in Int /\ newId \in Int
        BY <3>3, SdkAssumption DEF ConnectionId
      <4>2. m.body.connId * newId = newId * m.body.connId
        BY <4>1
      <4> QED
        BY <2>5, <4>2 DEF Combined
    <3>9. way \in Ways(d, e, id)' /\ way \notin Ways(d, e, id)
      <4>1. CASE f = e
        BY <3>1, <3>6, <3>7, <3>8, <4>1 DEF Ways, Other
      <4>2. CASE f = d
        BY <3>1, <3>6, <3>7, <3>8, <4>2 DEF Ways, Other
      <4> QED
        BY <2>5, <4>1, <4>2
    <3> HIDE DEF x, way
    <3> QED
      BY <3>5, <3>9
  <2> QED
    BY <2>4, <2>5
<1>4. ASSUME NEW f \in Device, NEW m \in wire, HandleResponse(f, m)
      PROVE  Sessions(d, e, id)' \subseteq Sessions(d, e, id)
  <2>1. PICK initial, number, moved :
            Moves(f, m, initial, number, moved) /\ MovesOnly(f, m, initial, number, moved)
    BY <1>4, ResponseDoes
  <2>2. /\ m.to = f /\ m.body.kind = "response" /\ m.body \in Message
        /\ number = Combined(m.body.connId, m.body.newId)
        /\ moved.specialCode = m.body.specialCode /\ moved.opened # 0
    BY <2>1 DEF Moves, ConnectionId
  <2>3. \A y \in {d, e} : \/ connections'[y][id] = connections[y][id]
                          \/ connections'[y][id] = NoConnection
                          \/ y = f /\ id = number /\ connections'[y][id] = moved
    BY <2>1 DEF MovesOnly
  <2>4. \A c \in wire' \ wire : c.body = FinalConfirmation(f, number, m.body.specialCode)
    BY <2>1 DEF MovesOnly
  <2>5. ASSUME f \in {d, e}, id = number
        PROVE  <<f, m.body.specialCode>> \in Sessions(d, e, id)
    <3>1. PICK g \in {d, e} : g = Other(d, e, f) /\ f # g
      BY <2>5 DEF Other
    <3>2. f \in Listeners[m.body.from]
      BY <2>2 DEF WireInv
    <3>3. m.body.from = g /\ m.body.specialCode \in SpecialCode
      BY <2>2, <2>5, <3>1, <3>2, MessageFields DEF HearEachOther
    <3>4. MessageTells(d, e, m) = <<f, m.body.specialCode>>
      BY <2>2, <2>5, <3>1, <3>3 DEF MessageTells, Other
    <3>5. AsksFor(m, id) /\ m.body.from \in {d, e}
      BY <2>2, <2>5, <3>3 DEF AsksFor
    <3> QED
      BY <3>4, <3>5 DEF Sessions
  <2>6. ASSUME NEW y \in {d, e}, Past(y, id)'
        PROVE  \/ /\ Past(y, id)
                  /\ connections'[y][id].opened = connections[y][id].opened
                  /\ connections'[y][id].specialCode = connections[y][id].specialCode
               \/ EntryTells(d, e, y, id)' \in Sessions(d, e, id)
    <3>1. CASE connections'[y][id] = connections[y][id]
      BY <2>6, <3>1 DEF Past, Known
    <3>2. CASE y = f /\ id = number /\ connections'[y][id] = moved
      BY <2>2, <2>5, <3>2 DEF EntryTells
    <3> QED
      BY <2>3, <2>6, <3>1, <3>2 DEF Past, Known
  <2>7. \A c \in wire' \ wire :
            /\ c.body.from = f /\ c.body.specialCode = m.body.specialCode
            /\ ~AsksFor(c, id) /\ (Confirms(c, id) => id = number)
    BY <2>4 DEF FinalConfirmation, AsksFor, Confirms
  <2> QED
    BY <1>0, <2>5, <2>6, <2>7
<1>5. ASSUME NEW f \in Device, NEW m \in wire, HandleFinalConfirmation(f, m)
      PROVE  Sessions(d, e, id)' \subseteq Sessions(d, e, id) \/ TwoWays(d, e, id)
  <2>1. PICK number, new : Activates(f, m, number, new)
    BY <1>5, FinalDoes
  <2>2. /\ m.to = f /\ m.body.kind = "final" /\ m.body \in Message
        /\ number = m.body.connId /\ number \in ConnectionId /\ ~IsPrime(number)
        /\ Known(f, number) /\ wire' \subseteq wire
        /\ new.specialCode = m.body.specialCode /\ new.opened = connections[f][number].opened
        /\ \A y \in {d, e} : connections'[y][id] = IF y = f /\ id = number THEN new
                                                   ELSE connections[y][id]
    BY <2>1 DEF Activates
  <2>3. CASE ~(f \in {d, e} /\ id = number)
    <3>1. \A y \in {d, e} : Past(y, id)' => connections'[y][id] = connections[y][id] /\ Past(y, id)
      BY <2>2, <2>3 DEF Past, Known
    <3> QED
      BY <1>0, <2>2, <3>1
  <2>4. CASE f \in {d, e} /\ id = number
    <3>1. PICK g \in {d, e} : g = Other(d, e, f) /\ f = Other(d, e, g) /\ f # g
      BY <2>4 DEF Other
    <3>2. f \in Listeners[m.body.from]
      BY <2>2 DEF WireInv
    <3>3. m.body.from = g /\ m.body.specialCode \in SpecialCode
      BY <2>2, <2>4, <3>1, <3>2, MessageFields DEF HearEachOther
    <3>4. <<g, m.body.specialCode>> \in Sessions(d, e, id)
      <4>1. MessageTells(d, e, m) = <<g, m.body.specialCode>>
        BY <2>2, <3>3 DEF MessageTells
      <4>2. Confirms(m, id) /\ m.body.from \in {d, e}
        BY <2>2, <2>4, <3>3 DEF Confirms
      <4> QED
        BY <4>1, <4>2 DEF Sessions
    <3>5. CASE connections[f][id].opened = 0
      <4>1. ASSUME NEW y \in {d, e}, Past(y, id)'
            PROVE  \/ /\ Past(y, id)
                      /\ connections'[y][id].opened = connections[y][id].opened
                      /\ connections'[y][id].specialCode = connections[y][id].specialCode
                   \/ EntryTells(d, e, y, id)' \in Sessions(d, e, id)
        <5>1. CASE connections'[y][id] = connections[y][id]
          BY <4>1, <5>1 DEF Past, Known
        <5>2. CASE y = f /\ connections'[y][id] = new
          BY <2>2, <2>4, <3>1, <3>4, <3>5, <5>2 DEF EntryTells
        <5> QED
          BY <2>2, <5>1, <5>2
      <4> QED
        BY <1>0, <2>2, <4>1
    <3>6. CASE connections[f][id].opened # 0
      <4>1. connections[f][id].status = "ACTIVE" /\ connections[f][id] \in Connection
        BY <2>2, <2>4, <3>6, KnownIsConnection DEF IdsInv
      <4>2. Past(f, id) /\ connections[f][id].specialCode \in SpecialCode
        BY <2>2, <2>4, <4>1 DEF Past, Connection
      <4>3. EntryTells(d, e, f, id) = <<f, connections[f][id].specialCode>>
        BY <3>6 DEF EntryTells
      <4>4. <<f, connections[f][id].specialCode>> \in Sessions(d, e, id)
        BY <2>4, <4>2, <4>3 DEF Sessions
      <4>5. <<f, connections[f][id].specialCode>> # <<g, m.body.specialCode>>
        BY <3>1
      <4> QED
        BY <3>4, <4>4, <4>5 DEF SessionsInv
    <3> QED
      BY <3>5, <3>6
  <2> QED
    BY <2>3, <2>4
<1>6. CASE UNCHANGED vars
  <2>1. \A y \in {d, e} : Past(y, id)' => connections'[y][id] = connections[y][id] /\ Past(y, id)
    BY <1>6 DEF vars, protocolVars, Past, Known
  <2>2. wire' = wire
    BY <1>6 DEF vars
  <2> QED
    BY <1>0, <2>1, <2>2
<1> QED
  BY <1>1, <1>2, <1>3, <1>4, <1>5, <1>6, StepShapes

(* Lemma: every step keeps sessions apart.                                   *)
LEMMA SessionsStep ==
    ASSUME TypeOK, IdsInv, WireInv, SessionsInv, [Next]_vars
    PROVE  SessionsInv'
<1> SUFFICES ASSUME NEW d \in Device, NEW e \in Device, d # e, HearEachOther(d, e),
                    NEW id \in ConnectionId
             PROVE  /\ Sessions(d, e, id)' # {} => Ways(d, e, id)' # {}
                    /\ \A x, y \in Sessions(d, e, id)' : x = y \/ TwoWays(d, e, id)'
  BY DEF SessionsInv, HearEachOther
<1>1. /\ Sessions(d, e, id) # {} => Ways(d, e, id) # {}
      /\ \A x, y \in Sessions(d, e, id) : x = y \/ TwoWays(d, e, id)
  BY DEF SessionsInv
<1>2. /\ Ways(d, e, id) \subseteq Ways(d, e, id)'
      /\ TwoWays(d, e, id) => TwoWays(d, e, id)'
  BY WaysStay
<1>3. TwoWays(d, e, id)' => Ways(d, e, id)' # {}
  BY DEF TwoWays
<1>4. CASE Sessions(d, e, id)' \subseteq Sessions(d, e, id)
  BY <1>1, <1>2, <1>4
<1>5. CASE TwoWays(d, e, id)
  BY <1>2, <1>3, <1>5
<1>6. ASSUME NEW x, NEW way, Sessions(d, e, id)' \subseteq Sessions(d, e, id) \cup {x},
             way \in Ways(d, e, id)', way \notin Ways(d, e, id)
      PROVE  /\ Sessions(d, e, id)' # {} => Ways(d, e, id)' # {}
             /\ \A y, z \in Sessions(d, e, id)' : y = z \/ TwoWays(d, e, id)'
  <2>1. CASE Sessions(d, e, id) = {}
    BY <1>6, <2>1
  <2>2. CASE Sessions(d, e, id) # {}
    BY <1>1, <1>2, <1>6, <2>2 DEF TwoWays
  <2> QED
    BY <2>1, <2>2
<1> QED
  BY <1>4, <1>5, <1>6, SessionsGoOn

-----------------------------------------------------------------------------
(* One connection *)

(* Lemma: the first connect.                                                 *)
LEMMA FirstConnect ==
    ASSUME TypeOK, SingleInv, connects = 0,
           NEW d \in Device, NEW target \in Device \ {d}, NEW code \in SpecialCode,
           NEW id \in ConnectionId, Connect(d, target, code, id)
    PROVE  IsPrime(id) /\ OneSession(d, id, code)' /\ FreshNumbers(d, id)'
<1>1. /\ IsPrime(id) /\ UNCHANGED closed
      /\ \A e \in Device, i \in ConnectionId :
            connections'[e][i] = IF e = d /\ i = id THEN Opening(target, code, id)
                                 ELSE connections[e][i]
      /\ \A c \in wire' : c \in wire \/ c.body = Request(d, id, code)
  BY ConnectDoes
<1>2. wire = {} /\ \A e \in Device, i \in ConnectionId : ~Known(e, i) /\ i \notin closed[e]
  BY DEF SingleInv, Entered
<1>3. /\ Opening(target, code, id).specialCode = code
      /\ Opening(target, code, id).opened = id
  BY EnteredAre
<1>4. \A e \in Device, i \in ConnectionId :
          /\ Known(e, i)' => e = d /\ i = id
          /\ i \notin closed'[e]
  BY <1>1, <1>2 DEF Known
<1>5. OneSession(d, id, code)'
  <2>1. \A e \in Device, i \in ConnectionId :
            Known(e, i)' => /\ connections'[e][i].specialCode = code
                            /\ connections'[e][i].opened # 0 => e = d
    BY <1>1, <1>3, <1>4
  <2>2. \A c \in wire' : c.body = Request(d, id, code)
    BY <1>1, <1>2
  <2> QED
    BY <2>1, <2>2 DEF OneSession, Request, Known
<1>6. FreshNumbers(d, id)'
  BY <1>4 DEF FreshNumbers, Entered, Known
<1> QED
  BY <1>1, <1>5, <1>6

(* Lemma: the one session goes on.                                           *)
LEMMA SessionGoesOn ==
    ASSUME TypeOK, IdsInv, WireInv, [Next]_vars, connects' = connects,
           NEW d \in Device, NEW p \in ConnectionId, NEW s \in SpecialCode,
           IsPrime(p), OneSession(d, p, s)
    PROVE  OneSession(d, p, s)'
<1> DEFINE Ours(x, i) == Known(x, i) => /\ connections[x][i].specialCode = s
                                        /\ connections[x][i].opened # 0 => x = d
           Ones(c) == /\ c.body.kind = "request" => c.body.from = d
                      /\ c.body.kind \in {"request", "response"} => c.body.connId = p
                      /\ c.body.kind \in HandshakeKinds => c.body.specialCode = s
<1>1. /\ \A x \in Device, i \in ConnectionId : Ours(x, i)
      /\ \A c \in wire : Ones(c)
  BY DEF OneSession, HandshakeKinds
<1> SUFFICES /\ \A x \in Device, i \in ConnectionId : Ours(x, i)'
             /\ \A c \in wire' : Ones(c)
  BY DEF OneSession, HandshakeKinds, Known
<1>2. ASSUME NEW e \in Device, NEW ids \in SUBSET ConnectionId, Removal(e, ids)
      PROVE  /\ \A x \in Device, i \in ConnectionId : Ours(x, i)'
             /\ \A c \in wire' : Ones(c)
  <2>1. ASSUME NEW x \in Device, NEW i \in ConnectionId
        PROVE  Ours(x, i)'
    <3>1. connections'[x][i] = NoConnection \/ connections'[x][i] = connections[x][i]
      BY <1>2 DEF Removal
    <3> QED
      BY <1>1, <3>1 DEF Known
  <2>2. ASSUME NEW c \in wire'
        PROVE  Ones(c)
    <3>1. c \in wire \/ c.body.kind \notin HandshakeKinds
      BY <1>2 DEF Removal
    <3> QED
      BY <1>1, <3>1 DEF HandshakeKinds
  <2> QED
    BY <2>1, <2>2
<1>3. ASSUME NEW e \in Device, NEW target \in Device \ {e}, NEW code \in SpecialCode,
             NEW id \in ConnectionId, Connect(e, target, code, id)
      PROVE  FALSE
  BY <1>3, ConnectDoes, SdkAssumption DEF TypeOK
<1>4. ASSUME NEW e \in Device, NEW m \in wire, NEW newId \in ConnectionId,
             AcceptRequest(e, m, newId)
      PROVE  /\ \A x \in Device, i \in ConnectionId : Ours(x, i)'
             /\ \A c \in wire' : Ones(c)
  <2>1. m.body.kind = "request"
    BY <1>4, AcceptDoes
  <2>2. m.body.connId = p /\ m.body.specialCode = s
    BY <1>1, <2>1 DEF HandshakeKinds
  <2>3. ASSUME NEW x \in Device, NEW i \in ConnectionId
        PROVE  Ours(x, i)'
    <3>1. connections'[x][i] = Accepted(m.body) \/ connections'[x][i] = connections[x][i]
      BY <1>4, AcceptDoes
    <3>2. Accepted(m.body).specialCode = s /\ Accepted(m.body).opened = 0
      BY <2>2 DEF Accepted
    <3> QED
      BY <1>1, <3>1, <3>2 DEF Known
  <2>4. ASSUME NEW c \in wire'
        PROVE  Ones(c)
    <3>1. c \in wire \/ c.body = Response(e, p, s, newId)
      BY <1>4, <2>2, AcceptDoes
    <3> QED
      BY <1>1, <3>1 DEF Response
  <2> QED
    BY <2>3, <2>4
<1>5. ASSUME NEW e \in Device, NEW m \in wire, HandleResponse(e, m)
      PROVE  /\ \A x \in Device, i \in ConnectionId : Ours(x, i)'
             /\ \A c \in wire' : Ones(c)
  <2>1. PICK initial, id, moved :
            Moves(e, m, initial, id, moved) /\ MovesOnly(e, m, initial, id, moved)
    BY <1>5, ResponseDoes
  <2>2. /\ m.body.kind = "response" /\ moved.specialCode = m.body.specialCode
        /\ Known(e, initial) /\ initial \in ConnectionId
        /\ connections[e][initial].opened = initial /\ initial # 0
    BY <2>1 DEF Moves, ConnectionId
  <2>3. m.body.specialCode = s /\ e = d
    BY <1>1, <2>2 DEF HandshakeKinds
  <2>4. ASSUME NEW x \in Device, NEW i \in ConnectionId
        PROVE  Ours(x, i)'
    <3>1. \/ x = e /\ connections'[x][i] = moved
          \/ connections'[x][i] = NoConnection
          \/ connections'[x][i] = connections[x][i]
      BY <2>1 DEF MovesOnly
    <3> QED
      BY <1>1, <2>2, <2>3, <3>1 DEF Known
  <2>5. ASSUME NEW c \in wire'
        PROVE  Ones(c)
    <3>1. c \in wire \/ c.body = FinalConfirmation(e, id, s)
      BY <2>1, <2>3 DEF MovesOnly
    <3> QED
      BY <1>1, <3>1 DEF FinalConfirmation
  <2> QED
    BY <2>4, <2>5
<1>6. ASSUME NEW e \in Device, NEW m \in wire, HandleFinalConfirmation(e, m)
      PROVE  /\ \A x \in Device, i \in ConnectionId : Ours(x, i)'
             /\ \A c \in wire' : Ones(c)
  <2>1. PICK id, new : Activates(e, m, id, new)
    BY <1>6, FinalDoes
  <2>2. /\ m.body.kind = "final" /\ new.specialCode = m.body.specialCode
        /\ id \in ConnectionId /\ Known(e, id) /\ new.opened = connections[e][id].opened
        /\ wire' \subseteq wire
    BY <2>1 DEF Activates
  <2>3. m.body.specialCode = s
    BY <1>1, <2>2 DEF HandshakeKinds
  <2>4. ASSUME NEW x \in Device, NEW i \in ConnectionId
        PROVE  Ours(x, i)'
    <3>1. connections'[x][i] = IF x = e /\ i = id THEN new ELSE connections[x][i]
      BY <2>1 DEF Activates
    <3> QED
      BY <1>1, <2>2, <2>3, <3>1 DEF Known
  <2> QED
    BY <1>1, <2>2, <2>4
<1>7. CASE UNCHANGED vars
  BY <1>1, <1>7 DEF vars, protocolVars, Known
<1> QED
  BY <1>2, <1>3, <1>4, <1>5, <1>6, <1>7, StepShapes

(* Lemma: the numbers stay fresh and what is closed gone, unless a device    *)
(* hears itself.                                                             *)
LEMMA FreshGoesOn ==
    ASSUME NoEcho, TypeOK, IdsInv, WireInv, [Next]_vars, connects' = connects,
           NEW d \in Device, NEW p \in ConnectionId, NEW s \in SpecialCode,
           IsPrime(p), OneSession(d, p, s), FreshNumbers(d, p)
    PROVE  FreshNumbers(d, p)'
<1> DEFINE Gone(e, i) == i \in closed[e] => ~Known(e, i)
           Fresh(e, i) == e # d /\ Entered(e, i) =>
                             \E n \in 1..(nextConnectionId[e] - 1) : i = p * n
           Alone(i)    == Known(d, p) /\ Entered(d, i) => i = p
<1> SUFFICES ASSUME NEW x \in Device, NEW i \in ConnectionId
             PROVE  Gone(x, i)' /\ Fresh(x, i)' /\ Alone(i)'
  BY DEF FreshNumbers, Known
<1>0. /\ Gone(x, i) /\ Fresh(x, i) /\ Alone(i)
      /\ nextConnectionId \in [Device -> 2..(MaxConnectionId + 1)]
  BY DEF FreshNumbers, TypeOK
<1>1. ASSUME nextConnectionId'[x] \in Int, nextConnectionId[x] <= nextConnectionId'[x],
             \E n \in 1..(nextConnectionId[x] - 1) : i = p * n
      PROVE  \E n \in 1..(nextConnectionId'[x] - 1) : i = p * n
  <2>1. PICK n \in 1..(nextConnectionId[x] - 1) : i = p * n
    BY <1>1
  <2>2. n \in 1..(nextConnectionId'[x] - 1)
    BY <1>0, <1>1, <2>1, SdkAssumption
  <2> QED
    BY <2>1, <2>2
<1>2. CASE UNCHANGED <<connections, closed, nextConnectionId>>
  BY <1>0, <1>2 DEF Entered, Known
<1>3. ASSUME NEW e \in Device, NEW ids \in SUBSET ConnectionId, Removal(e, ids)
      PROVE  Gone(x, i)' /\ Fresh(x, i)' /\ Alone(i)'
  <2>1. /\ \A y \in Device : \A j \in ConnectionId :
              /\ connections'[y][j] = IF y = e /\ j \in ids THEN NoConnection
                                      ELSE connections[y][j]
              /\ j \in ids => Known(e, j)
        /\ \A y \in Device : closed'[y] = IF y = e THEN closed[y] \cup ids ELSE closed[y]
        /\ UNCHANGED nextConnectionId
    <3>1. /\ \A j \in ids : Known(e, j)
          /\ \A y \in Device : closed'[y] = IF y = e THEN closed[y] \cup ids ELSE closed[y]
          /\ UNCHANGED nextConnectionId
      BY <1>3 DEF Removal
    <3>2. \A y \in Device, j \in ConnectionId :
              connections'[y][j] = IF y = e /\ j \in ids THEN NoConnection
                                   ELSE connections[y][j]
      BY <1>3 DEF Removal
    <3> QED
      BY <3>1, <3>2
  <2>2. \A y \in Device, j \in ConnectionId :
            /\ Entered(y, j)' => Entered(y, j)
            /\ Known(y, j)' => Known(y, j) /\ ~(y = e /\ j \in ids)
    BY <2>1 DEF Entered, Known
  <2>3. Gone(x, i)'
    BY <1>0, <2>1, <2>2 DEF Known
  <2>4. Fresh(x, i)'
    BY <1>0, <2>1, <2>2
  <2>5. Alone(i)'
    BY <1>0, <2>2
  <2> QED
    BY <2>3, <2>4, <2>5
<1>4. ASSUME NEW e \in Device, NEW target \in Device \ {e}, NEW code \in SpecialCode,
             NEW id \in ConnectionId, Connect(e, target, code, id)
      PROVE  FALSE
  BY <1>4, ConnectDoes, SdkAssumption DEF TypeOK
<1>5. ASSUME NEW e \in Device, NEW m \in wire, NEW newId \in ConnectionId,
             AcceptRequest(e, m, newId)
      PROVE  Gone(x, i)' /\ Fresh(x, i)' /\ Alone(i)'
  <2>1. /\ m.to = e /\ m.body.kind = "request" /\ nextConnectionId[e] <= newId
        /\ nextConnectionId'[x] = IF x = e THEN newId + 1 ELSE nextConnectionId[x]
        /\ UNCHANGED closed
        /\ \/ connections'[x][i] = connections[x][i]
           \/ /\ connections'[x][i] = Accepted(m.body)
              /\ x = e /\ i = Combined(m.body.connId, newId)
        /\ e # d => /\ connections'[d][i] = connections[d][i]
                    /\ connections'[d][p] = connections[d][p]
    BY <1>5, AcceptDoes
  <2>2. m.body.from = d /\ m.body.connId = p
    BY <2>1 DEF OneSession
  <2>3. e # d
    BY <2>1, <2>2 DEF WireInv, NoEcho
  <2>4. /\ nextConnectionId'[x] \in Int /\ nextConnectionId[x] <= nextConnectionId'[x]
        /\ newId \in Int /\ p \in Nat \ {0}
    BY <1>0, <2>1, SdkAssumption DEF ConnectionId
  <2>5. Alone(i)'
    BY <1>0, <2>1, <2>3 DEF Entered, Known
  <2>6. CASE connections'[x][i] = connections[x][i]
    <3>1. Gone(x, i)'
      BY <1>0, <2>1, <2>6 DEF Known
    <3>2. Fresh(x, i)'
      BY <1>0, <1>1, <2>1, <2>4, <2>6 DEF Entered, Known
    <3> QED
      BY <2>5, <3>1, <3>2
  <2>7. CASE x = e /\ i = p * newId
    <3>1. newId \in 1..(nextConnectionId'[x] - 1)
      BY <2>1, <2>4, <2>7 DEF ConnectionId
    <3>2. Fresh(x, i)'
      BY <2>7, <3>1
    <3>3. i \notin closed[x]
      <4>1. SUFFICES ASSUME i \in closed[x] PROVE FALSE
        OBVIOUS
      <4>2. PICK n \in 1..(nextConnectionId[e] - 1) : i = p * n
        BY <1>0, <2>3, <2>7, <4>1 DEF Entered
      <4>3. n \in Nat /\ newId \in Nat /\ p * n = p * newId
        BY <1>0, <2>7, <4>2, SdkAssumption DEF ConnectionId
      <4>4. n = newId
        BY <2>4, <4>3, CombinedInjective
      <4> QED
        BY <1>0, <2>1, <4>2, <4>4, SdkAssumption
    <3> QED
      BY <2>1, <2>5, <3>2, <3>3
  <2> QED
    BY <2>1, <2>2, <2>6, <2>7 DEF Combined
<1>6. ASSUME NEW e \in Device, NEW m \in wire, HandleResponse(e, m)
      PROVE  Gone(x, i)' /\ Fresh(x, i)' /\ Alone(i)'
  <2>1. PICK initial, id, moved :
            Moves(e, m, initial, id, moved) /\ MovesOnly(e, m, initial, id, moved)
    BY <1>6, ResponseDoes
  <2>2. /\ m.body.kind = "response" /\ initial = m.body.connId
        /\ Known(e, initial) /\ initial \in ConnectionId /\ id \in ConnectionId /\ ~IsPrime(id)
        /\ connections[e][initial].opened = initial /\ initial # 0
    BY <2>1 DEF Moves, ConnectionId
  <2>3. e = d /\ initial = p
    BY <2>2 DEF OneSession
  <2>4. /\ \A y \in Device, j \in ConnectionId :
              connections'[y][j] = IF y = d /\ j = id THEN moved
                                   ELSE IF y = d /\ j = p THEN NoConnection
                                   ELSE connections[y][j]
        /\ UNCHANGED <<closed, nextConnectionId>>
    BY <2>1, <2>3 DEF MovesOnly
  <2>5. ~Known(d, p)'
    BY <2>2, <2>4 DEF Known
  <2>6. x = d => i \notin closed[x] \/ i = p
    BY <1>0, <2>2, <2>3 DEF Entered
  <2>7. x # d => connections'[x][i] = connections[x][i]
    BY <2>4
  <2> QED
    BY <1>0, <2>4, <2>5, <2>6, <2>7 DEF Entered, Known
<1>7. ASSUME NEW e \in Device, NEW m \in wire, HandleFinalConfirmation(e, m)
      PROVE  Gone(x, i)' /\ Fresh(x, i)' /\ Alone(i)'
  <2>1. PICK id, new : Activates(e, m, id, new)
    BY <1>7, FinalDoes
  <2>2. /\ \A y \in Device, j \in ConnectionId : Known(y, j)' <=> Known(y, j)
        /\ UNCHANGED <<closed, nextConnectionId>>
    BY <2>1 DEF Activates, Known
  <2> QED
    BY <1>0, <2>2 DEF Entered
<1>8. CASE UNCHANGED vars
  BY <1>2, <1>8 DEF vars, protocolVars, history
<1> QED
  BY <1>3, <1>4, <1>5, <1>6, <1>7, <1>8, StepShapes

(* Lemma: every step keeps the single session.                               *)
LEMMA SingleStep ==
    ASSUME TypeOK, IdsInv, WireInv, SingleInv, [Next]_vars
    PROVE  SingleInv'
<1>0. connects \in Nat
  BY SdkAssumption DEF TypeOK
<1>1. ASSUME NEW d \in Device, NEW target \in Device \ {d}, NEW code \in SpecialCode,
             NEW id \in ConnectionId, Connect(d, target, code, id)
      PROVE  SingleInv'
  <2>1. connects' = connects + 1
    BY <1>1, ConnectDoes
  <2>2. CASE connects = 0
    BY <1>1, <2>1, <2>2, FirstConnect DEF SingleInv
  <2> QED
    BY <1>0, <2>1, <2>2 DEF SingleInv
<1>2. CASE connects' = connects
  <2>1. CASE connects = 0
    <3>1. wire = {} /\ \A e \in Device, i \in ConnectionId : ~Entered(e, i)
      BY <2>1 DEF SingleInv
    <3>2. ASSUME NEW d \in Device, NEW ids \in SUBSET ConnectionId, Removal(d, ids)
          PROVE  wire' = {} /\ \A e \in Device, i \in ConnectionId : ~Entered(e, i)'
      <4>1. ids = {}
        BY <3>1, <3>2 DEF Removal, Entered
      <4>2. wire' = {}
        BY <3>1, <3>2 DEF Removal, Entered
      <4>3. \A e \in Device, i \in ConnectionId :
                /\ connections'[e][i] = connections[e][i]
                /\ closed'[e] = closed[e]
        BY <3>2, <4>1 DEF Removal
      <4> QED
        BY <3>1, <4>2, <4>3 DEF Entered, Known
    <3>3. ASSUME NEW d \in Device, NEW target \in Device \ {d}, NEW code \in SpecialCode,
                 NEW id \in ConnectionId, Connect(d, target, code, id)
          PROVE  FALSE
      BY <1>0, <1>2, <3>3, ConnectDoes
    <3>4. ASSUME UNCHANGED vars
          PROVE  wire' = {} /\ \A e \in Device, i \in ConnectionId : ~Entered(e, i)'
      BY <3>1, <3>4 DEF vars, protocolVars, history, Entered, Known
    <3>5. wire' = {} /\ \A e \in Device, i \in ConnectionId : ~Entered(e, i)'
      BY <3>1, <3>2, <3>3, <3>4, StepShapes
    <3> QED
      BY <1>2, <2>1, <3>5 DEF SingleInv, Entered, Known
  <2>2. CASE connects = 1
    <3>1. PICK d \in Device, p \in ConnectionId, s \in SpecialCode :
              /\ IsPrime(p) /\ OneSession(d, p, s)
              /\ NoEcho => FreshNumbers(d, p)
      BY <2>2 DEF SingleInv
    <3>2. OneSession(d, p, s)'
      BY <1>2, <3>1, SessionGoesOn
    <3>3. NoEcho => FreshNumbers(d, p)'
      BY <1>2, <3>1, FreshGoesOn
    <3> QED
      BY <1>2, <2>2, <3>1, <3>2, <3>3 DEF SingleInv
  <2> QED
    BY <1>2, <2>1, <2>2 DEF SingleInv
<1>3. ASSUME ~\E d \in Device, code \in SpecialCode, id \in ConnectionId :
                 \E target \in Device \ {d} : Connect(d, target, code, id)
      PROVE  connects' = connects
  BY <1>3, StepShapes, ResponseDoes, FinalDoes, AcceptDoes
  DEF Removal, MovesOnly, Activates, vars, boundVars
<1> QED
  BY <1>1, <1>2, <1>3

-----------------------------------------------------------------------------
(* Theorems *)

LEMMA SdkInit ==
    ASSUME Init
    PROVE  SdkInv
<1>1. \A d \in Device, id \in ConnectionId :
          /\ connections[d][id] = NoConnection /\ heartbeats[d][id] = "none"
          /\ answers[d][id] = 0 /\ onConnected[d][id] = 0
          /\ id \notin closed[d] /\ id \notin pendingHandshakes[d]
  BY DEF Init
<1>2. TypeOK
  BY SdkAssumption DEF Init, TypeOK, ConnectionId
<1>3. TablesAgree
  BY <1>1 DEF TablesAgree, Known
<1>4. IdsInv
  BY <1>1 DEF IdsInv, Known
<1>5. WireInv
  BY DEF Init, WireInv
<1>6. PeerInv
  BY <1>1 DEF PeerInv, Active, Known
<1>7. AnswersInv
  BY <1>1 DEF AnswersInv
<1>8. SingleInv
  BY <1>1 DEF Init, SingleInv, Entered, Known
<1>9. SessionsInv
  <2>1. \A d, e \in Device, id \in ConnectionId : Sessions(d, e, id) = {}
    BY <1>1 DEF Init, Sessions, Past, Known
  <2> QED
    BY <2>1 DEF SessionsInv
<1> QED
  BY <1>2, <1>3, <1>4, <1>5, <1>6, <1>7, <1>8, <1>9 DEF SdkInv

LEMMA SdkStep ==
    ASSUME SdkInv, [Next]_vars
    PROVE  SdkInv'
<1>1. TypeOK'
  BY TypeStep DEF SdkInv
<1>2. TablesAgree'
  BY TablesStep DEF SdkInv
<1>3. IdsInv' /\ WireInv' /\ PeerInv' /\ SingleInv'
  BY IdsStep, WireStep, PeerStep, SingleStep DEF SdkInv
<1>4. RolesApart => AnswersInv'
  BY AnswersStep DEF SdkInv
<1>5. SessionsInv'
  BY SessionsStep DEF SdkInv
<1> QED
  BY <1>1, <1>2, <1>3, <1>4, <1>5 DEF SdkInv, RolesApart

(* The inductive invariant holds: whatever the medium delays, loses or       *)
(* repeats, whoever connects how often.                                      *)
THEOREM SdkSafe == Spec => []SdkInv
<1>1. Init => SdkInv
  BY SdkInit
<1>2. SdkInv /\ [Next]_vars => SdkInv'
  BY SdkStep
<1> QED
  BY <1>1, <1>2, PTL DEF Spec

(* The variables keep their types; in particular a combined id that a        *)
(* response tells is one that validateConnectionId accepts.                  *)
THEOREM SdkTypes == Spec => []TypeOK
<1>1. SdkInv => TypeOK
  BY DEF SdkInv
<1> QED
  BY <1>1, SdkSafe, PTL

(* The tables of connections, heartbeats and deadlines agree, for any number *)
(* of concurrent connects, timeouts and disconnects.                         *)
THEOREM TablesAgreeAlways == Spec => []TablesAgree
<1>1. SdkInv => TablesAgree
  BY DEF SdkInv
<1> QED
  BY <1>1, SdkSafe, PTL

(* An active connection that was opened here was accepted by another device, *)
(* if no device hears itself.                                                *)
THEOREM ActiveHasPeerAlways ==
    ASSUME NoEcho
    PROVE  Spec => []ActiveHasPeer
<1>1. SdkInv => ActiveHasPeer
  <2> SUFFICES ASSUME SdkInv, NEW d \in Device, NEW id \in ConnectionId,
                      Active(d, id), connections[d][id].opened # 0
               PROVE  \E e \in Device \ {d} : Known(e, id) \/ id \in closed[e]
    BY DEF ActiveHasPeer
  <2>1. PICK e \in Device : d \in Listeners[e] /\ Entered(e, id)
    BY DEF SdkInv, PeerInv
  <2> QED
    BY <2>1 DEF NoEcho, Entered
<1> QED
  BY <1>1, SdkSafe, PTL

(* A connection that was accepted becomes active only when the device that   *)
(* opened it was told, if no device hears itself.                            *)
THEOREM ThreeWayAlways ==
    ASSUME NoEcho
    PROVE  Spec => []ThreeWay
<1>1. SdkInv => ThreeWay
  <2> SUFFICES ASSUME SdkInv, NEW d \in Device, NEW id \in ConnectionId,
                      Active(d, id), connections[d][id].opened = 0
               PROVE  \E e \in Device \ {d} : onConnected[e][id] > 0
    BY DEF ThreeWay
  <2>1. PICK e \in Device : d \in Listeners[e] /\ onConnected[e][id] > 0
    BY DEF SdkInv, PeerInv
  <2> QED
    BY <2>1 DEF NoEcho
<1> QED
  BY <1>1, SdkSafe, PTL

(* Every connect is answered at most once, however often a request is        *)
(* repeated and however many connects are under way, if the devices that     *)
(* open connections do not hear one another.                                 *)
THEOREM OneAnswerAlways ==
    ASSUME RolesApart
    PROVE  Spec => []OneAnswer
<1>1. SdkInv => OneAnswer
  BY DEF SdkInv, AnswersInv, OneAnswer
<1> QED
  BY <1>1, SdkSafe, PTL

(* Two devices that hear only each other hold, under the same number, the    *)
(* ends of one session, whoever connects how often and whatever is lost, late *)
(* or repeated -- unless their counters have made the number in two ways.    *)
THEOREM SameSessionAlways == Spec => []SameSession
<1>1. SdkInv => SameSession
  <2> SUFFICES ASSUME SdkInv,
                      NEW d \in Device, NEW e \in Device, NEW id \in ConnectionId,
                      d # e, HearEachOther(d, e), Past(d, id), Past(e, id),
                      ~TwoWays(d, e, id)
               PROVE  /\ connections[d][id].specialCode = connections[e][id].specialCode
                      /\ connections[d][id].opened = 0 <=> connections[e][id].opened # 0
    BY DEF SameSession
  <2>1. \A x, y \in Sessions(d, e, id) : x = y
    BY DEF SdkInv, SessionsInv
  <2>2. ASSUME NEW y \in {d, e}
        PROVE  EntryTells(d, e, y, id) \in Sessions(d, e, id)
    BY DEF Sessions
  <2>3. EntryTells(d, e, d, id) = EntryTells(d, e, e, id)
    BY <2>1, <2>2
  <2> QED
    BY <2>3 DEF EntryTells, Other
<1> QED
  BY <1>1, SdkSafe, PTL

(* As long as connect was called once, no message brings back a connection   *)
(* that was closed, if no device hears itself.                               *)
THEOREM NoResurrectionOfOne ==
    ASSUME NoEcho
    PROVE  Spec /\ [](connects <= 1) => NoResurrection
<1>1. ASSUME SdkInv, SdkInv', (connects <= 1)', [Next]_vars
      PROVE  [\A d \in Device : \A id \in closed[d] : ~Known(d, id)']_vars
  <2> SUFFICES ASSUME NEW d \in Device, NEW id \in closed[d]
               PROVE  ~Known(d, id)'
    OBVIOUS
  <2>1. TypeOK /\ IdsInv /\ WireInv /\ SingleInv'
    BY <1>1 DEF SdkInv
  <2>2. id \in ConnectionId
    BY <2>1 DEF TypeOK
  <2>3. closed[d] \subseteq closed'[d]
    BY <1>1, <2>1, ClosedGrows
  <2>4. connects' \in Nat
    BY <1>1, SdkAssumption DEF SdkInv, TypeOK
  <2>5. CASE connects' = 0
    BY <2>1, <2>2, <2>5 DEF SingleInv, Entered, Known
  <2>6. CASE connects' = 1
    <3>1. PICK e \in Device, p \in ConnectionId : FreshNumbers(e, p)'
      BY <2>1, <2>6 DEF SingleInv, FreshNumbers, Entered, Known
    <3> QED
      BY <2>2, <2>3, <3>1 DEF FreshNumbers, Known
  <2> QED
    BY <1>1, <2>4, <2>5, <2>6
<1> QED
  BY <1>1, SdkSafe, PTL DEF Spec, NoResurrection

=============================================================================
