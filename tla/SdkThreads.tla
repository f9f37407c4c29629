----------------------------- MODULE SdkThreads -----------------------------
(***************************************************************************)
(* The threads of one device and what they call of one another             *)
(* (Sdk/src/EminentSdk.cpp, Session_Manager/src/SessionManager.cpp).       *)
(*                                                                         *)
(* The application, the heartbeat thread, the worker of the physical layer *)
(* -- it runs every handler -- and the worker of the session manager call  *)
(* the application back, and a callback may call the SDK again, on its own *)
(* thread, over the frames of what called it.  So every thread is a stack  *)
(* of frames, the innermost first.  A frame says which mutexes it holds    *)
(* until it returns and which objects it uses after what it called.        *)
(*                                                                         *)
(* What the peers make of all this is the subject of EminentSdk; here a    *)
(* connection is its status and whether it carries connect's functions.    *)
(* The device hands out numbers one after the other; once both sides have  *)
(* given theirs the connection is moved to the product of the two, where   *)
(* another connection may be already.                                      *)
(***************************************************************************)
EXTENDS Integers, Sequences

CONSTANTS
    MaxNumber, \* bound: the numbers this device hands out, one after the other
    MaxId,     \* the ids: these numbers, and after them the products
    Products,  \* Products[n]: what number n makes with the numbers of peers
    MayCall    \* MayCall[c]: what callback c may call, of which connection

Callback == {"onMessage", "onDisconnected", "onConnected", "onConnectionEstablished",
             "onIncomingConnectionDecision", "onFailure", "onMissed", "onDelivered"}

(* The operations on a connection; those on the device have id 0. *)
OfConnection == {"disconnect", "setOnMessageHandler", "setOnDisconnected"}
OfDevice     == {"connect", "setRetransmissionConfig", "shutdown"}

(* A callback may treat the connection it was called for unlike the others. *)
Call == (OfConnection \X {"own", "other"}) \cup (OfDevice \X {"device"})

Number  == 1..MaxNumber
Product == (MaxNumber + 1)..MaxId
Id      == 1..MaxId

ASSUME ThreadsAssumption ==
    /\ MaxNumber \in Nat /\ MaxId \in Nat /\ MaxNumber <= MaxId
    /\ Products \in [Number -> SUBSET Product]
    /\ MayCall \in [Callback -> SUBSET Call]

Thread == {"application", "heartbeat", "receive", "session"}
Mutex  == {"mutex", "queueMutex"}

(* What may be destroyed while a frame still uses it: the entries of two    *)
(* tables and the functions stored in a connection; and the position at     *)
(* which a loop or an iterator stands in a table, which an insertion may    *)
(* make worthless (a rehash, a reallocation).                               *)
Position == {"connections", "heartbeats", "pendingHandshakes"} \X {0}
Object ==
    ({"connection", "heartbeat", "onMessage", "onDisconnected", "onConnected"} \X Id)
        \cup Position

VARIABLES
    connections,       \* connections_: the status of each
    heartbeats,        \* heartbeats_
    opened,            \* the connections that carry the functions given to connect
    nextConnectionId,  \* the next number to be used
    initialized,       \* initialized_
    shutdownRequested, \* shutdownRequested_
    stopHeartbeat,     \* stopHeartbeat_
    members,           \* how far the destructor is
    stack,             \* the frames of each thread
    (* What happened, for the properties: *)
    dangling,          \* an object was destroyed while a frame used it
    told               \* calls of onDisconnected, by connection; of those there are

tables == <<connections, heartbeats, opened, nextConnectionId>>
flags  == <<initialized, shutdownRequested, stopHeartbeat>>
vars   == <<tables, flags, members, stack, dangling, told>>

Known(id)  == connections[id] # "none"
Active(id) == connections[id] = "ACTIVE"

-----------------------------------------------------------------------------
(* Frames *)

Op == {"call", "shutdown", "setRetransmissionConfig", "disconnect", "destructor",
       "heartbeatLoop", "onMessageReceived", "handleMessage", "handleDisconnectMessage",
       "handleHandshakeRequest", "handleHandshakeResponse",
       "handleHandshakeFinalConfirmation"} \cup Callback

Place == {"lock", "running", "called", "told", "last", "begin", "join", "each", "tables",
          "members", "joinReceive", "joinSession", "check", "failures", "beats", "decided",
          "established"}

(* `id' is the connection meant, `todo' those a loop has still to visit. *)
Frame == [op : Op, at : Place, id : 0..MaxId, todo : SUBSET Id,
          uses : SUBSET Object, holds : SUBSET Mutex]

NewFrame(op, at, id) ==
    [op |-> op, at |-> at, id |-> id, todo |-> {}, uses |-> {}, holds |-> {}]

(* A callback that is stored in an object, or copied out of it: {}. *)
CallbackFrame(callback, id, stored) ==
    [NewFrame(callback, "running", id) EXCEPT !.uses = stored]

Top(t) == Head(stack[t])
At(t, op, at) == stack[t] # <<>> /\ Top(t).op = op /\ Top(t).at = at
Idle(t) == stack[t] = <<>>

(* The innermost frame is replaced: by its next place and what it calls, or  *)
(* by nothing when it returns.                                               *)
Replaced(t, frames) == [stack EXCEPT ![t] = frames \o Tail(@)]
Continue(t, frames) == stack' = Replaced(t, frames)
Return(t) == Continue(t, <<>>)

FramesOf(s, t) == {s[t][i] : i \in DOMAIN s[t]}
Holds(t, m) == \E frame \in FramesOf(stack, t) : m \in frame.holds

(* mutex_ is recursive, queueMutex_ is not. *)
Recursive == {"mutex"}
Free(t, m) == \A u \in Thread : (u # t \/ m \notin Recursive) => ~Holds(u, m)

(* What a frame waits for. *)
NeedsQueueMutex == {"setRetransmissionConfig"}
Wanted(frame) ==
    IF frame.at # "lock" THEN {}
    ELSE IF frame.op \in NeedsQueueMutex THEN {"queueMutex"} ELSE {"mutex"}

Locking(t, op) == At(t, op, "lock") /\ \A m \in Wanted(Top(t)) : Free(t, m)

(* The call the thread is making may be this one: always if the application  *)
(* makes it, else if the callback that makes it may.                         *)
Permitted(t, op, id) ==
    Len(stack[t]) > 1 =>
       LET by == stack[t][2]
       IN  <<op, IF id = 0 THEN "device" ELSE IF id = by.id THEN "own" ELSE "other">>
               \in MayCall[by.op]

(* Objects go: was one of them in use by a frame of the stacks s? *)
Destroy(objects, s) ==
    dangling' = (dangling \/ \E t \in Thread : \E frame \in FramesOf(s, t) :
                                 frame.uses \cap objects # {})
FunctionsOf(id) == {"onMessage", "onDisconnected", "onConnected"} \X {id}
EntryOf(id) == {<<"connection", id>>} \cup FunctionsOf(id)
BeatOf(id)  == {<<"heartbeat", id>>}
PositionIn(table)  == {<<table, 0>>}

-----------------------------------------------------------------------------
Init ==
    /\ connections = [id \in Id |-> "none"]
    /\ heartbeats = {}
    /\ opened = {}
    /\ nextConnectionId = 1
    /\ initialized = FALSE
    /\ shutdownRequested = FALSE
    /\ stopHeartbeat = FALSE
    /\ members = "alive"
    /\ stack = [t \in Thread |-> <<>>]
    /\ dangling = FALSE
    /\ told = [id \in Id |-> 0]

(* initialize starts the heartbeat thread; the application calls it once,    *)
(* before shutdown.                                                          *)
Initialize ==
    /\ Idle("application") /\ members = "alive"
    /\ ~initialized /\ ~shutdownRequested
    /\ initialized' = TRUE
    /\ stopHeartbeat' = FALSE
    /\ stack' = [stack EXCEPT !["heartbeat"] = <<NewFrame("heartbeatLoop", "check", 0)>>]
    /\ UNCHANGED <<tables, shutdownRequested, members, dangling, told>>

(* Calls.  Most take the mutex before anything else: which call it is shows  *)
(* when it has it.  The other two say what they are.                         *)
Entry == {"call", "shutdown", "setRetransmissionConfig"}
Entered(op) == NewFrame(op, IF op = "shutdown" THEN "begin" ELSE "lock", 0)

ApplicationCalls(op) ==
    /\ Idle("application") /\ members = "alive"
    /\ stack' = [stack EXCEPT !["application"] = <<Entered(op)>>]
    /\ UNCHANGED <<tables, flags, members, dangling, told>>

(* At most one call of each callback. *)
CallbackCalls(t, op) ==
    /\ ~Idle(t) /\ Top(t).op \in Callback /\ Top(t).at = "running"
    /\ op = "call" \/ <<op, "device">> \in MayCall[Top(t).op]
    /\ Continue(t, <<Entered(op), [Top(t) EXCEPT !.at = "called"]>>)
    /\ UNCHANGED <<tables, flags, members, dangling, told>>

CallbackReturns(t) ==
    /\ ~Idle(t) /\ Top(t).op \in Callback
    /\ Return(t)
    /\ UNCHANGED <<tables, flags, members, dangling, told>>

-----------------------------------------------------------------------------
(* Operations.  Each begins where its thread gets the mutex it waits for. *)

Holding(op, id, at) == [NewFrame(op, at, id) EXCEPT !.holds = {"mutex"}]

(* A call that finds no such connection, or changes nothing of this module:  *)
(* send, setDefaultPriority, getStats; a message for an unknown connection.  *)
CallInVain(t) ==
    /\ Locking(t, "call") \/ Locking(t, "onMessageReceived")
    /\ Return(t)
    /\ UNCHANGED <<tables, flags, members, dangling, told>>

(* disconnect and handleDisconnectMessage: the iterator found is used after  *)
(* onDisconnected, its element and its position in the table.                *)
Found(id) == {<<"connection", id>>} \cup PositionIn("connections")

RemoveBegin(t, op, id) ==
    /\ \/ op = "disconnect" /\ Locking(t, "call") /\ Permitted(t, op, id)
       \/ op = "handleDisconnectMessage" /\ Locking(t, "onMessageReceived")
    /\ Known(id)
    /\ told' = [told EXCEPT ![id] = @ + 1]
    /\ Continue(t, <<CallbackFrame("onDisconnected", id, {<<"onDisconnected", id>>}),
                     [Holding(op, id, "told") EXCEPT !.uses = Found(id)]>>)
    /\ UNCHANGED <<tables, flags, members, dangling>>

RemoveEnd(t, op) ==
    LET id == Top(t).id
    IN  /\ At(t, op, "told")
        /\ connections' = [connections EXCEPT ![id] = "none"]
        /\ heartbeats' = heartbeats \ {id}
        /\ opened' = opened \ {id}
        /\ told' = [told EXCEPT ![id] = 0]
        /\ Return(t)
        /\ Destroy(EntryOf(id) \cup BeatOf(id), stack')
        /\ UNCHANGED <<nextConnectionId, flags, members>>

NumbersLeft == nextConnectionId <= MaxNumber

(* connect puts something into three tables, each of which may move.         *)
Connect(t) ==
    /\ Locking(t, "call") /\ Permitted(t, "connect", 0)
    /\ NumbersLeft
    /\ nextConnectionId' = nextConnectionId + 1
    /\ connections' = [connections EXCEPT ![nextConnectionId] = "PENDING"]
    /\ heartbeats' = heartbeats \cup {nextConnectionId}
    /\ opened' = opened \cup {nextConnectionId}
    /\ Return(t)
    /\ Destroy(Position, stack')
    /\ UNCHANGED <<flags, members, told>>

(* setOnMessageHandler, setOnDisconnected: the function set before goes. *)
SetHandler(t, op, handler, id) ==
    /\ Locking(t, "call") /\ Permitted(t, op, id)
    /\ Known(id)
    /\ Return(t)
    /\ Destroy({<<handler, id>>}, stack')
    /\ UNCHANGED <<tables, flags, members, told>>

(* setRetransmissionConfig takes the session manager's mutex. *)
SetRetransmissionConfig(t) ==
    /\ Locking(t, "setRetransmissionConfig")
    /\ Return(t)
    /\ UNCHANGED <<tables, flags, members, dangling, told>>

-----------------------------------------------------------------------------
(* shutdown *)

ShutdownBegin(t) ==
    /\ At(t, "shutdown", "begin")
    /\ \/ shutdownRequested /\ Return(t) /\ UNCHANGED flags
       \/ /\ ~shutdownRequested
          /\ shutdownRequested' = TRUE
          /\ stopHeartbeat' = TRUE
          /\ Continue(t, <<[Top(t) EXCEPT !.at = "join"]>>)
          /\ UNCHANGED initialized
    /\ UNCHANGED <<tables, members, dangling, told>>

NotJoined == TRUE \* mutant
HeartbeatEnded == Idle("heartbeat")

ShutdownJoin(t) ==
    /\ At(t, "shutdown", "join") /\ HeartbeatEnded
    /\ Continue(t, <<[Top(t) EXCEPT !.at = "lock"]>>)
    /\ UNCHANGED <<tables, flags, members, dangling, told>>

OnlyOpened == {id \in opened : Active(id)} \* mutant: those accepted are forgotten
ToDisconnect == {id \in Id : Active(id)}

ShutdownLocked(t) ==
    /\ Locking(t, "shutdown")
    /\ Continue(t, <<[Holding("shutdown", 0, "each") EXCEPT !.todo = ToDisconnect]>>)
    /\ UNCHANGED <<tables, flags, members, dangling, told>>

(* The loop is over a copy of the ids and looks each up again. *)
ShutdownEach(t, id) ==
    LET rest == [Top(t) EXCEPT !.todo = @ \ {id}]
    IN  /\ At(t, "shutdown", "each") /\ id \in Top(t).todo
        /\ \/ ~Known(id) /\ Continue(t, <<rest>>) /\ UNCHANGED told
           \/ /\ Known(id)
              /\ told' = [told EXCEPT ![id] = @ + 1]
              /\ Continue(t, <<CallbackFrame("onDisconnected", id,
                                             {<<"onDisconnected", id>>}), rest>>)
        /\ UNCHANGED <<tables, flags, members, dangling>>

ShutdownEnd(t) ==
    /\ At(t, "shutdown", "each") /\ Top(t).todo = {}
    /\ connections' = [id \in Id |-> "none"]
    /\ heartbeats' = {}
    /\ opened' = {}
    /\ told' = [id \in Id |-> 0]
    /\ Return(t)
    /\ Destroy(Object, stack')
    /\ UNCHANGED <<nextConnectionId, flags, members>>

(* The destructor: shutdown, then the members, the last declared first.  So  *)
(* heartbeats_, the crypto module and connectionKeyMap_ go while both workers *)
(* still run; then the physical layer joins its worker, and later the session *)
(* manager its own.                                                          *)
DestructorBegin ==
    /\ Idle("application") /\ members = "alive"
    /\ stack' = [stack EXCEPT !["application"] =
                     <<Entered("shutdown"), NewFrame("destructor", "tables", 0)>>]
    /\ UNCHANGED <<tables, flags, members, dangling, told>>

DestructorStep(at, next, done) ==
    /\ At("application", "destructor", at)
    /\ members' = done
    /\ Continue("application", IF next = "end" THEN <<>>
                                ELSE <<NewFrame("destructor", next, 0)>>)
    /\ UNCHANGED <<connections, opened, nextConnectionId, flags, dangling, told>>

DestroyTables ==
    heartbeats' = {} /\ DestructorStep("tables", "members", "tablesGone")
DestroyPhysicalLayer ==
    UNCHANGED heartbeats /\ DestructorStep("members", "joinReceive", "receiverStopped")
DestroySessionManager ==
    /\ Idle("receive")
    /\ UNCHANGED heartbeats /\ DestructorStep("joinReceive", "joinSession", "sessionStopped")
DestroyRest ==
    /\ Idle("session")
    /\ UNCHANGED heartbeats /\ DestructorStep("joinSession", "end", "gone")

(* A worker that has the mutex looks into what is destroyed.  It may find the *)
(* table empty, as the other actions have it, or it ends the process.        *)
UsesDestroyed(t) ==
    /\ members \in {"tablesGone", "receiverStopped", "sessionStopped"}
    /\ \/ Locking(t, "call") \/ Locking(t, "onMessageReceived")
       \/ At(t, "disconnect", "told") \/ At(t, "handleDisconnectMessage", "told")
    /\ members' = "crashed"
    /\ UNCHANGED <<tables, flags, stack, dangling, told>>

-----------------------------------------------------------------------------
(* The worker of the physical layer: onMessageReceived takes the mutex and   *)
(* calls the handler.                                                        *)

ReceiveBegin ==
    /\ Idle("receive") /\ members \in {"alive", "tablesGone"}
    /\ stack' = [stack EXCEPT !["receive"] = <<NewFrame("onMessageReceived", "lock", 0)>>]
    /\ UNCHANGED <<tables, flags, members, dangling, told>>

(* handleAckPackage, and the session manager's worker after its pass: they   *)
(* let go of the queue's mutex before onDelivered.                           *)
DeliveryUnderLock == {"queueMutex"} \* mutant
HeldByDelivery == {}

Delivered(t) ==
    /\ t \in {"receive", "session"} /\ Idle(t)
    /\ members \in {"alive", "tablesGone"} \/ (t = "session" /\ members = "receiverStopped")
    /\ Free(t, "queueMutex")
    /\ stack' = [stack EXCEPT ![t] =
                    <<[CallbackFrame("onDelivered", 0, {}) EXCEPT !.holds = HeldByDelivery]>>]
    /\ UNCHANGED <<tables, flags, members, dangling, told>>

HandleMessage(id) ==
    LET t == "receive"
    IN  /\ Locking(t, "onMessageReceived") /\ Known(id)
        /\ Continue(t, <<CallbackFrame("onMessage", id, {<<"onMessage", id>>}),
                         Holding("handleMessage", id, "last")>>)
        /\ UNCHANGED <<tables, flags, members, dangling, told>>

HandleRequest ==
    LET t == "receive"
    IN  /\ Locking(t, "onMessageReceived") /\ initialized
        /\ Continue(t, <<CallbackFrame("onIncomingConnectionDecision", 0, {}),
                         Holding("handleHandshakeRequest", 0, "decided")>>)
        /\ UNCHANGED <<tables, flags, members, dangling, told>>

(* Rejected; or a number is drawn, whose product with the peer's is refused  *)
(* or becomes the id, also of a connection that was there before.            *)
Accept(id) ==
    /\ connections' = [connections EXCEPT ![id] = "ACCEPTED"]
    /\ opened' = opened \ {id}
    /\ Destroy(FunctionsOf(id) \cup PositionIn("connections"), stack')

RequestDecided ==
    /\ At("receive", "handleHandshakeRequest", "decided")
    /\ Return("receive")
    /\ \/ UNCHANGED <<tables, dangling>>
       \/ /\ NumbersLeft
          /\ nextConnectionId' = nextConnectionId + 1
          /\ \/ UNCHANGED <<connections, opened, dangling>>
             \/ \E id \in Products[nextConnectionId] : Accept(id)
          /\ UNCHANGED heartbeats
    /\ UNCHANGED <<flags, members, told>>

(* The connection goes from the number connect gave it; it is moved to the   *)
(* product, also over a connection that was there before, unless that is     *)
(* refused.  What is called is the function of the copy that was moved.      *)
ResponseRefused(number) ==
    LET t == "receive"
    IN  /\ Locking(t, "onMessageReceived") /\ Known(number)
        /\ connections' = [connections EXCEPT ![number] = "none"]
        /\ opened' = opened \ {number}
        /\ Destroy(EntryOf(number), stack)
        /\ Return(t)
        /\ UNCHANGED <<heartbeats, nextConnectionId, flags, members, told>>

Renamed(ids, number, id) ==
    IF number \in ids THEN (ids \ {number}) \cup {id} ELSE ids

HandleResponse(number, id) ==
    LET t == "receive"
    IN  /\ Locking(t, "onMessageReceived") /\ Known(number)
        /\ id \in Products[number]
        /\ connections' = [connections EXCEPT ![number] = "none", ![id] = "ACTIVE"]
        /\ opened' = Renamed(opened \ {id}, number, id)
        /\ heartbeats' = Renamed(heartbeats, number, id)
        /\ Destroy(EntryOf(number) \cup BeatOf(number) \cup FunctionsOf(id) \cup BeatOf(id)
                       \cup Position, stack)
        /\ Continue(t, <<CallbackFrame("onConnected", id, {}),
                         Holding("handleHandshakeResponse", id, "last")>>)
        /\ UNCHANGED <<nextConnectionId, flags, members, told>>

(* The product is the id of a connection that was accepted or, if this       *)
(* device opened one of the same id, of that.  The reference to it is used   *)
(* after onConnectionEstablished, to call its onConnected where it is stored. *)
HandleFinalConfirmation(id) ==
    LET t == "receive"
        handler == [Holding("handleHandshakeFinalConfirmation", id, "established")
                       EXCEPT !.uses = {<<"connection", id>>}]
    IN  /\ Locking(t, "onMessageReceived") /\ Known(id)
        /\ connections' = [connections EXCEPT ![id] = "ACTIVE"]
        /\ Continue(t, IF Active(id) THEN <<handler>>
                       ELSE <<CallbackFrame("onConnectionEstablished", id, {}), handler>>)
        /\ UNCHANGED <<heartbeats, opened, nextConnectionId, flags, members, dangling, told>>

FinalConfirmed ==
    LET t  == "receive"
        id == Top(t).id
    IN  /\ At(t, "handleHandshakeFinalConfirmation", "established")
        /\ IF id \in opened
           THEN Continue(t, <<CallbackFrame("onConnected", id, {<<"onConnected", id>>}),
                              Holding("handleHandshakeFinalConfirmation", id, "last")>>)
           ELSE Return(t)
        /\ UNCHANGED <<tables, flags, members, dangling, told>>

HandlerReturns ==
    /\ ~Idle("receive") /\ Top("receive").at = "last"
    /\ Return("receive")
    /\ UNCHANGED <<tables, flags, members, dangling, told>>

-----------------------------------------------------------------------------
(* heartbeatLoop *)

LoopCheck ==
    LET t == "heartbeat"
    IN  /\ At(t, "heartbeatLoop", "check")
        /\ IF stopHeartbeat THEN Return(t) ELSE Continue(t, <<[Top(t) EXCEPT !.at = "lock"]>>)
        /\ UNCHANGED <<tables, flags, members, dangling, told>>

(* checkHandshakeTimeouts: what is over goes first, then the copies of its   *)
(* onFailure functions are called, outside the loop over pendingHandshakes_. *)
InsideTheLoop == PositionIn("pendingHandshakes") \* mutant
OutsideTheLoop == {}

LoopTimeouts(expired) ==
    LET t == "heartbeat"
    IN  /\ Locking(t, "heartbeatLoop")
        /\ connections' = [id \in Id |-> IF id \in expired THEN "none" ELSE connections[id]]
        /\ heartbeats' = heartbeats \ expired
        /\ opened' = opened \ expired
        /\ Continue(t, <<[Holding("heartbeatLoop", 0, "failures")
                             EXCEPT !.todo = expired, !.uses = OutsideTheLoop]>>)
        /\ Destroy(UNION {EntryOf(id) \cup BeatOf(id) : id \in expired}, stack)
        /\ UNCHANGED <<nextConnectionId, flags, members, told>>

LoopFailure(id) ==
    LET t == "heartbeat"
    IN  /\ At(t, "heartbeatLoop", "failures") /\ id \in Top(t).todo
        /\ Continue(t, <<CallbackFrame("onFailure", id, {}),
                         [Top(t) EXCEPT !.todo = @ \ {id}]>>)
        /\ UNCHANGED <<tables, flags, members, dangling, told>>

LoopBeats ==
    LET t == "heartbeat"
    IN  /\ At(t, "heartbeatLoop", "failures") /\ Top(t).todo = {}
        /\ Continue(t, <<[Top(t) EXCEPT !.at = "beats", !.todo = heartbeats, !.uses = {}]>>)
        /\ UNCHANGED <<tables, flags, members, dangling, told>>

(* A heartbeat that is overdue: the loop stands on the element whose         *)
(* onMissed it calls, uses it afterwards and goes on from there.             *)
LoopMissed(id) ==
    LET t == "heartbeat"
    IN  /\ At(t, "heartbeatLoop", "beats") /\ id \in Top(t).todo \cap heartbeats
        /\ Active(id)
        /\ Continue(t, <<CallbackFrame("onMissed", id, BeatOf(id)),
                         [Top(t) EXCEPT !.todo = @ \ {id},
                                        !.uses = BeatOf(id) \cup PositionIn("heartbeats")]>>)
        /\ UNCHANGED <<tables, flags, members, dangling, told>>

(* The others are not overdue. *)
LoopOver ==
    LET t == "heartbeat"
    IN  /\ At(t, "heartbeatLoop", "beats")
        /\ Continue(t, <<NewFrame("heartbeatLoop", "check", 0)>>)
        /\ UNCHANGED <<tables, flags, members, dangling, told>>

-----------------------------------------------------------------------------
(* What a thread does without being asked. *)
OperationStep(t) ==
    \/ CallbackReturns(t) \/ CallInVain(t) \/ Connect(t) \/ SetRetransmissionConfig(t)
    \/ ShutdownBegin(t) \/ ShutdownJoin(t) \/ ShutdownLocked(t) \/ ShutdownEnd(t)
    \/ \E op \in {"disconnect", "handleDisconnectMessage"} :
          RemoveEnd(t, op) \/ \E id \in Id : RemoveBegin(t, op, id)
    \/ \E id \in Id :
          \/ SetHandler(t, "setOnMessageHandler", "onMessage", id)
          \/ SetHandler(t, "setOnDisconnected", "onDisconnected", id)
          \/ ShutdownEach(t, id)

ApplicationStep ==
    \/ OperationStep("application")
    \/ DestroyTables \/ DestroyPhysicalLayer \/ DestroySessionManager \/ DestroyRest

ReceiveStep ==
    \/ OperationStep("receive")
    \/ HandleRequest \/ RequestDecided \/ FinalConfirmed \/ HandlerReturns
    \/ \E id \in Id : HandleMessage(id)
    \/ \E id \in Product : HandleFinalConfirmation(id)
    \/ \E number \in Number :
          ResponseRefused(number) \/ \E id \in Product : HandleResponse(number, id)

HeartbeatStep ==
    \/ OperationStep("heartbeat")
    \/ LoopCheck \/ LoopBeats \/ LoopOver
    \/ \E expired \in SUBSET {id \in Id : connections[id] = "PENDING"} : LoopTimeouts(expired)
    \/ \E id \in Id : LoopFailure(id) \/ LoopMissed(id)

SessionStep == OperationStep("session")

(* What the application and the network ask for. *)
Asked ==
    \/ Initialize \/ DestructorBegin \/ ReceiveBegin
    \/ \E op \in Entry :
          ApplicationCalls(op) \/ \E t \in Thread : CallbackCalls(t, op)
    \/ \E t \in {"receive", "session"} : Delivered(t)

(* The object, or the process, is gone; nothing else may bring the threads   *)
(* to a stop.                                                                *)
Gone == members \in {"gone", "crashed"} /\ UNCHANGED vars

Step == Asked \/ ApplicationStep \/ ReceiveStep \/ HeartbeatStep \/ SessionStep

Next == (members # "crashed" /\ (Step \/ \E t \in Thread : UsesDestroyed(t))) \/ Gone

Spec == Init /\ [][Next]_vars

-----------------------------------------------------------------------------
(* Properties *)

(* The type invariant; a connection under a number of this device is one     *)
(* that connect has opened and nobody has answered.                          *)
TypeOK ==
    /\ connections \in [Id -> {"none", "PENDING", "ACCEPTED", "ACTIVE"}]
    /\ \A number \in Number : connections[number] \in {"none", "PENDING"}
    /\ heartbeats \subseteq Id /\ opened \subseteq Id
    /\ nextConnectionId \in 1..(MaxNumber + 1)
    /\ initialized \in BOOLEAN /\ shutdownRequested \in BOOLEAN /\ stopHeartbeat \in BOOLEAN
    /\ members \in {"alive", "tablesGone", "receiverStopped", "sessionStopped", "gone", "crashed"}
    /\ stack \in [Thread -> Seq(Frame)]
    /\ dangling \in BOOLEAN
    /\ told \in [Id -> Nat]

(* No callback, whatever it calls of what it may call, destroys an object    *)
(* that the code below it on the stack still uses: the iterator of           *)
(* disconnect, the element the heartbeat loop stands on, the function that   *)
(* is being executed.                                                        *)
NothingPulledAway == ~dangling

(* No circle of threads of which each waits for a mutex held, or the end of  *)
(* the thread, of the next; nor does a thread wait for itself.               *)
Joins(frame) ==
    CASE frame.at = "join"        -> {"heartbeat"}
      [] frame.at = "joinReceive" -> {"receive"}
      [] frame.at = "joinSession" -> {"session"}
      [] OTHER                    -> {}

WaitsFor(t, u) ==
    /\ ~Idle(t) /\ ~Idle(u)
    /\ \/ u \in Joins(Top(t))
       \/ \E m \in Wanted(Top(t)) : Holds(u, m) /\ (u # t \/ m \notin Recursive)

Blocked == {t \in Thread : \E u \in Thread : WaitsFor(t, u)}

NoCircularWait ==
    \A circle \in (SUBSET Blocked) \ {{}} :
        \E t \in circle : \A u \in circle : ~WaitsFor(t, u)

(* The application is told once, by onDisconnected, when a connection that   *)
(* was active is removed, whoever removes it; and never twice of any.  It is *)
(* told nothing of one that handleHandshakeRequest or -Response overwrites   *)
(* with another connection of the same id (EminentSdk.cpp:343, :400): the id *)
(* stays, as an accepted or as another active connection.                    *)
ToldOnce ==
    [][\A id \in Id :
          /\ told'[id] <= 1
          /\ Active(id) /\ ~Active(id)' =>
                told[id] = 1 \/ connections'[id] = "ACCEPTED"]_vars

(* Once shutdown has passed its join no callback comes from the heartbeat    *)
(* thread any more; the physical layer's worker has ended before the session *)
(* manager and what is declared before it go, the session manager's own      *)
(* worker before the rest goes, mutex_ among it.  Nothing of this kind holds *)
(* for heartbeats_, the crypto module and connectionKeyMap_: both workers    *)
(* may still use them (UsesDestroyed).                                       *)
QuietAfterShutdown ==
    /\ \A t \in Thread : \A frame \in FramesOf(stack, t) :
           frame.op = "shutdown" /\ frame.at \in {"lock", "each"} => Idle("heartbeat")
    /\ members # "alive" => Idle("heartbeat")
    /\ members \in {"sessionStopped", "gone"} => Idle("receive")
    /\ members = "gone" => Idle("session")

=============================================================================
