-------------------------- MODULE ThreadsInvariant --------------------------
(***************************************************************************)
(* Why the threads of a device neither destroy what is in use nor wait for *)
(* one another: the inductive invariant of SdkThreads that ThreadsProofs   *)
(* proves.  It says which frame may stand on which, what each holds and    *)
(* uses, and that one thread at a time holds the mutex.                    *)
(***************************************************************************)
EXTENDS SdkThreads

(* What is asked of the application's callbacks: that none shuts the SDK    *)
(* down, which would wait for its own thread ...                            *)
NoneShutsDown == \A c \in Callback : <<"shutdown", "device">> \notin MayCall[c]

(* ... and that none takes away what is in use below it.                    *)
Careful ==
    /\ NoneShutsDown
    /\ \A c \in {"onMessage", "onConnectionEstablished", "onConnected", "onMissed",
                 "onDisconnected"} : <<"disconnect", "own">> \notin MayCall[c]
    /\ \A c \in {"onMissed", "onDisconnected"} : <<"connect", "device">> \notin MayCall[c]
    /\ <<"disconnect", "other">> \notin MayCall["onDisconnected"]
    /\ <<"setOnMessageHandler", "own">> \notin MayCall["onMessage"]
    /\ <<"setOnMessageHandler", "other">> \notin MayCall["onDisconnected"]
    /\ <<"setOnDisconnected", "own">> \notin MayCall["onDisconnected"]

-----------------------------------------------------------------------------
(* One frame *)

Removers == {"disconnect", "handleDisconnectMessage"}
Handlers == {"handleMessage", "handleHandshakeRequest", "handleHandshakeResponse",
             "handleHandshakeFinalConfirmation", "handleDisconnectMessage"}
Waiting  == {"call", "setRetransmissionConfig", "onMessageReceived"}

AtItsPlace(f) ==
    /\ f.op \in Waiting => f.at = "lock"
    /\ f.op \in Removers => f.at = "told" /\ f.id \in Id
    /\ f.op = "handleHandshakeRequest" => f.at = "decided"
    /\ f.op \in {"handleMessage", "handleHandshakeResponse"} => f.at = "last"
    /\ f.op = "handleHandshakeFinalConfirmation" =>
          f.at \in {"established", "last"} /\ f.id \in Id
    /\ f.op \in Callback => f.at \in {"running", "called"}
    /\ f.op = "shutdown" => f.at \in {"begin", "join", "lock", "each"}
    /\ f.op = "destructor" => f.at \in {"tables", "members", "joinReceive", "joinSession"}
    /\ f.op = "heartbeatLoop" => f.at \in {"check", "lock", "failures", "beats"}

(* The frames that hold the mutex. *)
Holder(f) ==
    \/ f.op \in Removers \cup Handlers
    \/ f.op = "shutdown" /\ f.at = "each"
    \/ f.op = "heartbeatLoop" /\ f.at \in {"failures", "beats"}

UsesInv(f) ==
    CASE f.op \in Removers -> f.uses = Found(f.id)
      [] f.op = "handleHandshakeFinalConfirmation" ->
             f.uses = IF f.at = "established" THEN {<<"connection", f.id>>} ELSE {}
      [] f.op = "onConnected" -> f.uses \subseteq {<<"onConnected", f.id>>}
      [] f.op \in {"onMessage", "onDisconnected"} -> f.uses = {<<f.op, f.id>>}
      [] f.op = "onMissed" -> f.uses = BeatOf(f.id)
      [] f.op = "heartbeatLoop" -> f.uses # {} => f.at = "beats"
      [] OTHER -> f.uses = {}

FrameInv(f) ==
    /\ AtItsPlace(f)
    /\ f.holds = IF Holder(f) THEN {"mutex"} ELSE {}
    /\ UsesInv(f)

-----------------------------------------------------------------------------
(* A stack of frames *)

(* Callback f, called by g. *)
CalledBack(f, g) ==
    \/ g.op \in Removers /\ f.op = "onDisconnected" /\ f.id = g.id
    \/ g.op = "shutdown" /\ g.at = "each" /\ f.op = "onDisconnected"
    \/ g.op = "handleMessage" /\ f.op = "onMessage" /\ f.id = g.id
    \/ g.op = "handleHandshakeRequest" /\ f.op = "onIncomingConnectionDecision"
    \/ g.op = "handleHandshakeResponse" /\ f.op = "onConnected"
    \/ /\ g.op = "handleHandshakeFinalConfirmation"
       /\ f.op = (IF g.at = "established" THEN "onConnectionEstablished" ELSE "onConnected")
       /\ f.id = g.id
    \/ g.op = "heartbeatLoop" /\ g.at = "failures" /\ f.op = "onFailure"
    \/ /\ g.op = "heartbeatLoop" /\ g.at = "beats" /\ f.op = "onMissed"
       /\ g.uses = BeatOf(f.id) \cup PositionIn("heartbeats")

(* Operation f, called by callback g. *)
CalledFrom(f, g) ==
    /\ g.op \in Callback /\ g.at = "called"
    /\ \/ f.op = "call"
       \/ f.op \in {"shutdown", "setRetransmissionConfig"} /\ <<f.op, "device">> \in MayCall[g.op]
       \/ /\ f.op = "disconnect"
          /\ <<f.op, IF f.id = g.id THEN "own" ELSE "other">> \in MayCall[g.op]

(* Frame f may stand on frame g. *)
StandsOn(f, g) ==
    \/ CalledBack(f, g)
    \/ CalledFrom(f, g)
    \/ f.op = "shutdown" /\ g.op = "destructor" /\ g.at = "tables"

(* The first frame of a thread. *)
Bottom(t, f) ==
    \/ /\ t = "application"
       /\ f.op \in {"call", "setRetransmissionConfig", "disconnect", "shutdown", "destructor"}
    \/ t = "receive" /\ f.op \in Handlers \cup {"onMessageReceived", "onDelivered"}
    \/ t = "heartbeat" /\ f.op = "heartbeatLoop"
    \/ t = "session" /\ f.op = "onDelivered"

GoodStack(t, s) ==
    /\ \A i \in 1..Len(s) : FrameInv(s[i])
    /\ \A i \in 1..(Len(s) - 1) : StandsOn(s[i], s[i + 1])
    /\ s # <<>> => Bottom(t, s[Len(s)])

StacksInv == \A t \in Thread : GoodStack(t, stack[t])

Started == initialized \/ Idle("heartbeat")

OneHolder == \A t, u \in Thread : Holds(t, "mutex") /\ Holds(u, "mutex") => t = u

-----------------------------------------------------------------------------
(* shutdown and destructor: the heartbeat thread ends before shutdown goes   *)
(* on, shutdown before the members go.                                       *)
QuietInv ==
    /\ \A t \in Thread : \A f \in FramesOf(stack, t) :
          f.op = "shutdown" /\ f.at # "begin" => shutdownRequested
    /\ shutdownRequested /\ ~At("application", "shutdown", "join") => Idle("heartbeat")
    /\ ~Idle("application") /\ Top("application").op = "destructor" => shutdownRequested
    /\ At("application", "destructor", "joinSession") =>
          members \in {"sessionStopped", "crashed"}
    /\ members # "alive" => Idle("heartbeat")
    /\ members \in {"sessionStopped", "gone"} => Idle("receive")
    /\ members = "gone" => Idle("session")

(* What is told is being removed, by one that will not tell it again.        *)
Removing(f, id) ==
    \/ f.op \in Removers /\ f.id = id
    \/ f.op = "shutdown" /\ f.at = "each" /\ id \notin f.todo

ToldInv ==
    /\ \A id \in Id : told[id] \in {0, 1}
    /\ \A id \in Id : told[id] # 0 =>
          \E t \in Thread : \E f \in FramesOf(stack, t) : Removing(f, id)
    /\ \A t \in Thread : \A f \in FramesOf(stack, t), id \in Id :
          Removing(f, id) /\ (f.op \in Removers \/ Active(id)) => told[id] = 1

ThreadsInv ==
    /\ TypeOK
    /\ StacksInv
    /\ Started
    /\ OneHolder
    /\ NoneShutsDown => QuietInv
    /\ Careful => NothingPulledAway /\ ToldInv

=============================================================================
