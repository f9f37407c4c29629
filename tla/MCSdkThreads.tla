---------------------------- MODULE MCSdkThreads ----------------------------
(* Instances of SdkThreads for TLC. *)
EXTENDS ThreadsInvariant

Any    == OfConnection \X {"own", "other"}
Configure == {<<"setRetransmissionConfig", "device">>}
Device == {<<"connect", "device">>} \cup Configure

(* All that callbacks may do without harm: none of them may shut the SDK     *)
(* down, none that runs under a use of its connection may disconnect it, nor *)
(* replace itself while it runs, nor connect under a loop or an iterator     *)
(* that stands in a table.  onDisconnected may run under the onMessage of    *)
(* another connection, which it must not replace, and under a disconnect of  *)
(* another, and may disconnect nothing.                                      *)
Harmless ==
    [c \in Callback |->
        CASE c = "onMessage" ->
                 Device \cup (Any \ {<<"disconnect", "own">>, <<"setOnMessageHandler", "own">>})
          [] c \in {"onConnectionEstablished", "onConnected"} ->
                 Device \cup (Any \ {<<"disconnect", "own">>})
          [] c = "onMissed" -> Configure \cup (Any \ {<<"disconnect", "own">>})
          [] c = "onDisconnected" -> Configure \cup
                 {<<"setOnMessageHandler", "own">>, <<"setOnDisconnected", "other">>}
          [] OTHER -> Device \cup Any]

(* Both numbers make the same product.                                       *)
TwoNumbers == [n \in 1..2 |-> {3}]
OneNumber  == [n \in 1..1 |-> {2}]

(* What docs/ARCHITECTURE.md:658 tells the user to do.                       *)
AsDocumented ==
    [c \in Callback |-> IF c = "onMissed" THEN {<<"disconnect", "own">>} ELSE {}]

=============================================================================
