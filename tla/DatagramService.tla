--------------------------- MODULE DatagramService ---------------------------
(***************************************************************************)
(* What the session manager takes the layers below it for: a service that  *)
(* delivers, to the others, only what was posted -- late, in any order, any *)
(* number of times or not at all.                                          *)
(***************************************************************************)
CONSTANTS Device, Frame  \* a frame has the field `from'

VARIABLES posted, delivered

Init == posted = {} /\ delivered = [d \in Device |-> {}]

Post(frame) ==
    /\ posted' = posted \cup {frame}
    /\ UNCHANGED delivered

Deliver(d, frame) ==
    /\ frame \in posted /\ frame.from # d
    /\ delivered' = [delivered EXCEPT ![d] = @ \cup {frame}]
    /\ UNCHANGED posted

Next == \E frame \in Frame : Post(frame) \/ \E d \in Device : Deliver(d, frame)

Spec == Init /\ [][Next]_<<posted, delivered>>

=============================================================================
