-------------------------- MODULE ReliableDelivery --------------------------
(***************************************************************************)
(* What a device may expect of the session manager for the messages it     *)
(* sends with requireAck: every message has at most one outcome, the       *)
(* outcome is final, and "confirmed" -- onDelivered ran -- is only         *)
(* possible for a message that arrived.  A message may still arrive after  *)
(* it was abandoned: the sender cannot know.                               *)
(***************************************************************************)
CONSTANTS Device, MessageId

VARIABLES
    outcome,  \* outcome[d][m], as the sender d sees its message m
    arrived   \* arrived[d]: the messages of d of which every byte has arrived

vars == <<outcome, arrived>>

Outcome == {"unsent", "inFlight", "confirmed", "abandoned"}

Init ==
    /\ outcome = [d \in Device |-> [m \in MessageId |-> "unsent"]]
    /\ arrived = [d \in Device |-> {}]

(* The sender takes the message over. *)
Submit(d, m) ==
    /\ outcome[d][m] = "unsent"
    /\ outcome' = [outcome EXCEPT ![d][m] = "inFlight"]
    /\ UNCHANGED arrived

(* The last missing byte of a message that was sent arrives. *)
Arrive(d, m) ==
    /\ outcome[d][m] # "unsent"
    /\ arrived' = [arrived EXCEPT ![d] = @ \cup {m}]
    /\ UNCHANGED outcome

(* The sender learns that the message arrived. *)
Confirm(d, m) ==
    /\ outcome[d][m] = "inFlight"
    /\ m \in arrived[d]
    /\ outcome' = [outcome EXCEPT ![d][m] = "confirmed"]
    /\ UNCHANGED arrived

(* The sender gives up messages, whether or not they arrived. *)
Abandon(d, given) ==
    /\ \A m \in given : outcome[d][m] = "inFlight"
    /\ outcome' = [outcome EXCEPT ![d] =
           [m \in MessageId |-> IF m \in given THEN "abandoned" ELSE @[m]]]
    /\ UNCHANGED arrived

Next ==
    \E d \in Device :
        \/ \E m \in MessageId : Submit(d, m) \/ Arrive(d, m) \/ Confirm(d, m)
        \/ \E given \in SUBSET MessageId : Abandon(d, given)

Spec == Init /\ [][Next]_vars

=============================================================================
