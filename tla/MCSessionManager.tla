-------------------------- MODULE MCSessionManager --------------------------
(* Instances of SessionManager for TLC. *)
EXTENDS SessionInvariant, TLC

CONSTANTS a, b

(* Two devices, each the other's configured UDP remote. *)
Pair == (a :> {b}) @@ (b :> {a})

(* One device sends, one message or two. *)
OneSends  == (a :> 1) @@ (b :> 0)
TwoSends  == (a :> 2) @@ (b :> 0)

=============================================================================
