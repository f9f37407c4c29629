---------------------------- MODULE MCEminentSdk ----------------------------
(* Instances of EminentSdk for TLC. *)
EXTENDS SdkInvariant, TLC

CONSTANTS a, b, s, t

(* Two devices, each the other's configured UDP remote. *)
Pair == (a :> {b}) @@ (b :> {a})

(* The devices may exchange their roles, and so may the special codes.       *)
Alike == Permutations({a, b}) \cup Permutations({s, t})

=============================================================================
