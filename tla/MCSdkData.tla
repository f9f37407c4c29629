----------------------------- MODULE MCSdkData -----------------------------
(* An instance of SdkData for TLC. *)
EXTENDS DataInvariant, TLC

CONSTANTS a, b

Pair     == (a :> {b}) @@ (b :> {a})
OneEach  == (a :> 1) @@ (b :> 1)

(* Both have key 1; b is prepared for a change to key 2. *)
Prepared == (a :> ((1 :> "secret") @@ (2 :> NoKey)))
         @@ (b :> ((1 :> "secret") @@ (2 :> "other")))

=============================================================================
