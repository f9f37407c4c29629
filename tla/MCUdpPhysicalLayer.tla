------------------------- MODULE MCUdpPhysicalLayer -------------------------
(* An instance of UdpPhysicalLayer for TLC: a computer and a microcontroller. *)
EXTENDS UdpInvariant, TLC

CONSTANTS computer, controller

Layers  == (computer :> "udp") @@ (controller :> "esp32")
Peers   == (computer :> controller) @@ (controller :> computer)
Limits  == (computer :> 2) @@ (controller :> 1)

(* The only frame of the microcontroller that is numbered is too long.       *)
LastOne == (computer :> {}) @@ (controller :> {1})

(* It is the microcontroller that may be kept busy.                          *)
Endless == (computer :> {}) @@ (controller :> {"queue", "socket"})

=============================================================================
