-------------------------- MODULE MCFramePipeline --------------------------
(* Instances of FramePipeline for TLC. *)
EXTENDS PipelineInvariant, TLC

CONSTANTS a, b, c

(* The default widths of ValidationConfig. *)
DefaultWidths ==
    [packageId |-> 24, messageId |-> 24, connId |-> 16, fragmentId |-> 8,
     fragmentsCount |-> 8, priority |-> 4]

(* a, which sends two packages, and b may be constructed twice. *)
Lives    == (a :> 2) @@ (b :> 2) @@ (c :> 1)
Packages == (a :> 2) @@ (b :> 0) @@ (c :> 0)

=============================================================================
