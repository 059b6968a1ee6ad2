-------------------------- MODULE MCGroupScheduler --------------------------
(* Instances of GroupScheduler for TLC. *)
EXTENDS GroupScheduler, TLC
CONSTANTS fast, slow, off, calc, meter

MCDevice == (fast :> meter) @@ (slow :> meter) @@ (off :> meter) @@ (calc :> meter)

(* The group that is not enabled is the fastest of its device. *)
MCPollInterval == (fast :> 3) @@ (slow :> 8) @@ (off :> 2)
MCExecution == (fast :> 2) @@ (slow :> 1) @@ (calc :> 0)
=============================================================================
