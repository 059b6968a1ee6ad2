------------------------------ MODULE MCPolling -----------------------------
(* Instances of Polling for TLC. *)
EXTENDS Polling, TLC
CONSTANTS fast, slow, calc, sum, meter

MCDevice == (fast :> meter) @@ (slow :> meter) @@ (calc :> meter) @@ (sum :> meter)
MCPollInterval == (fast :> 2) @@ (slow :> 3)
MCExecution == (fast :> 1) @@ (slow :> 1) @@ (calc :> 0) @@ (sum :> 0)

(* The second formula uses the value of the first. *)
MCInputs == (calc :> {fast, slow}) @@ (sum :> {calc})
=============================================================================
