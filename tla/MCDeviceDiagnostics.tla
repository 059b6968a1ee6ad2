------------------------- MODULE MCDeviceDiagnostics ------------------------
(* Instances of DeviceDiagnostics for TLC. *)
EXTENDS DeviceDiagnostics, TLC
CONSTANTS instant, energy, reactive, status

(* The keys of the two meters have three parts, that of the inverter two. *)
Mains == <<"energy", "meter", "mains">>
Inverter == <<"inverter", "1">>

MCDevice == (instant :> Mains) @@ (reactive :> Mains) @@ (energy :> Mains) @@ (status :> Inverter)
MCSensors == (instant :> {<<"voltage">>, <<"power", "active">>}) @@ (reactive :> {<<"power", "reactive">>})
          @@ (energy :> {<<"energy", "total">>}) @@ (status :> {<<"state">>})
MCInputs == (reactive :> {instant})
MCInterval == (instant :> 1) @@ (reactive :> 2) @@ (status :> 2)
MCDeadline == (instant :> 2) @@ (reactive :> 2) @@ (status :> 2)
MCDuration == (instant :> 1) @@ (reactive :> 0) @@ (status :> 0)
MCPublishInterval ==
  ("operational" :> 2) @@ ("warning" :> 2) @@ ("error" :> 1) @@ ("offline" :> 2)
MCLag == (instant :> 0) @@ (reactive :> 1) @@ (status :> 0)
=============================================================================
