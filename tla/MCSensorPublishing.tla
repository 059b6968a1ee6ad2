------------------------- MODULE MCSensorPublishing --------------------------
(* Instances of SensorPublishing for TLC. *)
EXTENDS SensorPublishing, TLC

MCKinds == {[class |-> "energy", name |-> "Imported Energy"],
            [class |-> "energy", name |-> "Total Energy"],
            [class |-> "power_factor", name |-> "Power Factor"]}
MCSpikes == {[number |-> FALSE, value |-> 0], [number |-> TRUE, value |-> -1],
             [number |-> TRUE, value |-> 3], [number |-> TRUE, value |-> 4]}
=============================================================================
