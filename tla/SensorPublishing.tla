-------------------------- MODULE SensorPublishing ---------------------------
(***************************************************************************)
(* The states of sensors on their way to Home Assistant: the publisher     *)
(* hands a reading to the topic of its device class (pkg/mqtt/publisher.go *)
(* and the *_topic.go beside it), which turns it away or publishes it.     *)
(* The topic of energies keeps a memory of what it let through, by the     *)
(* name of the sensor.  The scheduler makes one publication at a time.     *)
(*                                                                         *)
(* A reading is true, or it is a spike: answers that belong to another     *)
(* request and registers in motion make such readings.  The true energies  *)
(* only rise, by no more than MaxChange in a unit of time.                 *)
(***************************************************************************)
EXTENDS Integers

CONSTANTS
  Sensors,
  Kinds,        \* device class and name, one of which a sensor has
  RisingNames,  \* "Imported Energy" and "Exported Energy"
  Spikes,       \* readings that are not true
  Top,          \* bound: the true energies rise up to here
  EnergyBound,  \* 999999999 kWh
  MaxChange,    \* 20 kWh per hour
  MinElapsed,   \* 30 seconds
  AgeCap,       \* bound: after so long every change is within the rate
  Precision     \* steps of a reading in one step of what is published

ASSUME PublishingAssumption ==
  /\ Kinds \subseteq [class : STRING, name : STRING]
  /\ RisingNames \subseteq STRING
  /\ Spikes \subseteq [number : BOOLEAN, value : Int]
  /\ Top \in Nat /\ EnergyBound \in Nat /\ Top <= EnergyBound
  /\ MaxChange \in Nat \ {0} /\ MinElapsed \in Nat
  /\ AgeCap \in Nat /\ MinElapsed <= AgeCap /\ EnergyBound <= MaxChange * AgeCap
  /\ Precision \in Nat \ {0}
  /\ "spike" \notin Sensors

VARIABLES
  kind,       \* of each sensor
  truth,      \* what its meter shows
  link,       \* "up"; "dead": broken, and nobody has noticed; or "down"
  lastValue,  \* memory of the energy topic by name; None
  lastAge,    \* time since lastTimestamp
  shown,      \* the last state published of each sensor by this process; None
  disturbed,  \* spikes and restarts may still come
  source,     \* history: whose reading the memory holds, a sensor's or a spike
  refused     \* history: sensors whose last true reading was turned away

memory == <<lastValue, lastAge, source>>
vars   == <<kind, truth, link, memory, shown, disturbed, refused>>

None  == -1
Spike == "spike"
Names == {k.name : k \in Kinds}
Class(s)  == kind[s].class
Name(s)   == kind[s].name
Rising(s) == Class(s) = "energy" /\ Name(s) \in RisingNames
Alone(s)  == \A t \in Sensors \ {s} : Name(t) # Name(s) \/ Class(t) # "energy"

True(s) == [number |-> TRUE, value |-> truth[s]]

Init ==
  /\ kind \in [Sensors -> Kinds]
  /\ truth = [s \in Sensors |-> 0]
  /\ link = "up"
  /\ lastValue = [n \in Names |-> None] /\ lastAge = [n \in Names |-> 0]
  /\ shown = [s \in Sensors |-> None]
  /\ disturbed = TRUE
  /\ source = [n \in Names |-> Spike]
  /\ refused = {}

-----------------------------------------------------------------------------
(* The topics: what is published of a reading, nothing or one value.        *)

Magnitude(v) == IF v < 0 THEN -v ELSE v

(* Half a step rounds away from zero.                                       *)
Rounded(v, step) ==
  LET m == ((Magnitude(v) + step \div 2) \div step) * step
  IN  IF v < 0 THEN -m ELSE m

(* Limits of the register would be looked at, but none is handed over.      *)
Number(r) == IF r.number THEN {r.value} ELSE {}

VoltageTopic(r)     == Number(r)
CurrentTopic(r)     == Number(r)
FrequencyTopic(r)   == Number(r)
PowerTopic(r)       == Number(r)
PowerFactorTopic(r) == {Rounded(v, Precision) : v \in Number(r)}

(* Any other class; the bounds by class that it has are those of classes    *)
(* that have a topic of their own.                                          *)
SensorTopic(r)      == Number(r)

EnergyTopic(r)      == {Rounded(v, Precision) : v \in Number(r)}

Topic(class, r) ==
  CASE class = "voltage"   -> VoltageTopic(r)
    [] class = "current"   -> CurrentTopic(r)
    [] class = "frequency" -> FrequencyTopic(r)
    [] class \in {"power", "apparent_power", "reactive_power"} -> PowerTopic(r)
    [] class = "power_factor" -> PowerFactorTopic(r)
    [] class = "energy"    -> EnergyTopic(r)
    [] OTHER               -> SensorTopic(r)

(* What is allowed does not grow with the time since the last reading. *)
MutantWithinRate(n, v) ==
  lastAge[n] >= MinElapsed => Magnitude(v - lastValue[n]) <= MaxChange * MinElapsed

(* The fastest change there can be is too fast. *)
MutantStrictRate(n, v) ==
  lastAge[n] >= MinElapsed => Magnitude(v - lastValue[n]) < MaxChange * lastAge[n]

(* The rate is only looked at when the last reading is old enough.          *)
WithinRate(n, v) ==
  lastAge[n] >= MinElapsed => Magnitude(v - lastValue[n]) <= MaxChange * lastAge[n]

(* A counter that falls is let through once it is within the rate. *)
MutantValidateData(n, v) ==
  /\ 0 <= v /\ v <= EnergyBound
  /\ lastValue[n] # None => WithinRate(n, v)

(* Energies have no upper bound. *)
MutantBounds(n, v) ==
  /\ 0 <= v
  /\ lastValue[n] # None =>
       /\ n \in RisingNames => v >= lastValue[n]
       /\ WithinRate(n, v)

ValidateData(n, v) ==
  /\ 0 <= v /\ v <= EnergyBound
  /\ lastValue[n] # None =>
       /\ n \in RisingNames => v >= lastValue[n]
       /\ WithinRate(n, v)

Valid(s, r) == r.number /\ (Class(s) = "energy" => ValidateData(Name(s), r.value))

(* The memory is written before the publication, which may still be lost.   *)
Remember(s, v, from) ==
  /\ lastValue' = [lastValue EXCEPT ![Name(s)] = v]
  /\ lastAge' = [lastAge EXCEPT ![Name(s)] = 0]
  /\ source' = [source EXCEPT ![Name(s)] = from]

(* Without a connection a reading is dropped before it is looked at.        *)
PublishSensorState(s, r, from) ==
  IF link = "down" \/ ~Valid(s, r)
  THEN UNCHANGED <<memory, shown>>
  ELSE /\ IF Class(s) = "energy" THEN Remember(s, r.value, from) ELSE UNCHANGED memory
       /\ IF link = "up" THEN \E v \in Topic(Class(s), r) : shown' = [shown EXCEPT ![s] = v]
                         ELSE UNCHANGED shown

-----------------------------------------------------------------------------
Read(s) ==
  /\ PublishSensorState(s, True(s), s)
  /\ refused' = IF link = "down" THEN refused
                ELSE IF Valid(s, True(s)) THEN refused \ {s} ELSE refused \cup {s}
  /\ UNCHANGED <<kind, truth, link, disturbed>>

ReadSpike(s) ==
  /\ disturbed
  /\ \E r \in Spikes : r # True(s) /\ PublishSensorState(s, r, Spike)
  /\ UNCHANGED <<kind, truth, link, disturbed, refused>>

(* A new process has an empty memory.                                       *)
Restart ==
  /\ disturbed
  /\ lastValue' = [n \in Names |-> None] /\ lastAge' = [n \in Names |-> 0]
  /\ source' = [n \in Names |-> Spike]
  /\ shown' = [s \in Sensors |-> None]
  /\ refused' = {}
  /\ UNCHANGED <<kind, truth, link, disturbed>>

Settle ==
  /\ disturbed' = FALSE
  /\ UNCHANGED <<kind, truth, link, memory, shown, refused>>

LinkChanges ==
  /\ link' \in CASE link = "up" -> {"dead", "down"} [] link = "dead" -> {"down"} [] OTHER -> {"up"}
  /\ UNCHANGED <<kind, truth, memory, shown, disturbed, refused>>

Tick ==
  /\ truth' \in {f \in [Sensors -> 0..Top] :
                   \A s \in Sensors : truth[s] <= f[s] /\ f[s] <= truth[s] + MaxChange}
  /\ lastAge' = [n \in Names |-> IF lastValue[n] = None \/ lastAge[n] = AgeCap THEN lastAge[n]
                                 ELSE lastAge[n] + 1]
  /\ UNCHANGED <<kind, link, lastValue, source, shown, disturbed, refused>>

Next ==
  \/ \E s \in Sensors : Read(s) \/ ReadSpike(s)
  \/ Restart \/ Settle \/ LinkChanges \/ Tick

(* Sensors are read again and again, and time passes.                       *)
Fairness == WF_vars(Tick) /\ \A s \in Sensors : WF_vars(Read(s))

Spec == Init /\ [][Next]_vars /\ Fairness

-----------------------------------------------------------------------------
(* Every variable keeps its range; the memory holds possible energies only. *)
TypeOK ==
  /\ kind \in [Sensors -> Kinds]
  /\ truth \in [Sensors -> 0..Top]
  /\ link \in {"up", "dead", "down"}
  /\ lastValue \in [Names -> {None} \cup 0..EnergyBound]
  /\ lastAge \in [Names -> 0..AgeCap]
  /\ shown \in [Sensors -> Int]
  /\ disturbed \in BOOLEAN
  /\ source \in [Names -> Sensors \cup {Spike}]
  /\ refused \in SUBSET Sensors

(* What a process publishes of an imported or exported energy never falls,  *)
(* whatever is read, lost or read of another sensor of that name.           *)
NeverFalls ==
  [][~Restart => \A s \in Sensors : Rising(s) /\ shown[s] >= 0 => shown'[s] >= shown[s]]_vars

(* A true reading is turned away only because the memory holds a spike, or  *)
(* the reading of another sensor of the same name: never for the time that  *)
(* passed or what was lost since the sensor's own last reading.             *)
RefusedOnlyForOthers == \A s \in refused : source[Name(s)] # s

(* Once no more spikes come and the connection holds, what a sensor that    *)
(* shares its name with none has published comes to be true, except where   *)
(* the memory of a rising energy is above the truth: it stays shut until    *)
(* the meter has caught up.                                                 *)
Stuck(s) == Rising(s) /\ lastValue[Name(s)] > truth[s]

ComesThrough ==
  \A s \in Sensors :
    <>[](~disturbed /\ link = "up") =>
      []<>(~Alone(s) \/ Stuck(s) \/ shown[s] \in Topic(Class(s), True(s)))

=============================================================================
