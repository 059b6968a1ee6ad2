----------------------- MODULE SensorPublishingProofs ------------------------
(***************************************************************************)
(* Theorems about SensorPublishing, for any sensors, rate, bounds and      *)
(* precision.                                                              *)
(***************************************************************************)
EXTENDS SensorPublishing, TLAPS

(* What is shown of a rising energy is no more than what the memory of its *)
(* name holds, which never falls.                                          *)
ShownIsRemembered ==
  \A s \in Sensors :
    Rising(s) /\ shown[s] >= 0 =>
      /\ lastValue[Name(s)] # None
      /\ shown[s] <= Rounded(lastValue[Name(s)], Precision)

(* A memory that a sensor has written is below its meter, by no more than  *)
(* the meter can have risen since.                                         *)
MemoryFollowsMeter ==
  \A n \in Names, s \in Sensors :
    source[n] = s =>
      /\ Class(s) = "energy" /\ Name(s) = n
      /\ lastValue[n] # None
      /\ lastValue[n] <= truth[s]
      /\ truth[s] <= lastValue[n] + MaxChange * lastAge[n]

IInv ==
  /\ TypeOK
  /\ ShownIsRemembered
  /\ MemoryFollowsMeter
  /\ RefusedOnlyForOthers

-----------------------------------------------------------------------------
(* Rounding: integers stay integers, energies stay energies, and the order *)
(* of energies is kept.                                                    *)
LEMMA DivStep ==
  ASSUME NEW a \in Nat, NEW d \in Nat \ {0}
  PROVE  /\ a \div d \in Nat
         /\ d * (a \div d) <= a
         /\ a < d * (a \div d) + d
OBVIOUS

LEMMA TimesMono ==
  ASSUME NEW a \in Int, NEW b \in Int, NEW d \in Nat, a <= b
  PROVE  a * d <= b * d
OBVIOUS

LEMMA DivMono ==
  ASSUME NEW a \in Nat, NEW b \in Nat, NEW d \in Nat \ {0}, a <= b
  PROVE  a \div d <= b \div d
<1> DEFINE p == a \div d
           q == b \div d
<1>1. p \in Nat /\ q \in Nat /\ d * p <= a /\ b < d * q + d
  BY DivStep
<1>2. d * p < d * (q + 1)
  BY <1>1
<1>3. SUFFICES ASSUME q + 1 <= p PROVE FALSE
  BY <1>1
<1> HIDE DEF p, q
<1>4. (q + 1) * d <= p * d
  BY <1>1, <1>3, TimesMono
<1> QED
  BY <1>1, <1>2, <1>4

LEMMA RoundedType ==
  ASSUME NEW v \in Int
  PROVE  /\ Rounded(v, Precision) \in Int
         /\ v >= 0 => Rounded(v, Precision) >= 0
<1> DEFINE half == Precision \div 2
           a == Magnitude(v) + half
           q == a \div Precision
<1>1. Precision \in Nat \ {0} /\ half \in Nat /\ Magnitude(v) \in Nat
  BY PublishingAssumption DEF Magnitude
<1>2. a \in Nat
  BY <1>1
<1>3. q \in Nat
  BY <1>1, <1>2, DivStep
<1> HIDE DEF q
<1>4. q * Precision \in Nat
  BY <1>1, <1>3
<1>5. Rounded(v, Precision) = IF v < 0 THEN -(q * Precision) ELSE q * Precision
  BY Zenon DEF Rounded, q
<1> QED
  BY <1>4, <1>5

LEMMA RoundedKeepsOrder ==
  ASSUME NEW v \in Nat, NEW w \in Nat, v <= w
  PROVE  Rounded(v, Precision) <= Rounded(w, Precision)
<1> DEFINE half == Precision \div 2
           p == (v + half) \div Precision
           q == (w + half) \div Precision
<1>1. Precision \in Nat \ {0} /\ half \in Nat
  BY PublishingAssumption
<1>2. v + half \in Nat /\ w + half \in Nat /\ v + half <= w + half
  BY <1>1
<1>3. p \in Nat /\ q \in Nat /\ p <= q
  BY <1>1, <1>2, DivStep, DivMono
<1>4. Rounded(v, Precision) = p * Precision /\ Rounded(w, Precision) = q * Precision
  BY DEF Rounded, Magnitude
<1> HIDE DEF p, q
<1> QED
  BY <1>1, <1>3, <1>4, TimesMono

-----------------------------------------------------------------------------
(* What a topic publishes of a reading is an integer; of an energy it is   *)
(* the rounded value.                                                      *)
LEMMA TopicType ==
  ASSUME NEW class, NEW r \in [number : BOOLEAN, value : Int], NEW v \in Topic(class, r)
  PROVE  v \in Int
<1>1. \A x \in Number(r) : x \in Int
  BY DEF Number
<1>2. \A x \in Number(r) : Rounded(x, Precision) \in Int
  BY <1>1, RoundedType
<1> QED
  BY <1>1, <1>2, Zenon DEF Topic, VoltageTopic, CurrentTopic, FrequencyTopic, PowerTopic,
     PowerFactorTopic, SensorTopic, EnergyTopic

LEMMA EnergyPublished ==
  ASSUME NEW r, NEW v \in Topic("energy", r)
  PROVE  v = Rounded(r.value, Precision)
BY Zenon DEF Topic, EnergyTopic, Number

LEMMA TrueReading ==
  ASSUME TypeOK, NEW s \in Sensors
  PROVE  /\ True(s) \in [number : BOOLEAN, value : Int]
         /\ True(s).number /\ True(s).value = truth[s]
         /\ truth[s] \in 0..Top
BY PublishingAssumption DEF TypeOK, True

LEMMA NamesOfSensors ==
  ASSUME TypeOK, NEW s \in Sensors PROVE Name(s) \in Names
BY DEF TypeOK, Name, Names

(* An energy that passes the filter is in its range, and not below what is *)
(* remembered of its name if that only rises.                              *)
LEMMA ValidEnergy ==
  ASSUME NEW s \in Sensors, NEW r, Valid(s, r), Class(s) = "energy", r.value \in Int
  PROVE  /\ r.value \in 0..EnergyBound
         /\ Name(s) \in RisingNames /\ lastValue[Name(s)] # None
              => r.value >= lastValue[Name(s)]
BY PublishingAssumption DEF Valid, ValidateData

-----------------------------------------------------------------------------
(* The three outcomes of a publication: the reading is turned away, one    *)
(* that is no energy is shown or lost, or an energy is remembered and is   *)
(* shown or lost.                                                          *)
Refused == UNCHANGED <<memory, shown>>

Plain(s) ==
  /\ Class(s) # "energy"
  /\ UNCHANGED memory
  /\ shown' = shown \/ \E v \in Int : shown' = [shown EXCEPT ![s] = v]

Energy(s, r, from) ==
  /\ Class(s) = "energy" /\ Valid(s, r)
  /\ Remember(s, r.value, from)
  /\ shown' = shown \/ shown' = [shown EXCEPT ![s] = Rounded(r.value, Precision)]

LEMMA Outcomes ==
  ASSUME NEW s \in Sensors, NEW r \in [number : BOOLEAN, value : Int], NEW from,
         PublishSensorState(s, r, from)
  PROVE  Refused \/ Plain(s) \/ Energy(s, r, from)
<1>1. CASE link = "down" \/ ~Valid(s, r)
  BY <1>1, Zenon DEF PublishSensorState, Refused
<1>2. CASE ~(link = "down" \/ ~Valid(s, r)) /\ Class(s) # "energy"
  BY <1>2, TopicType, Zenon DEF PublishSensorState, Plain
<1>3. CASE ~(link = "down" \/ ~Valid(s, r)) /\ Class(s) = "energy"
  BY <1>3, EnergyPublished, Zenon DEF PublishSensorState, Energy
<1> QED
  BY <1>1, <1>2, <1>3

-----------------------------------------------------------------------------
LEMMA InitIInv == Init => IInv
<1> SUFFICES ASSUME Init PROVE IInv
  OBVIOUS
<1>1. TypeOK
  <2>1. kind \in [Sensors -> Kinds] /\ link \in {"up", "dead", "down"} /\ disturbed \in BOOLEAN
        /\ refused \in SUBSET Sensors
    BY Zenon DEF Init
  <2>2. truth \in [Sensors -> 0..Top] /\ shown \in [Sensors -> Int]
    BY PublishingAssumption DEF Init, None
  <2>3. lastValue \in [Names -> {None} \cup 0..EnergyBound] /\ lastAge \in [Names -> 0..AgeCap]
    BY PublishingAssumption DEF Init, None
  <2>4. source \in [Names -> Sensors \cup {Spike}]
    BY DEF Init
  <2> QED
    BY <2>1, <2>2, <2>3, <2>4, Zenon DEF TypeOK
<1>2. ShownIsRemembered
  BY DEF Init, ShownIsRemembered, None
<1>3. MemoryFollowsMeter
  BY PublishingAssumption DEF Init, MemoryFollowsMeter, Spike
<1>4. RefusedOnlyForOthers
  BY Zenon DEF Init, RefusedOnlyForOthers
<1> QED
  BY <1>1, <1>2, <1>3, <1>4, Zenon DEF IInv

-----------------------------------------------------------------------------
(* What a publication does to each part of the invariant.                  *)
LEMMA PublishKeepsType ==
  ASSUME TypeOK, NEW s \in Sensors, NEW r \in [number : BOOLEAN, value : Int],
         NEW from \in Sensors \cup {Spike}, PublishSensorState(s, r, from)
  PROVE  /\ lastValue' \in [Names -> {None} \cup 0..EnergyBound]
         /\ lastAge' \in [Names -> 0..AgeCap]
         /\ source' \in [Names -> Sensors \cup {Spike}]
         /\ shown' \in [Sensors -> Int]
<1>1. Name(s) \in Names
  BY NamesOfSensors
<1>2. CASE Refused
  BY <1>2 DEF Refused, memory, TypeOK
<1>3. CASE Plain(s)
  BY <1>3 DEF Plain, memory, TypeOK
<1>4. CASE Energy(s, r, from)
  <2>1. r.value \in 0..EnergyBound
    BY <1>4, ValidEnergy DEF Energy
  <2>2. Rounded(r.value, Precision) \in Int
    BY RoundedType
  <2>3. shown' \in [Sensors -> Int]
    BY <1>4, <2>2 DEF Energy, TypeOK
  <2>4. lastValue' \in [Names -> {None} \cup 0..EnergyBound]
    BY <1>1, <1>4, <2>1 DEF Energy, Remember, TypeOK
  <2>5. lastAge' \in [Names -> 0..AgeCap]
    BY <1>1, <1>4, PublishingAssumption DEF Energy, Remember, TypeOK
  <2>6. source' \in [Names -> Sensors \cup {Spike}]
    BY <1>1, <1>4 DEF Energy, Remember, TypeOK
  <2> QED
    BY <2>3, <2>4, <2>5, <2>6
<1> QED
  BY <1>2, <1>3, <1>4, Outcomes

(* A rising energy that is remembered does not fall in the memory.         *)
LEMMA MemoryRises ==
  ASSUME TypeOK, NEW s \in Sensors, NEW r \in [number : BOOLEAN, value : Int], NEW from,
         Energy(s, r, from), NEW n \in Names
  PROVE  n \in RisingNames /\ lastValue[n] # None
           => /\ lastValue'[n] # None
              /\ lastValue[n] \in Nat /\ lastValue'[n] \in Nat /\ lastValue[n] <= lastValue'[n]
<1>1. /\ r.value \in 0..EnergyBound
      /\ Name(s) \in RisingNames /\ lastValue[Name(s)] # None
           => r.value >= lastValue[Name(s)]
  BY ValidEnergy DEF Energy
<1>2. lastValue' = [lastValue EXCEPT ![Name(s)] = r.value]
  BY DEF Energy, Remember
<1>3. lastValue \in [Names -> {None} \cup 0..EnergyBound]
  BY DEF TypeOK
<1>4. CASE n = Name(s)
  BY <1>1, <1>2, <1>3, <1>4, PublishingAssumption DEF None
<1>5. CASE n # Name(s)
  BY <1>2, <1>3, <1>5, PublishingAssumption DEF None
<1> QED
  BY <1>4, <1>5

LEMMA PublishRaises ==
  ASSUME TypeOK, ShownIsRemembered, UNCHANGED kind,
         NEW s \in Sensors, NEW r \in [number : BOOLEAN, value : Int], NEW from,
         PublishSensorState(s, r, from)
  PROVE  /\ ShownIsRemembered'
         /\ \A t \in Sensors : Rising(t) /\ shown[t] >= 0 => shown'[t] >= shown[t]
<1>1. /\ shown \in [Sensors -> Int]
      /\ \A t \in Sensors : Name(t) \in Names
  BY NamesOfSensors DEF TypeOK
<1>2. \A t \in Sensors : Rising(t)' = Rising(t) /\ Name(t)' = Name(t) /\ Class(t)' = Class(t)
  BY DEF Rising, Class, Name
<1>3. SUFFICES ASSUME NEW t \in Sensors, Rising(t)
               PROVE  /\ shown'[t] >= 0 =>
                           /\ lastValue'[Name(t)] # None
                           /\ shown'[t] <= Rounded(lastValue'[Name(t)], Precision)
                      /\ shown[t] >= 0 => shown'[t] >= shown[t]
  BY <1>2, Zenon DEF ShownIsRemembered, None
<1>4. shown[t] >= 0 => /\ lastValue[Name(t)] # None
                       /\ shown[t] <= Rounded(lastValue[Name(t)], Precision)
  BY <1>3, Zenon DEF ShownIsRemembered
<1>5. Class(t) = "energy" /\ Name(t) \in RisingNames
  BY <1>3 DEF Rising
<1>6. CASE Refused
  BY <1>1, <1>4, <1>6 DEF Refused, memory
<1>7. CASE Plain(s)
  <2>1. s # t /\ lastValue' = lastValue
    BY <1>5, <1>7 DEF Plain, memory
  <2>2. shown'[t] = shown[t]
    BY <1>1, <1>7, <2>1 DEF Plain
  <2> QED
    BY <1>1, <1>4, <2>1, <2>2
<1>8. CASE Energy(s, r, from)
  <2> DEFINE old == lastValue[Name(t)]
             new == lastValue'[Name(t)]
  <2>1. old # None => new # None /\ old \in Nat /\ new \in Nat /\ old <= new
    BY <1>1, <1>5, <1>8, MemoryRises
  <2>2. old # None => Rounded(old, Precision) <= Rounded(new, Precision)
    BY <2>1, RoundedKeepsOrder
  <2>3. old # None => Rounded(old, Precision) \in Int /\ Rounded(new, Precision) \in Int
    BY <2>1, RoundedType
  <2> HIDE DEF old, new
  <2>4. CASE shown'[t] = shown[t]
    <3>1. shown[t] >= 0 => old # None /\ shown[t] <= Rounded(old, Precision)
      BY <1>4 DEF old
    <3>2. shown[t] >= 0 => new # None /\ shown[t] <= Rounded(new, Precision)
      BY <1>1, <2>1, <2>2, <2>3, <3>1
    <3> QED
      BY <1>1, <2>4, <3>2 DEF new
  <2>5. CASE shown'[t] # shown[t]
    <3>1. s = t /\ shown'[t] = Rounded(r.value, Precision)
      BY <1>1, <1>8, <2>5 DEF Energy
    <3>2. r.value \in 0..EnergyBound
      BY <1>8, ValidEnergy DEF Energy
    <3>3. new = r.value
      BY <1>1, <1>8, <3>1 DEF Energy, Remember, TypeOK, new
    <3>4. new # None /\ Rounded(r.value, Precision) \in Int
      BY <3>2, <3>3, RoundedType, PublishingAssumption DEF None
    <3>5. shown[t] >= 0 => shown'[t] >= shown[t]
      BY <1>1, <1>4, <2>2, <2>3, <3>1, <3>3 DEF old
    <3>6. shown'[t] <= Rounded(new, Precision)
      BY <3>1, <3>3, <3>4
    <3> QED
      BY <3>4, <3>5, <3>6 DEF new
  <2> QED
    BY <2>4, <2>5
<1> QED
  BY <1>6, <1>7, <1>8, Outcomes

(* The reading that is remembered is the meter's, or nobody's.             *)
LEMMA PublishFollowsMeter ==
  ASSUME TypeOK, MemoryFollowsMeter, UNCHANGED <<kind, truth>>,
         NEW s \in Sensors, NEW r \in [number : BOOLEAN, value : Int], NEW from,
         from = Spike \/ (from = s /\ r = True(s)),
         PublishSensorState(s, r, from)
  PROVE  MemoryFollowsMeter'
<1>1. /\ truth \in [Sensors -> 0..Top] /\ Name(s) \in Names
      /\ lastValue \in [Names -> {None} \cup 0..EnergyBound]
      /\ lastAge \in [Names -> 0..AgeCap]
      /\ source \in [Names -> Sensors \cup {Spike}]
  BY NamesOfSensors DEF TypeOK
<1>2. \A t \in Sensors : Name(t)' = Name(t) /\ Class(t)' = Class(t)
  BY DEF Class, Name
<1>3. CASE UNCHANGED memory
  BY <1>2, <1>3, Zenon DEF MemoryFollowsMeter, memory
<1>4. CASE Energy(s, r, from)
  <2>1. SUFFICES ASSUME NEW n \in Names, NEW t \in Sensors, source'[n] = t
                 PROVE  /\ Class(t) = "energy" /\ Name(t) = n
                        /\ lastValue'[n] # None
                        /\ lastValue'[n] <= truth[t]
                        /\ truth[t] <= lastValue'[n] + MaxChange * lastAge'[n]
    BY <1>2, Zenon DEF MemoryFollowsMeter
  <2>2. CASE n # Name(s)
    <3>1. lastValue'[n] = lastValue[n] /\ lastAge'[n] = lastAge[n] /\ source[n] = t
      BY <1>1, <1>4, <2>1, <2>2 DEF Energy, Remember
    <3> QED
      BY <3>1, Zenon DEF MemoryFollowsMeter
  <2>3. CASE n = Name(s)
    <3>1. lastValue'[n] = r.value /\ lastAge'[n] = 0 /\ from = t
      BY <1>1, <1>4, <2>1, <2>3 DEF Energy, Remember
    <3>2. s = t /\ r.value = truth[t]
      BY <3>1, PublishingAssumption DEF Spike, True
    <3>3. truth[t] \in 0..Top /\ MaxChange * 0 = 0
      BY <1>1, PublishingAssumption
    <3> QED
      BY <1>4, <2>3, <3>1, <3>2, <3>3, PublishingAssumption DEF Energy, None
  <2> QED
    BY <2>2, <2>3
<1> QED
  BY <1>3, <1>4, Outcomes DEF Refused, Plain, memory

(* Nobody else becomes the writer of a memory.                             *)
LEMMA Writers ==
  ASSUME TypeOK, NEW s \in Sensors, NEW r \in [number : BOOLEAN, value : Int], NEW from,
         PublishSensorState(s, r, from), NEW n \in Names
  PROVE  source'[n] = source[n] \/ source'[n] = from
BY Outcomes DEF TypeOK, Refused, Plain, Energy, Remember, memory

(* A reading of the sensor that wrote the memory is valid: the memory is   *)
(* below the meter and within the rate of it.                              *)
LEMMA OwnReadingValid ==
  ASSUME TypeOK, MemoryFollowsMeter, NEW s \in Sensors, source[Name(s)] = s
  PROVE  Valid(s, True(s))
<1> DEFINE n == Name(s)
<1>1. n \in Names /\ truth[s] \in 0..Top
      /\ lastValue \in [Names -> {None} \cup 0..EnergyBound]
      /\ lastAge \in [Names -> 0..AgeCap]
  BY NamesOfSensors DEF TypeOK
<1>2. /\ lastValue[n] # None
      /\ lastValue[n] <= truth[s]
      /\ truth[s] <= lastValue[n] + MaxChange * lastAge[n]
  BY <1>1, Zenon DEF MemoryFollowsMeter
<1>3. True(s).number /\ True(s).value = truth[s]
  BY DEF True
<1>4. lastValue[n] \in Nat /\ truth[s] \in Nat /\ truth[s] <= EnergyBound
  BY <1>1, <1>2, PublishingAssumption
<1>5. MaxChange * lastAge[n] \in Nat
  BY <1>1, PublishingAssumption
<1>6. WithinRate(n, truth[s])
  <2>1. Magnitude(truth[s] - lastValue[n]) = truth[s] - lastValue[n]
    BY <1>2, <1>4 DEF Magnitude
  <2> QED
    BY <1>2, <1>4, <1>5, <2>1 DEF WithinRate
<1>7. ValidateData(n, truth[s])
  BY <1>2, <1>4, <1>6 DEF ValidateData
<1> QED
  BY <1>3, <1>7 DEF Valid

-----------------------------------------------------------------------------
(* The invariant is inductive, one lemma per action that disturbs it.      *)
LEMMA ReadStep ==
  ASSUME IInv, NEW s \in Sensors, Read(s)
  PROVE  IInv'
<1>1. /\ TypeOK /\ ShownIsRemembered /\ MemoryFollowsMeter /\ RefusedOnlyForOthers
      /\ PublishSensorState(s, True(s), s)
      /\ UNCHANGED <<kind, truth, link, disturbed>>
      /\ refused' = IF link = "down" THEN refused
                    ELSE IF Valid(s, True(s)) THEN refused \ {s} ELSE refused \cup {s}
  BY Zenon DEF IInv, Read
<1>2. True(s) \in [number : BOOLEAN, value : Int]
  BY <1>1, TrueReading
<1>3. TypeOK'
  <2>1. /\ lastValue' \in [Names -> {None} \cup 0..EnergyBound]
        /\ lastAge' \in [Names -> 0..AgeCap]
        /\ source' \in [Names -> Sensors \cup {Spike}]
        /\ shown' \in [Sensors -> Int]
    BY <1>1, <1>2, PublishKeepsType
  <2>2. refused' \in SUBSET Sensors
    BY <1>1 DEF TypeOK
  <2> QED
    BY <1>1, <2>1, <2>2, Zenon DEF TypeOK
<1>4. ShownIsRemembered'
  BY <1>1, <1>2, PublishRaises, Zenon
<1>5. MemoryFollowsMeter'
  BY <1>1, <1>2, PublishFollowsMeter, Zenon
<1>6. RefusedOnlyForOthers'
  <2>1. SUFFICES ASSUME NEW t \in Sensors, t \in refused', source'[Name(t)] = t PROVE FALSE
    BY <1>1, <1>3, Zenon DEF RefusedOnlyForOthers, TypeOK, Name
  <2>2. Name(t) \in Names
    BY <1>1, NamesOfSensors
  <2>3. source[Name(t)] = t \/ t = s
    BY <1>1, <1>2, <2>1, <2>2, Writers
  <2>4. source[Name(t)] = t => t \notin refused
    BY <1>1, Zenon DEF RefusedOnlyForOthers
  <2>5. t = s
    BY <1>1, <2>1, <2>3, <2>4
  <2>6. CASE link = "down"
    <3>1. source' = source /\ refused' = refused
      BY <1>1, <2>6, Zenon DEF PublishSensorState, memory
    <3> QED
      BY <2>1, <2>4, <3>1
  <2>7. CASE link # "down" /\ Valid(s, True(s))
    BY <1>1, <2>1, <2>5, <2>7
  <2>8. CASE link # "down" /\ ~Valid(s, True(s))
    <3>1. source' = source
      BY <1>1, <2>8, Zenon DEF PublishSensorState, memory
    <3> QED
      BY <1>1, <2>1, <2>5, <2>8, <3>1, OwnReadingValid
  <2> QED
    BY <2>6, <2>7, <2>8
<1> QED
  BY <1>3, <1>4, <1>5, <1>6, Zenon DEF IInv

LEMMA ReadSpikeStep ==
  ASSUME IInv, NEW s \in Sensors, ReadSpike(s)
  PROVE  IInv'
<1>1. PICK r \in Spikes : PublishSensorState(s, r, Spike)
  BY Zenon DEF ReadSpike
<1>2. r \in [number : BOOLEAN, value : Int]
  BY PublishingAssumption
<1>3. /\ TypeOK /\ ShownIsRemembered /\ MemoryFollowsMeter /\ RefusedOnlyForOthers
      /\ UNCHANGED <<kind, truth, link, disturbed, refused>>
  BY Zenon DEF IInv, ReadSpike
<1>4. TypeOK'
  <2>1. /\ lastValue' \in [Names -> {None} \cup 0..EnergyBound]
        /\ lastAge' \in [Names -> 0..AgeCap]
        /\ source' \in [Names -> Sensors \cup {Spike}]
        /\ shown' \in [Sensors -> Int]
    BY <1>1, <1>2, <1>3, PublishKeepsType
  <2> QED
    BY <1>3, <2>1, Zenon DEF TypeOK
<1>5. ShownIsRemembered'
  BY <1>1, <1>2, <1>3, PublishRaises, Zenon
<1>6. MemoryFollowsMeter'
  BY <1>1, <1>2, <1>3, PublishFollowsMeter, Zenon
<1>7. RefusedOnlyForOthers'
  <2>1. SUFFICES ASSUME NEW t \in Sensors, t \in refused, source'[Name(t)] = t PROVE FALSE
    BY <1>3, Zenon DEF RefusedOnlyForOthers, TypeOK, Name
  <2>2. source[Name(t)] = t \/ t = Spike
    BY <1>1, <1>2, <1>3, <2>1, NamesOfSensors, Writers
  <2>3. source[Name(t)] # t
    BY <1>3, <2>1, Zenon DEF RefusedOnlyForOthers
  <2> QED
    BY <2>2, <2>3, PublishingAssumption DEF Spike
<1> QED
  BY <1>4, <1>5, <1>6, <1>7, Zenon DEF IInv

LEMMA RestartStep == ASSUME IInv, Restart PROVE IInv'
<1>1. /\ TypeOK
      /\ lastValue' = [n \in Names |-> None] /\ lastAge' = [n \in Names |-> 0]
      /\ source' = [n \in Names |-> Spike] /\ shown' = [s \in Sensors |-> None]
      /\ refused' = {} /\ UNCHANGED <<kind, truth, link, disturbed>>
  BY Zenon DEF IInv, Restart
<1>2. TypeOK'
  <2>1. lastValue' \in [Names -> {None} \cup 0..EnergyBound] /\ lastAge' \in [Names -> 0..AgeCap]
    BY <1>1, PublishingAssumption
  <2>2. source' \in [Names -> Sensors \cup {Spike}] /\ shown' \in [Sensors -> Int]
    BY <1>1 DEF None
  <2> QED
    BY <1>1, <2>1, <2>2, Zenon DEF TypeOK
<1>3. ShownIsRemembered'
  BY <1>1 DEF ShownIsRemembered, None
<1>4. MemoryFollowsMeter'
  BY <1>1, PublishingAssumption DEF MemoryFollowsMeter, Spike
<1>5. RefusedOnlyForOthers'
  BY <1>1, Zenon DEF RefusedOnlyForOthers
<1> QED
  BY <1>2, <1>3, <1>4, <1>5, Zenon DEF IInv

(* The meter rises by no more than the rate allows in the time that passes; *)
(* ages that are not counted on are above what any change would take.       *)
LEMMA TickStep == ASSUME IInv, Tick PROVE IInv'
<1>1. /\ TypeOK /\ ShownIsRemembered /\ MemoryFollowsMeter /\ RefusedOnlyForOthers
      /\ UNCHANGED <<kind, link, lastValue, source, shown, disturbed, refused>>
      /\ truth' \in [Sensors -> 0..Top]
      /\ \A s \in Sensors : truth[s] <= truth'[s] /\ truth'[s] <= truth[s] + MaxChange
      /\ lastAge' = [n \in Names |-> IF lastValue[n] = None \/ lastAge[n] = AgeCap THEN lastAge[n]
                                     ELSE lastAge[n] + 1]
  BY DEF IInv, Tick
<1>2. TypeOK'
  <2>1. lastAge' \in [Names -> 0..AgeCap]
    <3>1. lastAge \in [Names -> 0..AgeCap] /\ AgeCap \in Nat
      BY <1>1, PublishingAssumption, Zenon DEF TypeOK
    <3>2. \A n \in Names : lastAge[n] = AgeCap \/ lastAge[n] + 1 \in 0..AgeCap
      BY <3>1
    <3> QED
      BY <1>1, <3>1, <3>2
  <2> QED
    BY <1>1, <2>1, Zenon DEF TypeOK
<1>3. ShownIsRemembered'
  BY <1>1, Zenon DEF ShownIsRemembered, Rising, Class, Name
<1>4. RefusedOnlyForOthers'
  BY <1>1, Zenon DEF RefusedOnlyForOthers, Name
<1>5. MemoryFollowsMeter'
  <2>1. SUFFICES ASSUME NEW n \in Names, NEW s \in Sensors, source[n] = s
                 PROVE  /\ Class(s) = "energy" /\ Name(s) = n
                        /\ lastValue[n] # None
                        /\ lastValue[n] <= truth'[s]
                        /\ truth'[s] <= lastValue[n] + MaxChange * lastAge'[n]
    <3>1. \A s \in Sensors : Class(s)' = Class(s) /\ Name(s)' = Name(s)
      BY <1>1, Zenon DEF Class, Name
    <3>2. Names' = Names /\ source' = source /\ lastValue' = lastValue
      BY <1>1, Zenon
    <3> QED
      BY <3>1, <3>2 DEF MemoryFollowsMeter
  <2>2. /\ Class(s) = "energy" /\ Name(s) = n
        /\ lastValue[n] # None
        /\ lastValue[n] <= truth[s]
        /\ truth[s] <= lastValue[n] + MaxChange * lastAge[n]
    BY <1>1, <2>1, Zenon DEF MemoryFollowsMeter
  <2>3. /\ lastValue[n] \in 0..EnergyBound /\ lastAge[n] \in 0..AgeCap
        /\ truth[s] \in 0..Top /\ truth'[s] \in 0..Top
    BY <1>1, <2>2 DEF TypeOK
  <2>4. CASE lastAge[n] = AgeCap
    <3>1. lastAge'[n] = AgeCap /\ MaxChange * AgeCap \in Nat
      BY <1>1, <2>4, PublishingAssumption
    <3> QED
      BY <1>1, <2>2, <2>3, <3>1, PublishingAssumption
  <2>5. CASE lastAge[n] # AgeCap
    <3>1. lastAge'[n] = lastAge[n] + 1
      BY <1>1, <2>2, <2>5
    <3>2. /\ MaxChange * (lastAge[n] + 1) = MaxChange * lastAge[n] + MaxChange
          /\ MaxChange * lastAge[n] \in Nat
      BY <2>3, PublishingAssumption
    <3> QED
      BY <1>1, <2>2, <2>3, <3>1, <3>2, PublishingAssumption
  <2> QED
    BY <2>4, <2>5
<1> QED
  BY <1>2, <1>3, <1>4, <1>5, Zenon DEF IInv

LEMMA OtherStep ==
  ASSUME IInv, UNCHANGED <<kind, truth, memory, shown, refused>>,
         link' \in {"up", "dead", "down"}, disturbed' \in BOOLEAN
  PROVE  IInv'
BY Zenon DEF IInv, TypeOK, ShownIsRemembered, MemoryFollowsMeter, RefusedOnlyForOthers,
   memory, Rising, Class, Name

LEMMA Step == IInv /\ [Next]_vars => IInv'
<1> SUFFICES ASSUME IInv, [Next]_vars PROVE IInv'
  OBVIOUS
<1>1. ASSUME NEW s \in Sensors, Read(s) PROVE IInv'
  BY <1>1, ReadStep
<1>2. ASSUME NEW s \in Sensors, ReadSpike(s) PROVE IInv'
  BY <1>2, ReadSpikeStep
<1>3. CASE Restart
  BY <1>3, RestartStep
<1>4. CASE Settle
  BY <1>4, OtherStep DEF Settle, IInv, TypeOK
<1>5. CASE LinkChanges
  BY <1>5, OtherStep DEF LinkChanges, IInv, TypeOK
<1>6. CASE Tick
  BY <1>6, TickStep
<1>7. CASE UNCHANGED vars
  BY <1>7, OtherStep DEF vars, IInv, TypeOK
<1> QED
  BY <1>1, <1>2, <1>3, <1>4, <1>5, <1>6, <1>7 DEF Next

-----------------------------------------------------------------------------
LEMMA Invariance == Spec => []IInv
<1>1. Init => IInv
  BY InitIInv
<1>2. IInv /\ [Next]_vars => IInv'
  BY Step
<1> QED
  BY <1>1, <1>2, PTL DEF Spec

(* Every variable keeps its range, the memory that of possible energies.   *)
THEOREM TypeCorrect == Spec => []TypeOK
<1>1. IInv => TypeOK
  BY Zenon DEF IInv
<1> QED
  BY <1>1, Invariance, PTL

(* The filter never turns a true reading away for the time that passed or  *)
(* for what was lost since: only for a spike or another sensor's reading.  *)
THEOREM OnlyForOthers == Spec => []RefusedOnlyForOthers
<1>1. IInv => RefusedOnlyForOthers
  BY Zenon DEF IInv
<1> QED
  BY <1>1, Invariance, PTL

(* What a process publishes of a rising energy never falls, for any number *)
(* of sensors that share the name and any precision.                       *)
THEOREM NothingFalls == Spec => NeverFalls
<1> DEFINE Holds == \A s \in Sensors : Rising(s) /\ shown[s] >= 0 => shown'[s] >= shown[s]
<1>1. ASSUME IInv, [Next]_vars, ~Restart PROVE Holds
  <2>1. TypeOK /\ ShownIsRemembered /\ shown \in [Sensors -> Int]
    BY <1>1, Zenon DEF IInv, TypeOK
  <2>2. ASSUME NEW t \in Sensors, Read(t) PROVE Holds
    <3>1. True(t) \in [number : BOOLEAN, value : Int]
      BY <2>1, TrueReading
    <3>2. PublishSensorState(t, True(t), t) /\ UNCHANGED kind
      BY <2>2, Zenon DEF Read
    <3> QED
      BY <2>1, <3>1, <3>2, PublishRaises, Zenon
  <2>3. ASSUME NEW t \in Sensors, ReadSpike(t) PROVE Holds
    <3>1. PICK r \in Spikes : PublishSensorState(t, r, Spike)
      BY <2>3, Zenon DEF ReadSpike
    <3>2. r \in [number : BOOLEAN, value : Int] /\ UNCHANGED kind
      BY <2>3, PublishingAssumption DEF ReadSpike
    <3> QED
      BY <2>1, <3>1, <3>2, PublishRaises, Zenon
  <2>4. CASE Settle \/ LinkChanges \/ Tick \/ UNCHANGED vars
    <3>1. shown' = shown
      BY <2>4, Zenon DEF Settle, LinkChanges, Tick, vars
    <3> QED
      BY <2>1, <3>1
  <2> QED
    BY <1>1, <2>2, <2>3, <2>4 DEF Next
<1>2. IInv /\ [Next]_vars => [~Restart => Holds]_vars
  BY <1>1
<1> QED
  BY <1>2, Invariance, PTL DEF Spec, NeverFalls
=============================================================================
